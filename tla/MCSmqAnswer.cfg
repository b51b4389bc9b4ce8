\* The writer originates nothing: a message queue of two entries is enough.
\* The process may exit or die, and is started again once.
SPECIFICATION FairSpec
CONSTANTS
  m1 = m1
  m2 = m2
  m3 = m3
  NoMsg = NoMsg
  Msgs <- MCMsgs2
  Kinds <- MCRequestResponse
  MqMax = 2
  MaxRestarts = 1
  MaxOwn = 0
  Quits = TRUE
CHECK_DEADLOCK FALSE
INVARIANT ListIsLive
PROPERTY AnswerReached
