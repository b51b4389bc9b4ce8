\* Started again, with a message queue that is not empty.
SPECIFICATION Spec
CONSTANTS
  m1 = m1
  m2 = m2
  m3 = m3
  NoMsg = NoMsg
  Msgs <- MCMsgs2
  Kinds <- MCRequests
  MqMax = 2
  MaxRestarts = 1
  MaxOwn = 0
  Quits = TRUE
CHECK_DEADLOCK FALSE
INVARIANT EntryIsOurs
