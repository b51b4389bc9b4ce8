\* The writer sends to its own full queue.
SPECIFICATION FairSpec
CONSTANTS
  m1 = m1
  m2 = m2
  m3 = m3
  NoMsg = NoMsg
  Msgs <- MCMsgs3
  Kinds <- MCRequests
  MqMax = 2
  MaxRestarts = 0
  MaxOwn = 1
  Quits = FALSE
CHECK_DEADLOCK FALSE
PROPERTY WriterComesBack
