\* Starting the threads.
SPECIFICATION Spec
CONSTANTS
  m1 = m1
  m2 = m2
  m3 = m3
  NoMsg = NoMsg
  Msgs <- MCMsgs2
  Kinds <- MCRequests
  MqMax = 2
  MaxRestarts = 0
  MaxOwn = 0
  Quits = TRUE
CHECK_DEADLOCK FALSE
INVARIANT WriterIsSet
