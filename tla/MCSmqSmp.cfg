\* One request and one response.
SPECIFICATION Spec
CONSTANTS
  m1 = m1
  m2 = m2
  m3 = m3
  NoMsg = NoMsg
  Msgs <- MCMsgs3
  Kinds <- MCRequestResponse
  MqMax = 2
  MaxRestarts = 0
  MaxOwn = 0
  Quits = FALSE
CHECK_DEADLOCK FALSE
INVARIANT SmpIsLive
