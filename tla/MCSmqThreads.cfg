\* Three objects, every kind of datagram, one message originated, two entries.
\* The process may exit or die.
SPECIFICATION Spec
CONSTANTS
  m1 = m1
  m2 = m2
  m3 = m3
  NoMsg = NoMsg
  Msgs <- MCMsgs3
  Kinds <- MCKinds
  MqMax = 2
  MaxRestarts = 0
  MaxOwn = 1
  Quits = TRUE
SYMMETRY MCSymmetry
CHECK_DEADLOCK FALSE
INVARIANT TypeOK
INVARIANT ListIsLive
INVARIANT IteratorValid
