\* A file with an error in it.
SPECIFICATION Spec
CONSTANTS
  m1 = m1
  m2 = m2
  Msgs <- MCOneMsg
  States <- MCOneState
  Times <- MCTimes32
  Addrs <- MCOneAddr
  TimeBits = 3
  UIntBits = 3
  MaxRetries = 1
  MaxCrashes = 1
PROPERTY BadFileCleared
