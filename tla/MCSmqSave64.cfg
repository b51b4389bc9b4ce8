\* time_t wider than unsigned int.
SPECIFICATION FairSpec
CONSTANTS
  m1 = m1
  m2 = m2
  Msgs <- MCOneMsg
  States <- MCOneState
  Times <- MCTimes64
  Addrs <- MCOneAddr
  TimeBits = 4
  UIntBits = 2
  MaxRetries = 1
  MaxCrashes = 1
PROPERTY ReadingEnds
