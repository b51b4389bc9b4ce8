\* time_t wider than unsigned int; two messages of every kind, one crash.
SPECIFICATION Spec
CONSTANTS
  m1 = m1
  m2 = m2
  Msgs <- MCMsgs
  States <- MCOneState
  Times <- MCTimesMixed
  Addrs <- MCAddrs
  TimeBits = 4
  UIntBits = 2
  MaxRetries = 1
  MaxCrashes = 1
INVARIANT TypeOK RestoredAsSaved TriesBoundedPerLife
PROPERTY NoneForgotten
