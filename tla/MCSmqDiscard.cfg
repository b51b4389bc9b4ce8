\* One request from anyone to anything, one answer, three tries, with a rate limit
\* and a global relay.
SPECIFICATION FairSpec
CONSTANTS
  u1 = u1
  u2 = u2
  NoTag = NoTag
  Ids <- MCIds
  Legacies <- MCOneLeft
  UserTags <- MCOneTag
  OwnNumbers <- MCOneNumber
  Methods <- MCMessageOnly
  Froms <- MCFroms
  Targets <- MCTargets
  Statuses <- MCStatuses
  ShortCodes <- MCShortCodes
  ShortCodeActions <- MCQuietActions
  Ticks <- MCTicks
  MaxRequests = 1
  MaxResponses = 1
  MaxRegister = 1
  GlobalRelay = TRUE
  MaxRetries = 3
  RateLimit = 1
  AckedResend = 60
  MessageBounce = 120
  UniqueTags = FALSE
INVARIANT SendsBounded
PROPERTY EventuallyDiscarded
