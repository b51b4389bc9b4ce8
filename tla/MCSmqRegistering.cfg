\* A registration that never becomes ready.
SPECIFICATION FairSpec
CONSTANTS
  u1 = u1
  u2 = u2
  NoTag = NoTag
  Ids <- MCIds
  Legacies <- MCNothingLeft
  UserTags <- MCUserTags
  OwnNumbers <- MCOneNumber
  Methods <- MCMessageOnly
  Froms <- MCImsi
  Targets <- MCShort
  Statuses <- MCStatuses
  ShortCodes <- MCShortCodes
  ShortCodeActions <- MCRegisterActions
  Ticks <- MCTicks
  MaxRequests = 1
  MaxResponses = 0
  MaxRegister = 1
  GlobalRelay = FALSE
  MaxRetries = 2
  RateLimit = 0
  AckedResend = 60
  MessageBounce = 120
  UniqueTags = FALSE
PROPERTY EventuallyDiscarded
