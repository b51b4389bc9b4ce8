\* One request, every short code, two REGISTERs, two answers, and tags that
\* identify messages.
SPECIFICATION Spec
CONSTANTS
  u1 = u1
  u2 = u2
  NoTag = NoTag
  Ids <- MCFewIds
  Legacies <- MCSomeLeft
  UserTags <- MCOneTag
  OwnNumbers <- MCOneNumber
  Methods <- MCMessageOnly
  Froms <- MCImsi
  Targets <- MCShortPhone
  Statuses <- MCFinal
  ShortCodes <- MCShortCodes
  ShortCodeActions <- MCShortCodeActions
  Ticks <- MCDueOrNot
  MaxRequests = 1
  MaxResponses = 2
  MaxRegister = 2
  GlobalRelay = FALSE
  MaxRetries = 1
  RateLimit = 0
  AckedResend = 60
  MessageBounce = 120
  UniqueTags = TRUE
INVARIANT OnlyReloadedShareTag
PROPERTY DuplicateRegisterIgnored
PROPERTY ImplementsService
