\* Two requests at once, one answer.
SPECIFICATION Spec
CONSTANTS
  u1 = u1
  u2 = u2
  NoTag = NoTag
  Ids <- MCFewIds
  Legacies <- MCSomeLeft
  UserTags <- MCUserTags
  OwnNumbers <- MCOneNumber
  Methods <- MCMethods
  Froms <- MCImsi
  Targets <- MCShortPhone
  Statuses <- MCEnds
  ShortCodes <- MCShortCodes
  ShortCodeActions <- MCServiceActions
  Ticks <- MCDueOrNot
  MaxRequests = 2
  MaxResponses = 1
  MaxRegister = 1
  GlobalRelay = FALSE
  MaxRetries = 1
  RateLimit = 0
  AckedResend = 60
  MessageBounce = 120
  UniqueTags = FALSE
SYMMETRY MCTagSymmetry
INVARIANT TypeOK
INVARIANT NoBadState
INVARIANT NoBounceLoop
INVARIANT SendsBounded
INVARIANT OrderedUntilAnswered
