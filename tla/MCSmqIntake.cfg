\* One datagram of every kind with up to two flaws, and what comes of it.
SPECIFICATION Spec
CONSTANTS
  Senders <- MCSenders
  Users <- MCUsers
  Strangers <- MCStrangers
  MaxFlaws = 2
  MaxSent = 1
  MaxChanges = 1
  MaxCrashes = 1
INVARIANT TypeOK AnswersEnd PhraseKnown NotRelayedBack AcceptedAgain
CHECK_DEADLOCK FALSE
