\* Every kind of relay and of message; the process may die.
SPECIFICATION Spec
CONSTANTS
  hello = hello
  privet = privet
  NoText = NoText
  Garbled = Garbled
  Texts <- MCTexts
  Undecodable <- MCUndecodable
  Relays <- MCAllRelays
  MaxCrashes = 1
INVARIANT TypeOK
INVARIANT TextPreserved
INVARIANT SentIsDownlink
INVARIANT RelayGetsItsType
INVARIANT NoticeQuotesText
PROPERTY SentIsCurrent
