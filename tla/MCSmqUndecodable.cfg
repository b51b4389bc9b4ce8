\* A handset writes in another alphabet than the 7-bit one.
SPECIFICATION Spec
CONSTANTS
  hello = hello
  privet = privet
  NoText = NoText
  Garbled = Garbled
  Texts <- MCTexts
  Undecodable <- MCUndecodable
  Relays <- MCAllRelays
  MaxCrashes = 0
INVARIANT NothingLost
