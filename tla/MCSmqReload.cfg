\* A message that was packed is saved and read back.
SPECIFICATION Spec
CONSTANTS
  hello = hello
  privet = privet
  NoText = NoText
  Garbled = Garbled
  Texts <- MCTexts
  Undecodable <- MCUndecodable
  Relays <- MCNoRelay
  MaxCrashes = 1
INVARIANT ReadBack
