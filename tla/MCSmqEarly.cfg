\* Two handsets, two SMS, every kind of text and of answer from the registry.
SPECIFICATION Spec
CONSTANTS
  i1 = i1
  i2 = i2
  Imsis <- MCImsis
  Texts <- MCFewTexts
  MaxSms = 2
  MaxRegister = 2
  DigitsMin = 2
  DigitsMax = 3
  DigitsOverride = TRUE
  AddResults <- MCResults
SYMMETRY MCSymmetry
CHECK_DEADLOCK FALSE
INVARIANT WelcomeIsFinal
