\* Every combination of number, text, header, scheme and period format.
SPECIFICATION Spec
CONSTANTS
  None = None
  ToNumbers <- MCToNumbers
  FromNumbers <- MCFromNumbers
  Smscs <- MCOneSmsc
  Texts <- MCTexts
  HeaderOctets <- MCHeaders
  Schemes <- MCSchemes
  PeriodFormats <- MCFormats
  ProtocolIds <- MCPids
  Times <- MCTimes
INVARIANT TypeOK
INVARIANT SubmitUnderstood
INVARIANT FrameFilled
INVARIANT DeliverUnderstood
