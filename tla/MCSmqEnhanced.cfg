\* A validity period in the enhanced format (MCAbsolute has the absolute one).
SPECIFICATION Spec
CONSTANTS
  None = None
  ToNumbers <- MCToNumbers
  FromNumbers <- MCFromNumbers
  Smscs <- MCOneSmsc
  Texts <- MCOneText
  HeaderOctets <- MCNoHeader
  Schemes <- MCDefault
  PeriodFormats <- MCEnhanced
  ProtocolIds <- MCPids
  Times <- MCTimes
INVARIANT SubmitUnderstood
