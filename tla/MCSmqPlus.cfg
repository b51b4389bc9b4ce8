\* A sender whose number begins with a plus.
SPECIFICATION Spec
CONSTANTS
  None = None
  ToNumbers <- MCToNumbers
  FromNumbers <- MCPlusNumbers
  Smscs <- MCOneSmsc
  Texts <- MCOneText
  HeaderOctets <- MCNoHeader
  Schemes <- MCDefault
  PeriodFormats <- MCFormats
  ProtocolIds <- MCPids
  Times <- MCTimes
INVARIANT DeliverUnderstood
