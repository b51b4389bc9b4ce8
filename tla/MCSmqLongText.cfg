\* A text longer than the length octet can say.
SPECIFICATION Spec
CONSTANTS
  None = None
  ToNumbers <- MCToNumbers
  FromNumbers <- MCFromNumbers
  Smscs <- MCOneSmsc
  Texts <- MCLongText
  HeaderOctets <- MCNoHeader
  Schemes <- MCDefault
  PeriodFormats <- MCFormats
  ProtocolIds <- MCPids
  Times <- MCTimes
INVARIANT DeliverUnderstood
