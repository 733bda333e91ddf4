SPECIFICATION RoundTripSpec
CONSTANTS
  short = short
  NoName = NoName
  Bits = {0, 1}
  Shifts = {0, 1}
  Names = {short}
  NameLen <- MCNameLen
  Formats = {"dec"}
  Labels = {NoName}
  CallMasks <- TwoMasks
  Selectors <- OneBitMasks
  NamedArguments <- TwoForms
  ItemSpace = 6
  StringSpace = 20
  IfLimit = 15
  ElseLimit = 8
  PairLimit = 16
  ContLimit = 32
  AppendTerminate = FALSE
  ThrowOnTerminate = TRUE
INVARIANT NeverAborts
CHECK_DEADLOCK FALSE
