SPECIFICATION RoundTripSpec
CONSTANTS
  short = short
  NoName = NoName
  Bits = {0, 1}
  Shifts = {0, 1}
  Names = {short}
  NameLen <- MCNameLen
  Formats = {"dec"}
  Labels = {NoName, short}
  CallMasks <- TwoMasks
  Selectors <- OneBitMasks
  NamedArguments <- TwoForms
  ItemSpace = 11
  StringSpace = 20
  IfLimit = 2
  ElseLimit = 1
  PairLimit = 1
  ContLimit = 1
  AppendTerminate = FALSE
  ThrowOnTerminate = TRUE
INVARIANT RoundTripUnambiguous
INVARIANT Reencodes
CHECK_DEADLOCK FALSE
