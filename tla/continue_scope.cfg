SPECIFICATION RoundTripSpec
CONSTANTS
  short = short
  NoName = NoName
  Bits = {0}
  Shifts = {0}
  Names = {short}
  NameLen <- MCNameLen
  Formats = {"dec"}
  Labels = {NoName}
  CallMasks <- OneBitMasks
  Selectors <- OneBitMasks
  NamedArguments <- MaskedAndPlain
  ItemSpace = 10
  StringSpace = 20
  IfLimit = 1
  ElseLimit = 1
  PairLimit = 1
  ContLimit = 1
  AppendTerminate = FALSE
  ThrowOnTerminate = TRUE
INVARIANT RoundTrip
CHECK_DEADLOCK FALSE
