SPECIFICATION RoundTripSpec
CONSTANTS
  short = short
  NoName = NoName
  Bits = {0}
  Shifts = {0}
  Names = {short}
  NameLen <- MCNameLen
  Formats = {"dec"}
  Labels = {NoName}
  CallMasks <- OneBitMasks
  Selectors <- OneBitMasks
  NamedArguments <- MaskedAndPlain
  ItemSpace = 12
  StringSpace = 20
  IfLimit = 15
  ElseLimit = 8
  PairLimit = 16
  ContLimit = 32
  AppendTerminate = FALSE
  ThrowOnTerminate = TRUE
INVARIANT RoundTrip
CHECK_DEADLOCK FALSE
