SPECIFICATION FairSpec
CONSTANTS
  short = short
  NoName = NoName
  Bits = {0}
  Shifts = {0}
  Names = {short}
  NameLen <- MCNameLen
  Formats = {"dec"}
  Labels = {NoName}
  CallMasks <- OneBitMasks
  Selectors <- OneBitMasks
  NamedArguments <- MaskedAndPlain
  ItemSpace = 13
  StringSpace = 20
  IfLimit = 1
  ElseLimit = 1
  PairLimit = 1
  ContLimit = 2
  AppendTerminate = TRUE
  ThrowOnTerminate = FALSE
INVARIANT RoundTripUnambiguous
PROPERTY DecodingEnds
CHECK_DEADLOCK FALSE
