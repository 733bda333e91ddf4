SPECIFICATION MCSpec
CONSTANTS
  short = short
  NoName = NoName
  Bits = {0, 1}
  Shifts <- MCShifts
  Names = {short}
  NameLen <- MCNameLen
  Formats = {"dec"}
  ItemSpace = 8
  StringSpace = 6
  IfLimit = 1
  ElseLimit = 1
  PairLimit = 1
  ContLimit = 1
  ThrowOnTerminate = FALSE
  Tokens <- MCTokens
  MaxStack = 5
INVARIANT TypeOK
INVARIANT LinksTyped
INVARIANT AllOwnedOnce
INVARIANT ScopesNarrow
CHECK_DEADLOCK FALSE
