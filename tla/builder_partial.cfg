SPECIFICATION MCSpec
CONSTANTS
  Styles = {"chain"}
  short = short
  long = long
  NoName = NoName
  Bits = {0, 1}
  Names = {short, long}
  NameLen <- MCNameLen
  Formats = {"dec"}
  CallMasks <- MCMasks
  Selectors <- HandleSelectors
  Labels = {NoName, long}
  AuthorSelectors <- ChainSelectors
  AuthorLabels = {NoName, short}
  ItemSpace = 6
  StringSpace = 4
INVARIANT NamedNeverEmpty
CHECK_DEADLOCK FALSE
