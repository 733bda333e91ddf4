SPECIFICATION MCSpec
CONSTANTS
  Styles = {"chain", "handles"}
  short = short
  long = long
  NoName = NoName
  Bits = {0, 1}
  Names = {short, long}
  NameLen <- MCNameLen
  Formats = {"dec"}
  CallMasks <- MCMasks
  Selectors <- HandleSelectors
  Labels = {NoName}
  AuthorSelectors <- ChainSelectors
  AuthorLabels = {NoName, short}
  ItemSpace = 8
  StringSpace = 5
INVARIANT TypeOK
INVARIANT LinksTyped
INVARIANT ScopesTyped
INVARIANT OwnedOnce
INVARIANT EncodableWhenComplete
INVARIANT NeighboursDiffer
PROPERTY OnlyGrows
PROPERTY ImplementsDescription
CHECK_DEADLOCK FALSE
