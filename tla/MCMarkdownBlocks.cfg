SPECIFICATION Spec
CONSTANTS
  RawTags <- MCRawTags
  BlockTags <- MCBlockTags
  Reserved <- MCReserved
  MaxLabel = 1000
  Entities <- MCEntities
  None = None
  MaxParens = 32
  Families <- MCFamilies
CHECK_DEADLOCK FALSE
INVARIANTS
  TextInPlace
  ChildrenInside
  QuotesKeepBlocks
  ItemsKeepBlocks
  LazyLines
  TabsCountColumns
  WeavingKeepsNodes
