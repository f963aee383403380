CONSTANTS
  Start = 1
  End = 33
  PageSize = 4
  TrimThreshold = 12
  TopPad = 0
  NAV = 8
  MaxSmallBinSize = 8
  BinRanges <- MCBinRanges
  BinBlockWidth = 2
  Requests = {1, 4, 8}
  Alignments = {8}
SPECIFICATION HeapSpec
INVARIANTS
  HeapExact
  RefusedOnlyWhenFull
  CallocClears
PROPERTIES
  ImplementsBlocks
