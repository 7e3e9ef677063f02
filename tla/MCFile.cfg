\* Every file of up to six units, and the outputs made from those that are accepted; every
\* small index with one change; every merge of two files over two positions.
SPECIFICATION FileSpec
CONSTANTS
  MaxBlocks = 2
  MaxSize = 6
  DataEnds = {2}
  Lengths = {0, 1}
  Shapes <- MCShapes
  Growth = {0, 2}
  Allowance = 1
  NoDoc = NoDoc
  ElementLen = 1
  DeltaLen = 2
  MaxWord = 3
  MaxCount = 2
  IndexReserved = 2
  IndexBlocks = 2
  Positions = {0, 1}
  Places = {p1, p2}
  BlocksReserved = 1
CHECK_DEADLOCK FALSE
INVARIANTS TypesOK WalkBounded Tiled WrittenIsRead EstimateCovers
INVARIANTS RoundTrip WrongStrideRefused NothingUnread
INVARIANTS PassMeansIntact NoFalseAlarm
