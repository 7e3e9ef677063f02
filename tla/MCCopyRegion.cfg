\* Every plan of up to three actions, to its end.
SPECIFICATION Spec
CONSTANTS
  Numbers = {1, 2}
  Bytes <- MCBytes
  Plans <- MCPlans
  Size <- MCSize
  Source <- MCSource
  OutNumber = 9
  Alignment = 4
  MaxOffset = 4
CHECK_DEADLOCK FALSE
INVARIANTS TypeOK ReadsBack EntriesApart OneCopyEach WithinProjection
