\* A Differential above the range that absorbs the Full it was made on.
SPECIFICATION Spec
CONSTANTS
  Positions = 2
  FullLength = 1
  MaxNumber = 3
  MaxGrown = 3
  Settings = {"s1"}
  Kinds = {"inc", "diff"}
CHECK_DEADLOCK FALSE
INVARIANT LaterFilesResolve
