\* A merge from the Full over numbers that retention took below a Differential.
SPECIFICATION Spec
CONSTANTS
  Positions = 1
  FullLength = 1
  MaxNumber = 4
  MaxGrown = 4
  Settings = {"s1"}
  Kinds = {"inc", "diff", "retention"}
CHECK_DEADLOCK FALSE
INVARIANT GapsAreNormal
