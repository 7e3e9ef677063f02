\* Merges of the whole chain, whose output the next report may take as the start of a range.
SPECIFICATION Spec
CONSTANTS
  Positions = 2
  FullLength = 1
  MaxNumber = 3
  MaxGrown = 3
  Settings = {"s1"}
  Kinds = {"inc"}
CHECK_DEADLOCK FALSE
INVARIANT SavingReal
