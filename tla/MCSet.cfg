\* Every order of backups, merges and retention: chains over two places of the disk, one of
\* them not in the Full, and longer ones while only the place in the Full is used.
SPECIFICATION ViewSpec
CONSTANTS
  Positions = 2
  FullLength = 1
  MaxNumber = 4
  MaxGrown = 3
  Settings = {"s1", "s2"}
  Kinds = {"inc", "diff", "split", "retention"}
CHECK_DEADLOCK FALSE
INVARIANTS TypeOK FlattenIsLastWriter NothingMissing RestoreCorrect SavingBounded
PROPERTY ImplementsRestorePoints
