\* Two runs with overlapping ranges write into the folder of the set, on a network mount.
SPECIFICATION FairSpec
CONSTANTS
  Runs = {"low", "high", "clash"}
  Paths <- MCHomePaths
  Folders = {"home"}
  FolderOf <- MCFolderOf
  SourceAt <- MCSourceAt
  Bystanders = {"other"}
  From <- MCFrom
  To <- MCTo
  Out <- MCOut
  DeleteMerged <- MCAlways
  VerifyMd5 <- MCAlways
  Remote = {"home"}
  Damage = {"framing", "payload"}
  Attempts = 2
  NoFile = NoFile
  NoRun = NoRun
  Unreadable = Unreadable
CHECK_DEADLOCK FALSE
INVARIANTS TypeOK MutualExclusion NothingLost
PROPERTIES NeverOverwrites RunEnds
