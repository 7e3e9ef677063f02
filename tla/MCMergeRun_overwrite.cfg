\* Two runs on different files with one --out.
SPECIFICATION FairSpec
CONSTANTS
  Runs = {"low", "twin"}
  Paths <- MCPaths
  Folders <- MCFolders
  FolderOf <- MCFolderOf
  SourceAt <- MCSourceAt5
  Bystanders = {"other"}
  From <- MCFrom
  To <- MCTo
  Out <- MCOut
  DeleteMerged <- MCAlways
  VerifyMd5 <- MCAlways
  Remote = {"home"}
  Damage = {"framing", "payload"}
  Attempts = 2
  NoFile = NoFile
  NoRun = NoRun
  Unreadable = Unreadable
CHECK_DEADLOCK FALSE
PROPERTY NeverOverwrites
