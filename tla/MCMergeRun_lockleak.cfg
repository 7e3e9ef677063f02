\* One run whose lock file cannot be written.
SPECIFICATION FairSpec
CONSTANTS
  Runs = {"low"}
  Paths <- MCPaths
  Folders <- MCFolders
  FolderOf <- MCFolderOf
  SourceAt <- MCSourceAt
  Bystanders = {"other"}
  From <- MCFrom
  To <- MCTo
  Out <- MCOut
  DeleteMerged <- MCAlways
  VerifyMd5 <- MCAlways
  Remote = {"home"}
  Damage = {"framing", "payload"}
  Attempts = 2
  NoFile = NoFile
  NoRun = NoRun
  Unreadable = Unreadable
CHECK_DEADLOCK FALSE
INVARIANT FailureFreesLock
