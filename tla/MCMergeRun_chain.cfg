\* Two runs in the folder of the set, the second on the output of the first, beside a run
\* that writes to another folder and so takes another lock.
SPECIFICATION Spec
CONSTANTS
  Runs = {"low", "next", "full"}
  Paths <- MCPaths
  Folders <- MCFolders
  FolderOf <- MCFolderOf
  SourceAt <- MCSourceAt
  Bystanders = {"other"}
  From <- MCFrom
  To <- MCTo
  Out <- MCOut
  DeleteMerged <- MCAlways
  VerifyMd5 <- MCAlways
  Remote = {"away"}
  Damage = {"framing"}
  Attempts = 2
  NoFile = NoFile
  NoRun = NoRun
  Unreadable = Unreadable
CHECK_DEADLOCK FALSE
INVARIANTS NothingLost SuccessesApart
