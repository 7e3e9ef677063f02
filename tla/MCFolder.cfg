\* A tree in which up to two folders are moved or deleted during the walk and a listing fails;
\* every table of up to three mounts; five backups, merged in any ranges, under names that may
\* be used again.
SPECIFICATION FolderSpec
CONSTANTS
  Folders = {"root", "a", "b", "snap"}
  Links <- MCLinks
  Snapshots = {"snap"}
  Root = "root"
  Trees <- MCTrees
  MaxChanges = 2
  MaxFaults = 1
  Gone = Gone
  Plain = {"mnt", "share"}
  Spaced = {"my share"}
  Escape <- MCEscape
  Depth = 2
  FileSystems = {"ext4", "cifs", "autofs"}
  Remote = {"cifs"}
  Local = {"ext4"}
  MaxMounts = 3
  MaxNumber = 4
  Names = {n1, n2, n3, n4, n5, n6}
  None = None
  Folder = Folder
  NoFolder = NoFolder
CHECK_DEADLOCK FALSE
INVARIANTS VisitedOnce TypesOK MissedIsReported
INVARIANTS NestedMountsFound
INVARIANTS OwnEntry NamesLead
PROPERTY WalkEnds
