----------------------------- MODULE SetFolder ------------------------------
(***************************************************************************)
(* What the program finds around the files: the tree a scan walks          *)
(* (ScanTree), the mounts the folder may be on (MountTable), and the       *)
(* documents that name the files of a set (Documents).  The three share no *)
(* state, so a behaviour is one of the three, chosen at the start; the     *)
(* other two stay where they are.                                          *)
(***************************************************************************)
EXTENDS ScanTree

CONSTANTS
  Plain, Spaced, Escape, Depth, FileSystems, Remote, Local, MaxMounts, None,  \* of MountTable
  Names, MaxNumber, Folder, NoFolder                                          \* of Documents

VARIABLES
  machine,          \* "scan", "mounts" or "documents"
  mounts,           \* of MountTable
  dir, last, middle \* of Documents

documentVars == <<dir, last, middle>>

MT == INSTANCE MountTable
D == INSTANCE Documents

ASSUME PartsAssumption == MT!TableAssumption /\ D!NameAssumption

\* A scan whose root cannot be listed has failed; a root mount; no files.
ScanIdle ==
  /\ parent = [n \in Nodes \ {Root} |-> Root] /\ closed = {Root}
  /\ pc = "failed" /\ pending = <<>> /\ current = <<Root>> /\ out = {}
  /\ moved = {} /\ faults = 0 /\ unseen = {}
MountsIdle == mounts = <<[point |-> <<>>, type |-> CHOOSE t \in FileSystems : TRUE]>>
DocumentsIdle == dir = {} /\ last = 0 /\ middle = FALSE

FolderInit ==
  \/ machine = "scan" /\ Init /\ MountsIdle /\ DocumentsIdle
  \/ machine = "mounts" /\ MT!Init /\ ScanIdle /\ DocumentsIdle
  \/ machine = "documents" /\ D!Init /\ ScanIdle /\ MountsIdle

FolderNext ==
  /\ UNCHANGED machine
  /\ \/ machine = "scan" /\ Next /\ UNCHANGED <<mounts, documentVars>>
     \/ machine = "mounts" /\ MT!Next /\ UNCHANGED <<vars, documentVars>>
     \/ machine = "documents" /\ D!Next /\ UNCHANGED <<vars, mounts>>

\* The scan keeps running.
FolderSpec ==
  /\ FolderInit /\ [][FolderNext]_<<vars, machine, mounts, documentVars>>
  /\ WF_vars(machine = "scan" /\ Walk)

-----------------------------------------------------------------------------
(* Properties.                                                             *)

\* Every variable of the scan and of the documents stays in its set.
TypesOK == TypeOK /\ D!TypeOK

\* A directory is on the mount the program takes it to be on (MountTable).
NestedMountsFound == machine = "mounts" => MT!NestedMountsFound

\* What a document says of its own file is true, and a merged one names no folder
\* (Documents).
OwnEntry == D!OwnEntry
\* The names of a history lead to the files of the set (Documents).
NamesLead == D!NamesLead
=============================================================================
