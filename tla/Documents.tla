----------------------------- MODULE Documents -----------------------------
(***************************************************************************)
(* What the documents of a set say beyond their blocks (patch_document of  *)
(* src/write.rs), over backups and merges of any range: the file history,  *)
(* which names the file that holds each number, the paths, and the size of *)
(* the device.  A reader that follows the names and not the directory      *)
(* finds only what they say.                                               *)
(*                                                                         *)
(* The files are a Full and Incrementals, so a file's number stands for    *)
(* its increment too, and 0 is the number of the one with a full index.  A *)
(* merge deletes what it absorbed.  A history is kept in the order of its  *)
(* numbers, and here it is the set of its entries.  Every backup has a     *)
(* history, as those of Reflect have, and every entry a number: what       *)
(* patch_partitions does without one, or with a malformed entry, is left   *)
(* out.                                                                    *)
(***************************************************************************)
EXTENDS Integers, FiniteSetsExt

CONSTANTS
  Names,      \* the names files may be given
  MaxNumber,  \* the last backup Reflect makes
  Folder,     \* where Reflect says a file is
  NoFolder    \* a name alone

VARIABLES
  dir,    \* the files: [num, name, merged, hist, paths, size], hist a set of
          \* [num, folder, name], paths what the auxiliary data says, if it does: a set
          \* of [folder, name]
  last,   \* the number of Reflect's newest backup
  middle  \* history: a merge ended below the newest file of the set

vars == <<dir, last, middle>>

\* What the constants must be.
NameAssumption == IsFiniteSet(Names) /\ MaxNumber \in Nat /\ Folder # NoFolder

Owned(f) == {f.num} \cup f.merged

NamesHeld == {f.name : f \in dir}

Newest == CHOOSE f \in dir : \A g \in dir : g.num <= f.num

\* A backup's own entry, and its path, which not every document has.
Recorded(n, name) == [num |-> n, folder |-> Folder, name |-> name]
Made(name) == {{}, {[folder |-> Folder, name |-> name]}}

\* The size a backup records: that of the device, or whole cylinders of it.
SizeIn(n) == IF n = 0 THEN "device" ELSE "cylinders"

\* The documents backup n may have, after a history.
DocumentsOf(n, name, hist) ==
  [num : {n}, name : {name}, merged : {{}}, hist : {hist \cup {Recorded(n, name)}},
   paths : Made(name), size : {SizeIn(n)}]

Init ==
  /\ \E name \in Names : \E f \in DocumentsOf(0, name, {}) : dir = {f}
  /\ last = 0
  /\ middle = FALSE

\* Reflect's next backup: the history of the newest file, and one entry more.
Backup ==
  /\ last < MaxNumber
  /\ last' = last + 1
  /\ \E name \in Names \ NamesHeld :
       \E f \in DocumentsOf(last + 1, name, Newest.hist) : dir' = dir \cup {f}
  /\ UNCHANGED middle

\* The entries that stay, without their folder.  (Mutant: that of the To file too.)
WithoutFolder(e) == [e EXCEPT !.folder = NoFolder]
ToStays(hist, absorbed) ==
  {WithoutFolder(e) : e \in {d \in hist : d.num \notin absorbed \ {Max(absorbed)}}}
Surviving(hist, absorbed) == {WithoutFolder(e) : e \in {d \in hist : d.num \notin absorbed}}

\* One entry for the output.  (Mutant: under the number of the To file.)
EntryOfTo(from, to, out) == [num |-> to.num, folder |-> NoFolder, name |-> out]
OutputEntry(from, to, out) == [num |-> from.num, folder |-> NoFolder, name |-> out]

\* patch_partitions.
Patched(from, to, absorbed, out) ==
  Surviving(to.hist, absorbed) \cup {OutputEntry(from, to, out)}

\* patch_auxiliary_data, for a document that has a path.
PatchedPaths(paths, out) == {[p EXCEPT !.folder = NoFolder, !.name = out] : p \in paths}

\* patch_disk_sizes, for a merge from the Full alone: the size is that of BackupSet::base.
Base == CHOOSE f \in dir : f.num = 0
PatchedSize(from, to) == IF from.num = 0 THEN Base.size ELSE to.size

\* `consolidate --delete-merged` with a name that no file has.
Merge ==
  \E from, to \in dir, out \in Names \ NamesHeld :
    LET range    == {f \in dir : from.num <= f.num /\ f.num <= to.num}
        absorbed == UNION {Owned(f) : f \in range}
    IN  /\ from.num < to.num
        /\ dir' = (dir \ range) \cup
                    {[num |-> from.num, name |-> out, merged |-> absorbed \ {from.num},
                      hist |-> Patched(from, to, absorbed, out),
                      paths |-> PatchedPaths(to.paths, out), size |-> PatchedSize(from, to)]}
        /\ middle' = (middle \/ to # Newest)
        /\ UNCHANGED last

Next == Backup \/ Merge

Spec == Init /\ [][Next]_vars

-----------------------------------------------------------------------------
(* Properties.                                                             *)

\* Every variable stays in its set, and a history has one entry a number.
TypeOK ==
  /\ last \in 0 .. MaxNumber /\ middle \in BOOLEAN
  /\ \A f \in dir :
       /\ f.num \in 0 .. last /\ f.merged \subseteq 0 .. last /\ f.name \in Names
       /\ \A e, d \in f.hist : e.num = d.num => e = d

\* A document names its own file under its own number and in its paths; that of a merged file
\* says of no file where it was made ("the output must not carry them", patch_document); and
\* the one with the full index has the size of the device, however often it is merged ("the
\* To file's value is wrong for a synthetic Full", patch_disk_sizes).
OwnEntry ==
  \A f \in dir :
    /\ \E e \in f.hist : e.num = f.num /\ e.name = f.name
    /\ \A p \in f.paths : p.name = f.name
    /\ f.merged # {} => \A e \in f.hist \cup f.paths : e.folder = NoFolder
    /\ f.num = 0 => f.size = SizeIn(0)

\* Whoever follows the recorded names from any file finds a file for every number up to it,
\* under the name of the file that holds the number, as long as every merge ended at the
\* newest file of the set; and no file is named twice ("Two entries must never carry one
\* name", patch_partitions).
NamesLead ==
  ~middle =>
    \A f \in dir :
      /\ \A e \in f.hist : \E g \in dir : g.name = e.name /\ g.num = e.num
      /\ \A n \in 0 .. Max(Owned(f)) :
           \E g \in dir : n \in Owned(g) /\ \E e \in f.hist : e.name = g.name
      /\ \A e, d \in f.hist : e.name = d.name => e = d
=============================================================================
