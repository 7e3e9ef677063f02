----------------------------- MODULE MountTable -----------------------------
(***************************************************************************)
(* How a run tells a local disk from a network mount (Mount::of and        *)
(* file_system_of of src/commit.rs), over the mounts a machine may have    *)
(* made before it: the careful path of a commit hangs on the answer.       *)
(*                                                                         *)
(* A path is a sequence of names.  The kernel lists the mounts in the      *)
(* order they were made, and writes a name with a space in it in another   *)
(* form; a directory is on the mount that was made last among those whose  *)
(* points lead to it.                                                      *)
(***************************************************************************)
EXTENDS Naturals, FiniteSets, SequencesExt

CONSTANTS
  Plain, Spaced,  \* names, without and with a space
  Escape,         \* name with a space -> what the kernel writes for it
  Depth,          \* the longest path
  FileSystems,    \* the types there may be
  Remote, Local,  \* those in the lists REMOTE and LOCAL of the program
  MaxMounts,
  None

VARIABLE mounts  \* the mounts, oldest first: [point, type]

\* What the constants must be.
TableAssumption ==
  /\ Plain \cap Spaced = {} /\ DOMAIN Escape = Spaced
  /\ Range(Escape) \cap (Plain \cup Spaced) = {}
  /\ Remote \cup Local \subseteq FileSystems /\ Remote \cap Local = {}
  /\ Depth \in Nat /\ MaxMounts \in Nat \ {0} /\ None \notin FileSystems

Paths == BoundedSeq(Plain \cup Spaced, Depth)

Init == \E t \in FileSystems : mounts = <<[point |-> <<>>, type |-> t]>>

\* Somebody mounts a file system, on a directory that may be a mount point already.
Mount ==
  /\ Len(mounts) < MaxMounts
  /\ \E p \in Paths, t \in FileSystems : mounts' = Append(mounts, [point |-> p, type |-> t])

Next == Mount

Spec == Init /\ [][Next]_mounts

-----------------------------------------------------------------------------
(* The program.                                                            *)

\* A line of /proc/self/mountinfo.
Written(name) == IF name \in Spaced THEN Escape[name] ELSE name
Line(m) == [m EXCEPT !.point = [i \in DOMAIN @ |-> Written(@[i])]]

\* The lines whose mount point the directory starts with.
Fitting(directory, lines) == {i \in DOMAIN lines : IsPrefix(lines[i].point, directory)}

\* file_system_of: of those, the first of the longest.  (Mutant: the first.)
FirstLine(directory, lines) ==
  CHOOSE i \in Fitting(directory, lines) : \A j \in Fitting(directory, lines) : i <= j
Longest(directory, lines) ==
  CHOOSE i \in Fitting(directory, lines) :
    \A j \in Fitting(directory, lines) :
      \/ Len(lines[j].point) < Len(lines[i].point)
      \/ Len(lines[j].point) = Len(lines[i].point) /\ i <= j

FileSystemOf(directory, lines) ==
  IF Fitting(directory, lines) = {} THEN None ELSE lines[Longest(directory, lines)].type

Lines == [i \in DOMAIN mounts |-> Line(mounts[i])]

\* Mount::of, classify.
Classify(type) ==
  IF type \in Remote THEN "remote" ELSE IF type \in Local THEN "local" ELSE "unknown"

\* What the program may take a directory to be on: neither the list of the mounts nor the
\* directory can always be read.
Of(directory) == {Classify(FileSystemOf(directory, Lines)), Classify(None)}

IsRemote(kind) == kind # "local"

-----------------------------------------------------------------------------
(* Properties.                                                             *)

\* The mount a directory is on.
Holder(directory) ==
  mounts[CHOOSE i \in DOMAIN mounts :
           /\ IsPrefix(mounts[i].point, directory)
           /\ \A j \in DOMAIN mounts : IsPrefix(mounts[j].point, directory) => j <= i]

\* Mounts nest: none was made on a point that an earlier mount is at or below.
Nested ==
  \A i, j \in DOMAIN mounts : i < j => ~IsPrefix(mounts[j].point, mounts[i].point)

NoSpaces == \A i \in DOMAIN mounts : Range(mounts[i].point) \cap Spaced = {}

\* Where mounts nest and their points have no spaces, a directory is on the mount the program
\* takes it to be on, however many points lead to it and in whatever order they are listed
\* (file_system_of, "because mounts nest"); and one that is on no local disk gets the careful
\* path, also when the table or the directory cannot be read (Mount).
NestedMountsFound ==
  Nested /\ NoSpaces =>
    \A d \in Paths :
      /\ FileSystemOf(d, Lines) = Holder(d).type
      /\ Holder(d).type \notin Local => \A kind \in Of(d) : IsRemote(kind)
=============================================================================
