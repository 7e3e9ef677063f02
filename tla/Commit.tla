------------------------------- MODULE Commit -------------------------------
(***************************************************************************)
(* One merge from its checks of space to its last deletion, on a disk that *)
(* may lose power (src/commit.rs, and write_merge in src/cli.rs).  What a  *)
(* process sees in the folder is not what the disk holds: an operation on  *)
(* the folder stays pending until the folder is flushed, and power loss    *)
(* keeps any of the pending ones; the bytes of the output are torn unless  *)
(* a full flush came before.  Retries of the rename, locks and other runs  *)
(* are in MergeRun.                                                        *)
(*                                                                         *)
(* The output is "none", "whole", "short" (its last bytes never written,   *)
(* zeros in their place) or "torn" (power loss took some of them).         *)
(***************************************************************************)
EXTENDS Integers, SequencesExt

CONSTANTS
  Sources,     \* the files the merge absorbs, as numbers: they go in this order
  Projected,   \* plan.projected_size()
  Margin,      \* SPACE_MARGIN
  Finals,      \* the sizes the output may turn out to have
  Frees,       \* the bytes the disk may have free
  Limits       \* the largest file a disk may hold (FAT32_LIMIT, or larger than any)

VARIABLES
  pc,       \* where the run is
  final,    \* the size the writer reports
  limit,    \* the largest file the disk holds
  free,     \* bytes free
  length,   \* the length of the temporary file
  wrote,    \* how many of its bytes the write put there
  synced,   \* the bytes are on the disk
  weak,     \* flush_downgraded
  unheard,  \* history: the flush of the folder did nothing
  folder,   \* what a process sees: the sources left and the output
  disk,     \* what the disk holds of that
  pending   \* the operations on the folder that the disk has yet to hold: the number of a
            \* deleted source, or Placed

vars == <<pc, final, limit, free, length, wrote, synced, weak, unheard, folder, disk,
          pending>>
fileVars == <<free, length, wrote, synced, weak, unheard>>
folderVars == <<folder, disk, pending>>

ASSUME SizeAssumption ==
  /\ Sources \subseteq Nat \ {0} /\ Projected \in Nat /\ Margin \in Nat
  /\ Finals \subseteq 1 .. Projected + Margin /\ Frees \subseteq Nat /\ Limits \subseteq Nat

Placed == 0  \* the rename, among the pending operations

Contents == {"none", "whole", "short", "torn"}
Ended == {"refused", "failed", "done", "off"}
Running == {"start", "clear", "created", "reserved", "written", "measured", "synced",
            "renamed", "flushed", "deleting"}

Go(step) == pc' = step

Init ==
  /\ pc = "start"
  /\ final \in Finals /\ limit \in Limits /\ free \in Frees
  /\ length = 0 /\ wrote = 0 /\ synced = FALSE /\ weak = FALSE /\ unheard = FALSE
  /\ folder = [left |-> Sources, out |-> "none"]
  /\ disk = folder
  /\ pending = <<>>

-----------------------------------------------------------------------------
(* Space.                                                                  *)

\* check_free_space.  (Mutants: no check; without the margin.)
Unchecked(space) == space \in Nat
Holds(space) == space >= Projected
Fits(space) == space >= Projected + Margin

\* check_file_size_limit, check_free_space.
CheckSpace ==
  /\ pc = "start"
  /\ Go(IF Projected <= limit /\ Fits(free) THEN "clear" ELSE "refused")
  /\ UNCHANGED <<final, limit, fileVars, folderVars>>

Create ==
  /\ pc = "clear"
  /\ Go("created") \/ Go("failed")
  /\ UNCHANGED <<final, limit, fileVars, folderVars>>

\* reserve makes the file as long as the projection, or does nothing.
Reserve ==
  /\ pc = "created"
  /\ \/ length' = Projected /\ free' = free - Projected
     \/ UNCHANGED <<length, free>>
  /\ Go("reserved")
  /\ UNCHANGED <<final, limit, wrote, synced, weak, unheard, folderVars>>

\* What the write takes beyond what the file has.
Beyond == Max({0, final - length})
RoomToWrite == Beyond <= free /\ final <= limit

\* write_output: all the bytes, or fewer if the file system loses the last of them and says
\* nothing; or an error.
WriteOutput ==
  /\ pc = "reserved"
  /\ \/ /\ RoomToWrite
        /\ \E n \in 0 .. final : wrote' = n /\ length' = Max({length, n})
        /\ free' = free - (length' - length)
        /\ Go("written")
     \/ Go("failed") /\ UNCHANGED <<free, length, wrote>>
  /\ UNCHANGED <<final, limit, synced, weak, unheard, folderVars>>

-----------------------------------------------------------------------------
(* TempOutput::commit.                                                     *)

\* A length over the reported size is the reservation's.  (Mutant: it stays.)
Uncut == length
Cut == IF length > final THEN final ELSE length

\* metadata and set_len, each of which may fail before anything is cut.
Measure ==
  /\ pc = "written"
  /\ \/ /\ length' = Cut
        /\ free' = free + (length - Cut)
        /\ Go(IF length >= final THEN "measured" ELSE "failed")
     \/ Go("failed") /\ UNCHANGED <<length, free>>
  /\ UNCHANGED <<final, limit, wrote, synced, weak, unheard, folderVars>>

\* Whether a flush that failed ends the run.  (Mutant: it does not.)
FlushIgnored == Go("synced")
FlushFailed == Go("failed")

\* sync_all; where that is not supported sync_data, which the drive may keep in its cache.
Sync ==
  /\ pc = "measured"
  /\ \/ synced' = TRUE /\ Go("synced") /\ UNCHANGED weak
     \/ weak' = TRUE /\ Go("synced") /\ UNCHANGED synced
     \/ FlushFailed /\ UNCHANGED <<synced, weak>>
  /\ UNCHANGED <<final, limit, free, length, wrote, unheard, folderVars>>

Written == IF wrote = final THEN "whole" ELSE "short"

Rename ==
  /\ pc = "synced"
  /\ \/ /\ folder' = [folder EXCEPT !.out = Written]
        /\ pending' = Append(pending, Placed)
        /\ Go("renamed")
     \/ Go("failed") /\ UNCHANGED <<folder, pending>>
  /\ UNCHANGED <<final, limit, fileVars, disk>>

\* The folder is flushed; a share may not do it, and the run does not hear of that.
\* (Mutant: it is not asked to.)
NoFlush == UNCHANGED <<disk, pending, unheard>>
FlushDirectory ==
  \/ disk' = folder /\ pending' = <<>> /\ UNCHANGED unheard
  \/ unheard' = TRUE /\ UNCHANGED <<disk, pending>>

FlushFolder ==
  /\ pc = "renamed"
  /\ FlushDirectory
  /\ Go("flushed")
  /\ UNCHANGED <<final, limit, free, length, wrote, synced, weak, folder>>

-----------------------------------------------------------------------------
(* The rest of write_merge.                                                *)

\* check_output looks for the framing at the end of the file, which a short one lacks.
\* (Mutant: for a file.)
IsThere == folder.out # "none"
FramingPasses == folder.out = "whole"

\* The reading may fail on a whole output too.
ReadBack ==
  /\ pc = "flushed"
  /\ (FramingPasses /\ Go("deleting")) \/ Go("failed")
  /\ UNCHANGED <<final, limit, fileVars, folderVars>>

DeleteNext ==
  /\ pc = "deleting"
  /\ \/ /\ folder.left # {}
        /\ LET s == Min(folder.left)
           IN  folder' = [folder EXCEPT !.left = @ \ {s}] /\ pending' = Append(pending, s)
        /\ UNCHANGED pc
     \/ folder.left # {} /\ Go("failed") /\ UNCHANGED <<folder, pending>>
     \/ folder.left = {} /\ Go("done") /\ UNCHANGED <<folder, pending>>
  /\ UNCHANGED <<final, limit, fileVars, disk>>

\* What the disk holds once it has some of the pending operations, the bytes of the output
\* being as given.
After(operations, bytes) ==
  [left |-> disk.left \ operations,
   out  |-> IF Placed \in operations THEN bytes ELSE disk.out]

\* Power is lost: the disk keeps any of the pending operations, in no order, and the bytes of
\* the output if they were flushed.
PowerLoss ==
  /\ pc # "off"
  /\ \E kept \in SUBSET Range(pending) :
     \E bytes \in {Written} \cup (IF synced THEN {} ELSE {"torn"}) :
       LET onDisk == After(kept, bytes)
       IN  disk' = IF synced \/ onDisk.out = "none" THEN onDisk
                   ELSE [onDisk EXCEPT !.out = bytes]
  /\ folder' = disk'
  /\ pending' = <<>>
  /\ Go("off")
  /\ UNCHANGED <<final, limit, fileVars>>

\* The same command again, with a temporary file of another name.  It is refused if the
\* output is there, and cannot plan without its sources.
Again ==
  /\ pc \in {"failed", "off"} /\ folder = [left |-> Sources, out |-> "none"]
  /\ Go("start")
  /\ free' \in Frees /\ final' \in Finals
  /\ length' = 0 /\ wrote' = 0 /\ synced' = FALSE /\ weak' = FALSE
  /\ unheard' = FALSE
  /\ UNCHANGED <<limit, folderVars>>

Next ==
  \/ CheckSpace \/ Create \/ Reserve \/ WriteOutput \/ Measure \/ Sync \/ Rename
  \/ FlushFolder \/ ReadBack \/ DeleteNext \/ PowerLoss \/ Again

Spec == Init /\ [][Next]_vars

-----------------------------------------------------------------------------
(* Properties.                                                             *)

\* Every variable stays in its set.
TypeOK ==
  /\ pc \in Ended \cup Running
  /\ final \in Finals /\ limit \in Limits
  /\ free \in Nat /\ length \in Nat /\ wrote \in 0 .. final
  /\ {synced, weak, unheard} \subseteq BOOLEAN
  /\ folder \in [left : SUBSET Sources, out : Contents]
  /\ disk \in [left : SUBSET Sources, out : Contents]
  /\ Range(pending) \subseteq Sources \cup {Placed}

\* Where flushes do what they say, power loss at any moment, and again in a run after it,
\* leaves every source on the disk or a whole output (commit.rs, "The order of the commit
\* sequence is fixed").
SurvivesPowerLoss == ~weak /\ ~unheard => disk.left = Sources \/ disk.out = "whole"

\* The name of the output never leads to bytes that power loss took, whatever the flush of
\* the folder does, as long as the flush before the rename was the strong one (commit.rs,
\* commit).
NeverTorn == ~weak => disk.out # "torn"

\* What is renamed into place has the size the writer reported, whatever was reserved
\* (commit.rs, "commit cuts it back to what was written").
ExactLength == folder.out \in {"whole", "short"} /\ pc \in Running => length = final

\* With the disk to itself, a run that passed the checks does not run out of space half way,
\* however low the projection was within the margin (commit.rs, "Refuse before writing
\* anything, rather than failing forty gigabytes in").
SpaceLasts == pc = "reserved" => Beyond <= free
=============================================================================
