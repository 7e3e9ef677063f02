---------------------------- MODULE CommitProofs ----------------------------
(***************************************************************************)
(* Theorems about Commit, for any sources, sizes and limits: what a power  *)
(* loss at any moment leaves, and that the checks of space are enough.     *)
(***************************************************************************)
EXTENDS Commit, DataLemmas

-----------------------------------------------------------------------------
(* The inductive invariant.                                                *)

Operations == Sources \cup {Placed}

\* Typing, with the pending operations as a sequence.
Typed == TypeOK /\ pending \in Seq(Operations)

\* The folder as the run finds it, and as a run that gave up leaves it.
Untouched == [left |-> Sources, out |-> "none"]

BeforeRename == {"start", "clear", "created", "reserved", "written", "measured", "synced",
                 "refused"}
AfterRename == {"renamed", "flushed", "deleting", "done"}

\* Until the rename the folder is as it was, on the disk as well; a run that failed is on
\* one side of the rename or on the other.
NothingYet ==
  /\ pc \in BeforeRename => folder.out = "none"
  /\ pc \in AfterRename => folder.out # "none"
  /\ pc # "off" /\ folder.out = "none" =>
       folder = Untouched /\ disk = Untouched /\ pending = <<>>

\* What was renamed is what was written, and was flushed one way or the other.
RenamedIsFlushed ==
  /\ pc \in {"synced"} \cup AfterRename => synced \/ weak
  /\ pc # "off" /\ folder.out # "none" => folder.out = Written /\ (synced \/ weak)

\* The disk holds no name for the output, or one that leads to what was written.
DiskIsWritten == pc # "off" => disk.out \in {"none", Written}

\* The folder is flushed before the first deletion.
FlushedBeforeDeleting ==
  /\ pc = "renamed" => folder.left = Sources
  /\ pc \notin {"off", "renamed"} /\ folder.out # "none" /\ ~unheard =>
       disk.out = Written /\ Placed \notin Range(pending)

\* A source is deleted only when the output was read back whole.
DeletedIfWhole ==
  /\ pc \in {"deleting", "done"} => folder.out = "whole"
  /\ pc # "off" /\ folder.left # Sources => folder.out = "whole"
  /\ pc # "off" /\ folder.left = Sources =>
       disk.left = Sources /\ Range(pending) \subseteq {Placed}

\* Once power is lost, what a process sees is what the disk holds.
OffIsDisk == pc = "off" => folder = disk /\ pending = <<>>

\* The length of the temporary file at each step, and the room it leaves.
LengthKept ==
  /\ pc \in {"measured", "synced"} \cup AfterRename => length = final
  /\ pc \in {"clear", "created"} => length = 0 /\ free >= Projected + Margin
  /\ pc = "reserved" => \/ length = 0 /\ free >= Projected + Margin
                        \/ length = Projected /\ free >= Margin
  /\ pc = "start" => length = 0

Inv ==
  /\ Typed /\ NothingYet /\ RenamedIsFlushed /\ DiskIsWritten /\ FlushedBeforeDeleting
  /\ DeletedIfWhole /\ OffIsDisk /\ LengthKept /\ SurvivesPowerLoss /\ NeverTorn

-----------------------------------------------------------------------------
(* Operators of the model.                                                 *)

\* An operation more, among those pending.
LEMMA RangeOfAppend ==
  ASSUME NEW T, NEW s \in Seq(T), NEW e \in T
  PROVE  Append(s, e) \in Seq(T) /\ Range(Append(s, e)) = Range(s) \cup {e}
  <1>1. Append(s, e) \in Seq(T)
    BY AppendProperties
  <1>2. DOMAIN Append(s, e) = 1 .. Len(s) + 1 /\ DOMAIN s = 1 .. Len(s) /\ Len(s) \in Nat
    BY <1>1, AppendProperties, LenProperties
  <1>3. \A i \in 1 .. Len(s) : Append(s, e)[i] = s[i]
    BY AppendProperties
  <1>4. Append(s, e)[Len(s) + 1] = e
    BY AppendProperties
  <1>5. \A x : x \in Range(Append(s, e)) <=> x \in Range(s) \/ x = e
    BY <1>2, <1>3, <1>4 DEF Range
  <1> QED BY <1>1, <1>5

LEMMA RangeOfEmpty == Range(<<>>) = {}
  BY DEF Range

\* The model's arithmetic, without the sets.
LEMMA BeyondIs ==
  ASSUME final \in Int, length \in Int
  PROVE  Beyond = IF final > length THEN final - length ELSE 0
  BY MaxOfTwo DEF Beyond

-----------------------------------------------------------------------------
(* The invariant holds.                                                    *)

LEMMA InitInv == Init => Inv
  <1> SUFFICES ASSUME Init PROVE Inv OBVIOUS
  <1> USE SizeAssumption DEF Init
  <1>1. Range(pending) = {} /\ pending \in Seq(Operations)
    BY RangeOfEmpty
  <1>2. Typed
    <2>1. folder \in [left : SUBSET Sources, out : Contents]
      BY DEF Contents
    <2>2. final \in Finals /\ free \in Nat /\ wrote \in 0 .. final
      OBVIOUS
    <2> QED BY <1>1, <2>1, <2>2 DEF Typed, TypeOK, Running, Ended
  <1>3. NothingYet /\ RenamedIsFlushed /\ DiskIsWritten /\ FlushedBeforeDeleting
    BY DEF NothingYet, RenamedIsFlushed, DiskIsWritten, FlushedBeforeDeleting, Untouched,
           BeforeRename, AfterRename
  <1>4. DeletedIfWhole /\ OffIsDisk /\ LengthKept /\ SurvivesPowerLoss /\ NeverTorn
    BY <1>1 DEF DeletedIfWhole, OffIsDisk, LengthKept, SurvivesPowerLoss, NeverTorn,
                AfterRename
  <1> QED BY <1>2, <1>3, <1>4 DEF Inv

\* Steps before the rename: they leave the folder, and what they change is the file.
BeforeStep ==
  /\ pc \in BeforeRename /\ pc' \in BeforeRename \cup {"failed"}
  /\ UNCHANGED <<folderVars, unheard>>

\* Before the rename, nothing but typing and the lengths needs looking at.
LEMMA BeforeInv ==
  ASSUME Inv, BeforeStep, Typed', LengthKept', pc' = "synced" => synced' \/ weak'
  PROVE  Inv'
  <1> USE DEF Inv, BeforeStep, BeforeRename, AfterRename, folderVars
  <1>1. folder = Untouched /\ disk = Untouched /\ pending = <<>>
    BY DEF NothingYet
  <1>2. folder' = Untouched /\ disk' = Untouched /\ pending' = <<>>
    BY <1>1
  <1>3. NothingYet'
    BY <1>2 DEF NothingYet, Untouched
  <1>4. RenamedIsFlushed' /\ DiskIsWritten' /\ FlushedBeforeDeleting'
    BY <1>2 DEF RenamedIsFlushed, DiskIsWritten, FlushedBeforeDeleting, Untouched
  <1>5. DeletedIfWhole' /\ OffIsDisk' /\ SurvivesPowerLoss' /\ NeverTorn'
    <2>1. Range(pending)' = {}
      BY <1>2, RangeOfEmpty
    <2> QED BY <1>2, <2>1 DEF DeletedIfWhole, OffIsDisk, SurvivesPowerLoss, NeverTorn, Untouched
  <1> QED BY <1>3, <1>4, <1>5

LEMMA NextInv == Inv /\ [Next]_vars => Inv'
  <1> SUFFICES ASSUME Inv, [Next]_vars PROVE Inv' OBVIOUS
  <1> USE SizeAssumption DEF Go
  <1>1. CASE CheckSpace
    <2>1. BeforeStep /\ pc' # "synced"
      BY <1>1 DEF CheckSpace, BeforeStep, BeforeRename, fileVars, folderVars
    <2>2. Typed'
      BY <1>1 DEF CheckSpace, Inv, Typed, TypeOK, Running, Ended, fileVars, folderVars
    <2>3. LengthKept'
      BY <1>1 DEF CheckSpace, Inv, LengthKept, AfterRename, fileVars, Fits
    <2> QED BY <2>1, <2>2, <2>3, BeforeInv
  <1>2. CASE Create
    <2>1. BeforeStep /\ pc' # "synced"
      BY <1>2 DEF Create, BeforeStep, BeforeRename, fileVars, folderVars
    <2>2. Typed'
      BY <1>2 DEF Create, Inv, Typed, TypeOK, Running, Ended, fileVars, folderVars
    <2>3. LengthKept'
      BY <1>2 DEF Create, Inv, LengthKept, AfterRename, fileVars
    <2> QED BY <2>1, <2>2, <2>3, BeforeInv
  <1>3. CASE Reserve
    <2>1. BeforeStep /\ pc' # "synced"
      BY <1>3 DEF Reserve, BeforeStep, BeforeRename, folderVars
    <2>2. LengthKept'
      BY <1>3 DEF Reserve, Inv, Typed, TypeOK, LengthKept, AfterRename
    <2>3. Typed'
      BY <1>3 DEF Reserve, Inv, Typed, TypeOK, LengthKept, Running, Ended, folderVars
    <2> QED BY <2>1, <2>2, <2>3, BeforeInv
  <1>4. CASE WriteOutput
    <2>1. BeforeStep /\ pc' # "synced"
      BY <1>4 DEF WriteOutput, BeforeStep, BeforeRename, folderVars
    <2>2. LengthKept'
      BY <1>4 DEF WriteOutput, LengthKept, AfterRename
    <2>3. free' \in Nat /\ length' \in Nat /\ wrote' \in 0 .. final
      <3>1. final \in Nat /\ length \in Nat /\ free \in Nat /\ wrote \in 0 .. final
        BY DEF Inv, Typed, TypeOK
      <3>2. CASE UNCHANGED <<free, length, wrote>>
        BY <3>1, <3>2
      <3>3. CASE RoomToWrite /\ free' = free - (length' - length)
                 /\ \E n \in 0 .. final : wrote' = n /\ length' = Max({length, n})
        <4>1. PICK n \in 0 .. final : wrote' = n /\ length' = Max({length, n})
          BY <3>3
        <4>2. length' = IF length >= n THEN length ELSE n
          BY <3>1, <4>1, MaxOfTwo
        <4>3. (IF final > length THEN final - length ELSE 0) <= free
          BY <3>1, <3>3, BeyondIs DEF RoomToWrite
        <4> QED BY <3>1, <3>3, <4>1, <4>2, <4>3
      <3> QED BY <1>4, <3>2, <3>3 DEF WriteOutput
    <2>4. Typed'
      BY <1>4, <2>3 DEF WriteOutput, Inv, Typed, TypeOK, Running, Ended, folderVars
    <2> QED BY <2>1, <2>2, <2>4, BeforeInv
  <1>5. CASE Measure
    <2>1. BeforeStep /\ pc' # "synced"
      BY <1>5 DEF Measure, BeforeStep, BeforeRename, folderVars
    <2>2. LengthKept'
      BY <1>5 DEF Measure, Inv, Typed, TypeOK, LengthKept, AfterRename, Cut
    <2>3. Typed'
      BY <1>5 DEF Measure, Inv, Typed, TypeOK, Cut, Running, Ended, folderVars
    <2> QED BY <2>1, <2>2, <2>3, BeforeInv
  <1>6. CASE Sync
    <2>1. BeforeStep /\ (pc' = "synced" => synced' \/ weak')
      BY <1>6 DEF Sync, BeforeStep, BeforeRename, folderVars, FlushFailed
    <2>2. LengthKept'
      BY <1>6 DEF Sync, Inv, LengthKept, AfterRename, FlushFailed
    <2>3. Typed'
      BY <1>6 DEF Sync, Inv, Typed, TypeOK, Running, Ended, folderVars, FlushFailed
    <2> QED BY <2>1, <2>2, <2>3, BeforeInv
  <1>7. CASE Rename
    <2> USE <1>7 DEF Rename
    <2>1. folder = Untouched /\ disk = Untouched /\ pending = <<>> /\ (synced \/ weak)
      BY DEF Inv, NothingYet, BeforeRename, RenamedIsFlushed
    <2>2. wrote \in 0 .. final /\ Written \in Contents \ {"none"} /\ UNCHANGED Written
      BY DEF Inv, Typed, TypeOK, Written, Contents, fileVars
    <2>3. LengthKept'
      BY DEF Inv, LengthKept, fileVars, AfterRename
    <2>4. CASE /\ folder' = [folder EXCEPT !.out = Written]
               /\ pending' = Append(pending, Placed)
               /\ pc' = "renamed"
      <3>1. folder' = [left |-> Sources, out |-> Written] /\ disk' = Untouched
        BY <2>1, <2>4 DEF Untouched
      <3>2. pending' \in Seq(Operations) /\ Range(pending') = {Placed}
        <4>1. <<>> \in Seq(Operations) /\ Placed \in Operations
          BY EmptySeq DEF Operations
        <4>2. pending' = Append(<<>>, Placed)
          BY <2>1, <2>4
        <4>3. /\ Append(<<>>, Placed) \in Seq(Operations)
              /\ Range(Append(<<>>, Placed)) = Range(<<>>) \cup {Placed}
          <5>1. PICK s : s = <<>>
            OBVIOUS
          <5>2. s \in Seq(Operations) /\ Placed \in Operations
            BY <4>1, <5>1
          <5>3. /\ Append(s, Placed) \in Seq(Operations)
                /\ Range(Append(s, Placed)) = Range(s) \cup {Placed}
            BY ONLY <5>2, RangeOfAppend
          <5> QED BY <5>1, <5>3
        <4> QED BY <4>2, <4>3, RangeOfEmpty
      <3>3. Typed'
        BY <2>1, <2>2, <2>4, <3>1, <3>2
           DEF Inv, Typed, TypeOK, Untouched, fileVars, Running, Ended
      <3>4. NothingYet' /\ RenamedIsFlushed' /\ DiskIsWritten' /\ FlushedBeforeDeleting'
        BY <2>1, <2>2, <2>4, <3>1
           DEF NothingYet, RenamedIsFlushed, DiskIsWritten, FlushedBeforeDeleting, Untouched,
               BeforeRename, AfterRename, fileVars
      <3>5. DeletedIfWhole' /\ OffIsDisk' /\ SurvivesPowerLoss' /\ NeverTorn'
        BY <2>4, <3>1, <3>2 DEF DeletedIfWhole, OffIsDisk, SurvivesPowerLoss, NeverTorn, Untouched
      <3> QED BY <2>3, <3>3, <3>4, <3>5 DEF Inv
    <2>5. CASE pc' = "failed" /\ UNCHANGED <<folder, pending>>
      <3>1. BeforeStep /\ pc' # "synced"
        BY <2>5 DEF BeforeStep, BeforeRename, fileVars, folderVars
      <3>2. Typed'
        BY <2>5 DEF Inv, Typed, TypeOK, Running, Ended, fileVars
      <3> QED BY <2>3, <3>1, <3>2, BeforeInv
    <2> QED BY <2>4, <2>5
  <1>8. CASE FlushFolder
    <2> USE <1>8 DEF FlushFolder, FlushDirectory
    <2>1. pc = "renamed" /\ pc' = "flushed" /\ UNCHANGED <<folder, Written>>
      BY DEF Written
    <2>2. folder.out = Written /\ folder.out # "none" /\ folder.left = Sources
      BY <2>1 DEF Inv, NothingYet, RenamedIsFlushed, FlushedBeforeDeleting, AfterRename
    <2>3. /\ pending' \in Seq(Operations) /\ Range(pending') \subseteq Operations
          /\ disk' \in [left : SUBSET Sources, out : Contents]
          /\ unheard' \in BOOLEAN
      BY RangeOfEmpty, EmptySeq DEF Inv, Typed, TypeOK, Operations
    <2>4. Typed'
      BY <2>1, <2>3 DEF Inv, Typed, TypeOK, Running, Ended, Operations
    <2>5. NothingYet' /\ RenamedIsFlushed' /\ DiskIsWritten' /\ LengthKept'
      BY <2>1, <2>2 DEF Inv, NothingYet, RenamedIsFlushed, DiskIsWritten, LengthKept, Untouched,
                        BeforeRename, AfterRename
    <2>6. FlushedBeforeDeleting'
      BY <2>1, <2>2, RangeOfEmpty DEF Inv, FlushedBeforeDeleting
    <2>7. disk'.left = Sources /\ Range(pending') \subseteq {Placed}
      BY <2>1, <2>2, RangeOfEmpty DEF Inv, DeletedIfWhole
    <2>8. DeletedIfWhole' /\ OffIsDisk' /\ SurvivesPowerLoss'
      BY <2>1, <2>2, <2>7 DEF DeletedIfWhole, OffIsDisk, SurvivesPowerLoss
    <2>9. NeverTorn'
      BY <2>5, <2>1 DEF DiskIsWritten, NeverTorn, Written
    <2> QED BY <2>4, <2>5, <2>6, <2>8, <2>9 DEF Inv
  <1>9. CASE ReadBack
    <2> USE <1>9 DEF ReadBack, fileVars, folderVars
    <2>1. pc = "flushed" /\ pc' \in {"deleting", "failed"} /\ UNCHANGED <<folder, disk, pending>>
      OBVIOUS
    <2>2. Typed'
      BY <2>1 DEF Inv, Typed, TypeOK, Running, Ended
    <2>3. NothingYet' /\ RenamedIsFlushed' /\ DiskIsWritten' /\ FlushedBeforeDeleting'
      BY <2>1 DEF Inv, NothingYet, RenamedIsFlushed, DiskIsWritten, FlushedBeforeDeleting,
                  Untouched, BeforeRename, AfterRename, Written
    <2>4. DeletedIfWhole' /\ OffIsDisk' /\ LengthKept'
      BY <2>1 DEF Inv, DeletedIfWhole, OffIsDisk, LengthKept, FramingPasses, AfterRename
    <2>5. SurvivesPowerLoss' /\ NeverTorn'
      BY <2>1 DEF Inv, SurvivesPowerLoss, NeverTorn
    <2> QED BY <2>2, <2>3, <2>4, <2>5 DEF Inv
  <1>10. CASE DeleteNext
    <2> USE <1>10 DEF DeleteNext
    <2>1. pc = "deleting" /\ folder.out = "whole" /\ folder.out = Written
      BY DEF Inv, DeletedIfWhole, RenamedIsFlushed
    <2>2. UNCHANGED <<fileVars, disk, final, Written>>
      BY DEF fileVars, Written
    <2>3. folder.left \subseteq Sources /\ pending \in Seq(Operations)
      BY DEF Inv, Typed, TypeOK
    <2>4. CASE UNCHANGED <<folder, pending>> /\ pc' \in {"done", "failed"}
      <3>1. Typed'
        BY <2>2, <2>4 DEF Inv, Typed, TypeOK, Running, Ended, fileVars
      <3>2. NothingYet' /\ RenamedIsFlushed' /\ DiskIsWritten' /\ FlushedBeforeDeleting'
        BY <2>1, <2>2, <2>4
           DEF Inv, NothingYet, RenamedIsFlushed, DiskIsWritten, FlushedBeforeDeleting,
               Untouched, BeforeRename, AfterRename, fileVars
      <3>3. DeletedIfWhole' /\ OffIsDisk' /\ LengthKept' /\ SurvivesPowerLoss' /\ NeverTorn'
        BY <2>1, <2>2, <2>4
           DEF Inv, DeletedIfWhole, OffIsDisk, LengthKept, SurvivesPowerLoss, NeverTorn,
               AfterRename, fileVars
      <3> QED BY <3>1, <3>2, <3>3 DEF Inv
    <2>5. CASE /\ folder.left # {} /\ UNCHANGED pc
               /\ folder' = [folder EXCEPT !.left = @ \ {Min(folder.left)}]
               /\ pending' = Append(pending, Min(folder.left))
      <3> DEFINE s == Min(folder.left)
      <3>1. s \in folder.left /\ s \in Sources /\ s # Placed
        BY <2>3, <2>5, MinIsMember DEF Placed
      <3> HIDE DEF s
      <3>2. folder' = [left |-> folder.left \ {s}, out |-> "whole"]
        BY <2>1, <2>5 DEF s, Inv, Typed, TypeOK
      <3>3. pending' \in Seq(Operations) /\ Range(pending') = Range(pending) \cup {s}
        BY <2>3, <2>5, <3>1, RangeOfAppend DEF s, Operations
      <3>4. Typed'
        BY <2>2, <2>3, <2>5, <3>1, <3>2, <3>3
           DEF Inv, Typed, TypeOK, fileVars, Contents
      <3>5. NothingYet' /\ RenamedIsFlushed' /\ DiskIsWritten' /\ FlushedBeforeDeleting'
        BY <2>1, <2>2, <2>5, <3>1, <3>2, <3>3
           DEF Inv, NothingYet, RenamedIsFlushed, DiskIsWritten, FlushedBeforeDeleting,
               BeforeRename, AfterRename, fileVars
      <3>6. folder'.left # Sources
        BY <3>1, <3>2
      <3>7. DeletedIfWhole' /\ OffIsDisk' /\ LengthKept' /\ SurvivesPowerLoss' /\ NeverTorn'
        BY <2>1, <2>2, <2>5, <3>2, <3>6
           DEF Inv, DeletedIfWhole, OffIsDisk, LengthKept, SurvivesPowerLoss, NeverTorn,
               AfterRename, fileVars
      <3> QED BY <3>4, <3>5, <3>7 DEF Inv
    <2> QED BY <2>4, <2>5
  <1>11. CASE PowerLoss
    <2> USE <1>11 DEF PowerLoss
    <2>1. PICK kept \in SUBSET Range(pending),
               bytes \in {Written} \cup (IF synced THEN {} ELSE {"torn"}) :
            disk' = IF synced \/ After(kept, bytes).out = "none" THEN After(kept, bytes)
                    ELSE [After(kept, bytes) EXCEPT !.out = bytes]
      OBVIOUS
    <2>2. UNCHANGED <<final, limit, fileVars>> /\ pc' = "off" /\ pc # "off"
      OBVIOUS
    <2>3. disk'.left = disk.left \ kept
          /\ disk'.out \in {"none"} \cup (IF synced THEN {disk.out, Written} ELSE {bytes})
      BY <2>1 DEF After
    <2>4. Written \in {"whole", "short"} /\ bytes \in Contents
      BY <2>1 DEF Written, Contents
    <2>5. disk.left \in SUBSET Sources /\ disk.out \in Contents
      BY DEF Inv, Typed, TypeOK
    <2>6. disk' \in [left : SUBSET Sources, out : Contents]
      <3>1. disk' = [left |-> disk'.left, out |-> disk'.out]
        BY <2>1 DEF After
      <3>2. disk'.left \in SUBSET Sources /\ disk'.out \in Contents
        BY <2>3, <2>4, <2>5 DEF Contents
      <3> QED BY <3>1, <3>2
    <2>7. Typed'
      BY <2>2, <2>6, RangeOfEmpty, EmptySeq DEF Inv, Typed, TypeOK, Ended, fileVars
    <2>8. NothingYet' /\ RenamedIsFlushed' /\ DiskIsWritten' /\ FlushedBeforeDeleting'
          /\ DeletedIfWhole' /\ OffIsDisk' /\ LengthKept'
      BY <2>2 DEF NothingYet, RenamedIsFlushed, DiskIsWritten, FlushedBeforeDeleting,
                  DeletedIfWhole, OffIsDisk, LengthKept, BeforeRename, AfterRename
    <2>9. CASE folder.out = "none"
      <3>1. folder = Untouched /\ disk = Untouched /\ pending = <<>>
        BY <2>2, <2>9 DEF Inv, NothingYet
      <3>2. kept = {}
        BY <3>1, RangeOfEmpty
      <3>3. disk' = Untouched
        BY <2>1, <3>1, <3>2 DEF After, Untouched
      <3> QED BY <2>7, <2>8, <3>3 DEF Inv, SurvivesPowerLoss, NeverTorn, Untouched
    <2>10. CASE folder.out # "none"
      <3>1. folder.out = Written /\ (synced \/ weak) /\ disk.out \in {"none", Written}
        BY <2>2, <2>10 DEF Inv, RenamedIsFlushed, DiskIsWritten
      <3>2. NeverTorn'
        BY <2>2, <2>3, <2>4, <3>1 DEF NeverTorn, fileVars
      <3>3. ASSUME ~weak, ~unheard PROVE disk'.left = Sources \/ disk'.out = "whole"
        <4>1. CASE folder.left = Sources
          <5>1. disk.left = Sources /\ kept \subseteq {Placed}
            BY <2>2, <4>1 DEF Inv, DeletedIfWhole
          <5> QED BY <2>3, <5>1 DEF Placed
        <4>2. CASE folder.left # Sources
          <5>1. folder.out = "whole" /\ pc # "renamed"
            BY <2>2, <4>2 DEF Inv, DeletedIfWhole, FlushedBeforeDeleting
          <5>2. disk.out = "whole" /\ Placed \notin kept /\ synced
            BY <2>2, <2>10, <3>1, <3>3, <5>1 DEF Inv, FlushedBeforeDeleting
          <5> QED BY <2>1, <5>2 DEF After
        <4> QED BY <4>1, <4>2
      <3>4. SurvivesPowerLoss'
        BY <2>2, <3>3 DEF SurvivesPowerLoss, fileVars
      <3> QED BY <2>7, <2>8, <3>2, <3>4 DEF Inv
    <2> QED BY <2>9, <2>10
  <1>12. CASE Again
    <2> USE <1>12 DEF Again
    <2>1. folder = Untouched /\ disk = Untouched /\ pending = <<>>
      BY DEF Inv, NothingYet, OffIsDisk, Untouched
    <2>2. UNCHANGED folderVars /\ pc' = "start"
      OBVIOUS
    <2>3. Typed'
      <3>1. free' \in Nat /\ length' \in Nat /\ wrote' \in 0 .. final'
        OBVIOUS
      <3> QED BY <2>2, <3>1 DEF Inv, Typed, TypeOK, Running, folderVars
    <2>4. NothingYet' /\ RenamedIsFlushed' /\ DiskIsWritten' /\ FlushedBeforeDeleting'
          /\ OffIsDisk' /\ LengthKept'
      BY <2>1, <2>2 DEF NothingYet, RenamedIsFlushed, DiskIsWritten, FlushedBeforeDeleting,
                        OffIsDisk, LengthKept, Untouched, BeforeRename, AfterRename, folderVars
    <2>5. DeletedIfWhole' /\ SurvivesPowerLoss' /\ NeverTorn'
      BY <2>1, <2>2, RangeOfEmpty
         DEF DeletedIfWhole, SurvivesPowerLoss, NeverTorn, Untouched, folderVars
    <2> QED BY <2>3, <2>4, <2>5 DEF Inv
  <1>13. CASE UNCHANGED vars
    BY <1>13 DEF vars, Inv, Typed, TypeOK, NothingYet, RenamedIsFlushed, DiskIsWritten,
                 FlushedBeforeDeleting, DeletedIfWhole, OffIsDisk, LengthKept,
                 SurvivesPowerLoss, NeverTorn, Written
  <1> QED
    BY <1>1, <1>2, <1>3, <1>4, <1>5, <1>6, <1>7, <1>8, <1>9, <1>10, <1>11, <1>12, <1>13
       DEF Next

LEMMA Invariance == Spec => []Inv
  BY InitInv, NextInv, PTL DEF Spec

-----------------------------------------------------------------------------
(* The theorems.                                                           *)

\* Every variable stays in its set; in particular the room on the disk never goes below
\* nothing.
THEOREM CommitTypes == Spec => []TypeOK
  <1>1. Inv => TypeOK
    BY DEF Inv, Typed
  <1> QED BY <1>1, Invariance, PTL

\* A power loss at any moment leaves every source or a whole output, where flushes do what
\* they say (commit.rs, the order of TempOutput::commit; cli.rs, write_merge).
THEOREM PowerLossLosesNothing == Spec => []SurvivesPowerLoss
  <1>1. Inv => SurvivesPowerLoss
    BY DEF Inv
  <1> QED BY <1>1, Invariance, PTL

\* The name of the output never leads to torn bytes, unless the flush of the file was the
\* weak one (commit.rs, TempOutput::commit).
THEOREM OutputNeverTorn == Spec => []NeverTorn
  <1>1. Inv => NeverTorn
    BY DEF Inv
  <1> QED BY <1>1, Invariance, PTL

\* A file that was renamed has the length the writer reported (commit.rs, the cut before
\* the flush).
THEOREM OutputHasItsLength == Spec => []ExactLength
  <1>1. Inv => ExactLength
    BY DEF Inv, NothingYet, LengthKept, ExactLength, BeforeRename, AfterRename, Running
  <1> QED BY <1>1, Invariance, PTL

\* The check of space, made once for the projection, is enough for the write (commit.rs,
\* check_free_space and reserve).
THEOREM SpaceIsEnough == Spec => []SpaceLasts
  <1>1. Inv => SpaceLasts
    <2> SUFFICES ASSUME Inv, pc = "reserved" PROVE Beyond <= free
      BY DEF SpaceLasts
    <2>1. /\ final \in Nat /\ length \in Nat /\ free \in Nat /\ final <= Projected + Margin
          /\ Projected \in Nat /\ Margin \in Nat
      BY SizeAssumption DEF Inv, Typed, TypeOK
    <2>2. (length = 0 /\ free >= Projected + Margin) \/ (length = Projected /\ free >= Margin)
      BY DEF Inv, LengthKept
    <2> QED BY <2>1, <2>2, BeyondIs
  <1> QED BY <1>1, Invariance, PTL
=============================================================================
