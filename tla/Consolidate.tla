---------------------------- MODULE Consolidate ----------------------------
(***************************************************************************)
(* The life of one backup set: Reflect adds Incrementals and Differentials *)
(* and thins them out, and the program merges any range it accepts, again  *)
(* and again, deleting what each merge absorbed one file at a time.  A run *)
(* may be killed among its deletions; a person then removes what is left.  *)
(*                                                                         *)
(* The history variable image keeps what the disk held when each file was  *)
(* made, so that what a set restores to can be compared with it.  A stored *)
(* block is <<file that first stored it, position, settings it was written *)
(* with>>: no two blocks Reflect writes are the same.                      *)
(***************************************************************************)
EXTENDS MergePlan

CONSTANTS
  Positions,   \* how many blocks the disk has, besides its reserved sectors
  FullLength,  \* how many of them the Full covers
  MaxNumber,   \* the highest file number Reflect gets to
  MaxGrown,    \* the highest while a file has blocks beyond those of the Full
  Settings,    \* the ways Reflect may be set to compress and encrypt
  Kinds        \* what Reflect does: a subset of {"inc", "diff", "split", "retention"}

VARIABLES
  dir,      \* the set of files in the directory
  job,      \* the files the running merge has still to delete
  disk,     \* what the machine's disk holds now
  last,     \* num and inc of Reflect's newest backup
  image,    \* history: file number -> what the disk held
  flaws     \* history: "stranded", a merge has absorbed a file that a full index above it
            \* names; "gap", one from the Full went over numbers that retention took

vars == <<dir, job, disk, last, image, flaws>>

ASSUME SizeAssumption ==
  /\ Positions \in Nat \ {0} /\ FullLength \in 0 .. Positions
  /\ MaxNumber \in Nat /\ Settings # {}
  /\ Kinds \subseteq {"inc", "diff", "split", "retention"}

Places == 0 .. Positions - 1
ReservedAt == Positions   \* where an image keeps the reserved sectors
Nothing == <<>>

-----------------------------------------------------------------------------
(* Reflect, which is not part of the program: its files as src/set.rs and  *)
(* src/plan.rs read them.                                                  *)

\* A backup file that stores what the disk holds at the places in news, in some order after
\* the reserved sectors, and whose index is those entries over the older ones of rest.
BackupFile(num, inc, delta, diff, settings, now, news, empty, rest) ==
  LET at == SetToSeq(news)
      EntryAt(p) == IF p \in news THEN Entry(num, 1 + CHOOSE i \in DOMAIN at : at[i] = p)
                    ELSE IF p \in empty THEN Hole ELSE rest[p]
  IN  [num |-> num, inc |-> inc, merged |-> {}, delta |-> delta, split |-> FALSE,
       diff |-> diff, settings |-> settings,
       reserved |-> <<Entry(num, 1)>>,
       blocks   |-> [p \in news \cup empty \cup DOMAIN rest |-> EntryAt(p)],
       data     |-> [i \in 1 .. 1 + Len(at) |->
                       Append(now[(<<ReservedAt>> \o at)[i]], settings)]]

\* Such a file cut in two: the continuation holds the blocks and no index.
Parent(f) ==
  [f EXCEPT !.data = SubSeq(@, 1, 1),
            !.blocks = [p \in DOMAIN @ |->
                          IF IsHole(@[p]) THEN Hole ELSE Entry(f.num + 1, @[p].pos - 1)]]
Continuation(f) ==
  [f EXCEPT !.num = @ + 1, !.split = TRUE, !.delta = FALSE, !.reserved = <<>>,
            !.blocks = <<>>, !.data = Tail(@)]

\* The disk with the places in news written by file num and those in empty freed.
Written(num, news, empty) ==
  [p \in Places \cup {ReservedAt} |->
     IF p \in news \cup {ReservedAt} THEN <<num, p>>
     ELSE IF p \in empty THEN Nothing ELSE disk[p]]

FirstDisk == [p \in Places \cup {ReservedAt} |->
                IF p < FullLength \/ p = ReservedAt THEN <<0, p>> ELSE Nothing]
Full(s) == BackupFile(0, 0, FALSE, FALSE, s, FirstDisk, 0 .. FullLength - 1, {}, <<>>)

Init ==
  /\ \E s \in Settings : dir = {Full(s)}
  /\ job = {}
  /\ disk = FirstDisk
  /\ last = [num |-> 0, inc |-> 0]
  /\ image = [n \in {0} |-> FirstDisk]
  /\ flaws = {}

\* Reflect works on a set it can resolve, and not during a merge.
Settled == job = {} /\ OneOwnerEach(dir)

\* The files reach beyond what the Full covers.
Grown(D) == \E f \in D : \E p \in DOMAIN f.blocks : p >= FullLength

\* The backup of the disk as it is now, in the given files.
Backup(files, now) ==
  LET numbers == {f.num : f \in files}
  IN  /\ Settled /\ Max(numbers) <= MaxNumber
      /\ Grown(dir \cup files) => Max(numbers) <= MaxGrown
      /\ dir' = dir \cup files
      /\ disk' = now
      /\ last' = [num |-> Max(numbers), inc |-> last.inc + 1]
      /\ image' = [n \in DOMAIN image \cup numbers |->
                     IF n \in numbers THEN now ELSE image[n]]
      /\ UNCHANGED <<job, flaws>>

Incremental ==
  /\ "inc" \in Kinds
  /\ \E news \in SUBSET Places : \E empty \in SUBSET (Places \ news), s \in Settings :
       LET n   == last.num + 1
           now == Written(n, news, empty)
       IN  Backup({BackupFile(n, last.inc + 1, TRUE, FALSE, s, now, news, empty, <<>>)}, now)

\* An Incremental in two files, which share its increment number.
SplitIncremental ==
  /\ "split" \in Kinds
  /\ \E news \in SUBSET Places, s \in Settings :
       LET n   == last.num + 1
           now == Written(n, news, {})
           f   == BackupFile(n, last.inc + 1, TRUE, FALSE, s, now, news, {}, <<>>)
       IN  Backup({Parent(f), Continuation(f)}, now)

\* A full index of its own: the Full's entry where the disk is as it was then, a block of
\* its own where it is not.
Differential ==
  /\ "diff" \in Kinds
  /\ \E full \in dir, touched \in SUBSET Places, s \in Settings :
       LET n     == last.num + 1
           was   == image[Max(Owned(full))]
           now   == Written(n, touched, {})
           empty == {p \in Places : now[p] = Nothing}
           news  == {p \in Places \ empty : now[p] # was[p]}
       IN  /\ full.num = 0 /\ IsFullIndex(full)
           /\ Backup({BackupFile(n, last.inc + 1, FALSE, TRUE, s, now, news, empty,
                                 full.blocks)}, now)

\* Reflect deletes the newest Incremental that a later Differential made unnecessary, with
\* its continuation.
Retention ==
  /\ "retention" \in Kinds /\ Settled
  /\ \E f, d \in dir :
       /\ f.delta /\ IsFullIndex(d) /\ f.inc < d.inc
       /\ \A g \in dir : f.inc < g.inc /\ g.inc < d.inc => IsFullIndex(g)
       /\ dir' = {g \in dir : g.inc # f.inc}
  /\ UNCHANGED <<job, disk, last, image, flaws>>

-----------------------------------------------------------------------------
(* The program.                                                            *)

\* `consolidate --delete-merged`: the set is read as of the To file, planned, written and
\* read back.  What is left is to delete the absorbed files.
Merge ==
  /\ job = {}
  /\ \E from, to \in dir :
       LET M == Members(dir, to)
       IN  /\ PairRules(from, to)
           /\ Discoverable(dir, to) /\ Resolvable(M)
           /\ from \in M /\ Mergeable(M, from, to)
           /\ dir' = dir \cup {Output(M, from, to)}
           /\ job' = Redundant(M, from, to)
           /\ flaws' = flaws
                \cup {"stranded" : f \in {g \in dir \ M : IsFullIndex(g) /\
                        \E e \in EntriesOf(g) : Moves(e, Absorbed(M, from, to))}}
                \cup {"gap" : n \in IF IsFullIndex(from)
                                    THEN (from.num .. to.num) \ UNION {Owned(f) : f \in M}
                                    ELSE {}}
  /\ UNCHANGED <<disk, last, image>>

\* One deletion, in ascending file number order.
Delete ==
  /\ job # {}
  /\ LET f == CHOOSE g \in job : \A h \in job : Min(Owned(g)) <= Min(Owned(h))
     IN  dir' = dir \ {f} /\ job' = job \ {f}
  /\ UNCHANGED <<disk, last, image, flaws>>

\* The run is killed, or an error ends its deletions.
Stop ==
  /\ job # {}
  /\ job' = {}
  /\ UNCHANGED <<dir, disk, last, image, flaws>>

\* A person does as discover says: "Move or delete the file the other one absorbed".
Tidy ==
  /\ job = {}
  /\ \E f, g \in dir : f # g /\ f.num \in Owned(g) /\ f.merged \subseteq g.merged
                       /\ dir' = dir \ {f}
  /\ UNCHANGED <<job, disk, last, image, flaws>>

Next == \/ Incremental \/ SplitIncremental \/ Differential \/ Retention
        \/ Merge \/ Delete \/ Stop \/ Tidy

Spec == Init /\ [][Next]_vars

-----------------------------------------------------------------------------
(* Properties.                                                             *)

\* A stored block as a reader decodes it with the settings of the file that holds it.
Decoded(M, e) ==
  IF IsHole(e) THEN Nothing
  ELSE LET bytes == Stored(M, e)
       IN  IF Len(bytes) = 3 /\ bytes[3] = Owner(M, e.num).settings
           THEN SubSeq(bytes, 1, 2) ELSE Garbage

\* What a restore of M writes: the reserved sectors of the newest file, and each block.
Restore(M) ==
  LET flat == Flatten(M)
  IN  [p \in Places \cup {ReservedAt} |->
         IF p = ReservedAt THEN Decoded(M, Newest(M).reserved[1])
         ELSE IF p \in DOMAIN flat THEN Decoded(M, flat[p]) ELSE Nothing]

\* The moment a file stands for: the last of the backups whose numbers it claims.
Moment(f) == Max(Owned(f))

Points == {t \in dir : Discoverable(dir, t) /\ Resolvable(Members(dir, t))}

\* Every variable stays in its set, and what a file says it holds itself is in it.
TypeOK ==
  /\ \A f \in dir \cup job :
       /\ Owned(f) \subseteq 0 .. MaxNumber /\ f.inc \in 0 .. last.inc
       /\ \A e \in EntriesOf(f) : /\ e.num \in 0 .. MaxNumber
                                /\ ~IsHole(e) /\ e.num = f.num => e.pos \in DOMAIN f.data
       /\ f.settings \in Settings
  /\ last.num \in 0 .. MaxNumber /\ last.inc \in 0 .. last.num
  /\ DOMAIN image = 0 .. last.num
  /\ flaws \subseteq {"stranded", "gap"}

RestoresRight(t) == Restore(Members(dir, t)) = image[Moment(t)]

\* Any file a restore can start from gives back the disk as it was then, whatever was
\* merged, re-merged, thinned out, killed half way or tidied up before (set.rs, flatten;
\* plan.rs, build).  It holds until a range with a Differential above it absorbs the Full.
RestoreCorrect == "stranded" \notin flaws => \A t \in Points : RestoresRight(t)

\* When no two files claim one number, every backup that is still there can be resolved:
\* a merge and its deletions never leave a file above them without one it needs
\* (set.rs, check_complete).  It holds until a merge from the Full goes over a gap.
NothingMissing ==
  Settled /\ "gap" \notin flaws => \A t \in dir : Discoverable(dir, t)

\* "A gap below the base is normal" (set.rs, check_complete): a backup that is there can be
\* resolved, whatever retention took, though a merge from the Full puts the base below the gap.
GapsAreNormal == Settled => \A t \in dir : Discoverable(dir, t)

\* Replaying the delta lists oldest to newest leaves each position with the entry of the
\* newest file that names it, merged files included, whose number is their oldest one
\* (set.rs, flatten).
FlattenIsLastWriter ==
  \A t \in Points :
    LET M == Members(dir, t)
        flat == Flatten(M)
    IN  \A p \in Places : LastWriter(M, p) = IF p \in DOMAIN flat THEN flat[p] ELSE Hole

\* "so it resolves either way" (cli.rs, write_merge): a file newer than the range still
\* restores to what it was, the Differentials included.
LaterFilesResolve == \A t \in Points : RestoresRight(t)
=============================================================================
