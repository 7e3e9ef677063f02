----------------------------- MODULE BackupSet -----------------------------
(***************************************************************************)
(* What the program makes of the files of one backup set (src/set.rs): who *)
(* holds the blocks of a file number, where the chain starts, whether a    *)
(* restore has everything it reads, and the block index that results.      *)
(*                                                                         *)
(* A file is a record:                                                     *)
(*   num, inc        file_number and increment_number                      *)
(*   merged          merged_files                                          *)
(*   delta, split    delta_index and split_file                            *)
(*   diff            backup_type is "diff"                                 *)
(*   settings        compression and encryption, as settings_match sees it *)
(*   reserved        sequence of entries, the reserved sectors             *)
(*   blocks          logical position -> entry: every position from 0 on   *)
(*                   for a full index, those changed for a delta one       *)
(*   data            sequence of stored blocks                             *)
(* One partition stands for all: positions of the others are more          *)
(* positions.  Every block has the length 1, so an entry's file_position   *)
(* is an index of data; module CopyRegion has the lengths and offsets.     *)
(***************************************************************************)
EXTENDS Integers, SequencesExt

Entry(num, pos) == [num |-> num, pos |-> pos, len |-> 1]
Hole == [num |-> 0, pos |-> 0, len |-> 0]
IsHole(e) == e.len = 0

IsFullIndex(f) == ~f.delta /\ ~f.split
Owned(f) == {f.num} \cup f.merged

EntriesOf(f) == Range(f.reserved) \cup Range(f.blocks)

-----------------------------------------------------------------------------
(* Discovery.  D is a directory, t the file it is resolved as of, M a set  *)
(* of members.                                                             *)

Members(D, t) == {f \in D : f.inc <= t.inc}

OneOwnerEach(M) == \A f, g \in M : f # g => Owned(f) \cap Owned(g) = {}

Owner(M, n) == CHOOSE f \in M : n \in Owned(f)

Newest(M) == CHOOSE f \in M : \A g \in M : g.num <= f.num

Base(M) == Newest({f \in M : IsFullIndex(f)})

\* The numbers a restore reads: the base to the newest, and those the base names.
Needed(M) ==
  Base(M).num .. Newest(M).num \cup {e.num : e \in {x \in EntriesOf(Base(M)) : ~IsHole(x)}}

Missing(M) == {n \in Needed(M) : \A f \in M : n \notin Owned(f)}

Discoverable(D, t) ==
  LET M == Members(D, t)
  IN  /\ OneOwnerEach(M)
      /\ \E f \in M : IsFullIndex(f)
      /\ Missing(M) = {}

-----------------------------------------------------------------------------
(* Resolution.                                                             *)

\* A continuation file has no disks, so a set whose newest file is one has no shape.
Resolvable(M) == ~Newest(M).split

\* One delta list over what came before.  The array grows with holes, and never shrinks.
Overlay(blocks, delta) ==
  LET top == Max({-1} \cup DOMAIN blocks \cup DOMAIN delta)
  IN  [at \in 0 .. top |-> IF at \in DOMAIN delta THEN delta[at]
                           ELSE IF at \in DOMAIN blocks THEN blocks[at] ELSE Hole]

\* The delta members from the base on.
Deltas(M) == {f \in M : f.num >= Base(M).num /\ f.delta /\ ~f.split}

\* Their lists replayed over the base, oldest first: of any of them, the newest comes last.
\* (Mutant: as the members are kept, newest first.)
Oldest(M) == CHOOSE f \in M : \A g \in M : f.num <= g.num
Backwards(M) ==
  MapThenFoldSet(LAMBDA f, blocks : Overlay(blocks, f.blocks),
                 Base(M).blocks, LAMBDA f : f, Oldest, Deltas(M))
Flatten(M) ==
  MapThenFoldSet(LAMBDA f, blocks : Overlay(blocks, f.blocks),
                 Base(M).blocks, LAMBDA f : f, Newest, Deltas(M))

\* The same, said at once: the entry of the newest file that names the position.
LastWriter(M, at) ==
  LET writers == {f \in M : f.num >= Base(M).num /\ ~f.split /\ at \in DOMAIN f.blocks}
  IN  IF writers = {} THEN Hole ELSE Newest(writers).blocks[at]
=============================================================================
