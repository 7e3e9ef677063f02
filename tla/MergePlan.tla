----------------------------- MODULE MergePlan -----------------------------
(***************************************************************************)
(* The plan of a merge (src/plan.rs) and the file it writes, as the next   *)
(* reader of the set finds it (src/write.rs).  M is a set of members as of *)
(* the To file.                                                            *)
(***************************************************************************)
EXTENDS BackupSet

\* The members whose increment lies in the range: continuations go with their parent.
InRange(M, from, to) == {f \in M : from.inc <= f.inc /\ f.inc <= to.inc}

\* The closure: what those members hold, under every number they answer for.
Absorbed(M, from, to) == UNION {Owned(f) : f \in InRange(M, from, to)}

PairRules(from, to) ==
  /\ from.inc <= to.inc
  /\ ~from.diff
  /\ ~to.diff
  /\ from.num # to.num

\* (Mutant: every member will do.)
AnySettings(M, to) == M # {}
SameSettings(M, to) == \A f \in M : f.settings = to.settings
NoSplit(M, from, to) == \A f \in InRange(M, from, to) : ~f.split
\* (Mutant: a Differential may be in the range.)
AnyInside(M, from, to) == InRange(M, from, to) # {}
NoFullInside(M, from, to) ==
  IsFullIndex(from) \/ \A f \in InRange(M, from, to) : ~IsFullIndex(f)

\* check_rules, and the condition build adds.
Mergeable(M, from, to) ==
  /\ PairRules(from, to)
  /\ SameSettings(M, to)
  /\ NoSplit(M, from, to)
  /\ NoFullInside(M, from, to)
  /\ to = Newest(M)

Moves(e, absorbed) == ~IsHole(e) /\ e.num \in absorbed

\* The positions the delta lists of the absorbed members name.  (Mutant: those they store a
\* block for.)
StoredPositions(M, absorbed) ==
  UNION {{at \in DOMAIN f.blocks : ~IsHole(f.blocks[at])} :
           f \in {g \in M : g.num \in absorbed /\ g.delta}}
ChangedPositions(M, absorbed) ==
  UNION {DOMAIN f.blocks : f \in {g \in M : g.num \in absorbed /\ g.delta}}

\* What the output's index is made from: every position for a synthetic full, the
\* changed ones for an incremental merge.
PlannedBlocks(M, from, to) ==
  LET flat == Flatten(M)
  IN  IF IsFullIndex(from) THEN flat
      ELSE [at \in ChangedPositions(M, Absorbed(M, from, to)) |->
              IF at \in DOMAIN flat THEN flat[at] ELSE Hole]

-----------------------------------------------------------------------------
(* The output.                                                             *)

\* The stored blocks to copy, each once (the seen map of write_data_region): those of the
\* reserved sectors, then those of the blocks in ascending order.
CopyList(reserved, blocks, absorbed) ==
  LET Copy(copies, e) == IF Moves(e, absorbed) /\ e \notin Range(copies)
                         THEN Append(copies, e) ELSE copies
  IN  MapThenFoldSet(LAMBDA at, copies : Copy(copies, blocks[at]),
                     FoldLeft(Copy, <<>>, reserved), LAMBDA at : at, Max, DOMAIN blocks)

\* An entry of the output: where its block now is, or what it was.  (Mutant: where the writer
\* stands once the block is written.)
MovedPast(e, copies, absorbed, num) ==
  IF Moves(e, absorbed)
  THEN Entry(num, 1 + CHOOSE i \in DOMAIN copies : copies[i] = e)
  ELSE e
Moved(e, copies, absorbed, num) ==
  IF Moves(e, absorbed)
  THEN Entry(num, CHOOSE i \in DOMAIN copies : copies[i] = e)
  ELSE e

\* The bytes an entry finds in the files of M.
Garbage == <<"garbage">>
Stored(M, e) ==
  LET f == Owner(M, e.num)
  IN  IF e.pos \in DOMAIN f.data THEN f.data[e.pos] ELSE Garbage

Output(M, from, to) ==
  LET absorbed == Absorbed(M, from, to)
      blocks   == PlannedBlocks(M, from, to)
      copies   == CopyList(to.reserved, blocks, absorbed)
      Move(e)  == Moved(e, copies, absorbed, from.num)
  IN  [num |-> from.num, inc |-> from.inc,
       merged   |-> absorbed \ {from.num},
       delta    |-> ~IsFullIndex(from), split |-> FALSE,
       diff     |-> IF IsFullIndex(from) THEN FALSE ELSE to.diff,
       settings |-> to.settings,
       reserved |-> [i \in DOMAIN to.reserved |-> Move(to.reserved[i])],
       blocks   |-> [at \in DOMAIN blocks |-> Move(blocks[at])],
       data     |-> [i \in DOMAIN copies |-> Stored(M, copies[i])]]

\* What --delete-merged removes: the owners of the absorbed numbers.  (Mutant: every member
\* up to the To file.)
UpToTheTo(M, from, to) == {f \in M : f.num <= to.num}
Redundant(M, from, to) == {Owner(M, n) : n \in Absorbed(M, from, to)}
=============================================================================
