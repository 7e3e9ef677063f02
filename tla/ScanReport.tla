----------------------------- MODULE ScanReport -----------------------------
(***************************************************************************)
(* What a scan (src/scan.rs) says of the set in the directory at any       *)
(* moment of its life, beside what the merge it suggests then does.  A     *)
(* file's size is its stored blocks and its index entries; the allowance   *)
(* of the estimate is left out, since it only lowers a saving.             *)
(***************************************************************************)
EXTENDS Consolidate

Size(f) == Len(f.data) + Len(f.reserved) + Cardinality(DOMAIN f.blocks)

SumOver(S, F(_)) == SumFunctionOnSet([x \in S |-> F(x)], S)

Monus(a, b) == IF a < b THEN 0 ELSE a - b

-----------------------------------------------------------------------------
(* The plan's numbers (src/plan.rs).                                       *)

\* Every action that copies counts, those that meet a block again too.
BytesToCopy(M, from, to) ==
  LET blocks == PlannedBlocks(M, from, to)
      absorbed == Absorbed(M, from, to)
  IN  Cardinality({i \in DOMAIN to.reserved : Moves(to.reserved[i], absorbed)})
      + Cardinality({at \in DOMAIN blocks : Moves(blocks[at], absorbed)})

\* An action of the plan, whatever it does, is an entry of the index.
Actions(M, from, to) == Len(to.reserved) + Cardinality(DOMAIN PlannedBlocks(M, from, to))

\* (Mutant: the stored blocks alone.)
DataAlone(M, from, to) == BytesToCopy(M, from, to)
ProjectedSize(M, from, to) == BytesToCopy(M, from, to) + Actions(M, from, to)

-----------------------------------------------------------------------------
(* The report.                                                             *)

\* The files a scan may keep of the set: one of the highest increment, the first listed.
Kept(D) == {t \in D : \A f \in D : f.inc <= t.inc}

\* One range: the size of the owner of every absorbed number, less what the merge writes.
Candidate(M, from, to) ==
  [from     |-> from.num, to |-> to.num,
   moves    |-> BytesToCopy(M, from, to),
   reclaims |-> Monus(SumOver(Absorbed(M, from, to), LAMBDA n : Size(Owner(M, n))),
                      ProjectedSize(M, from, to))]

\* A set of one file, or one that cannot be discovered, has a problem instead.
Starts(D, t) ==
  LET M == Members(D, t)
  IN  IF Discoverable(D, t) /\ Cardinality(M) >= 2
      THEN {f \in M : f.num < Newest(M).num} ELSE {}

Planned(D, t) ==
  LET M == Members(D, t)
  IN  {from \in Starts(D, t) : Resolvable(M) /\ Mergeable(M, from, Newest(M))}

-----------------------------------------------------------------------------
(* Properties.                                                             *)

\* What the directory gets smaller by when the merge of M and its deletions are done.
Released(M, from, to) ==
  Monus(SumOver(Redundant(M, from, to), Size), Size(Output(M, from, to)))

\* No file of the range is itself the output of a merge.
NoneMerged(M, from, to) == \A f \in InRange(M, from, to) : Cardinality(Owned(f)) = 1

Report(P(_, _, _)) ==
  \A t \in Kept(dir) : \A from \in Planned(dir, t) :
    P(Members(dir, t), from, Newest(Members(dir, t)))

\* Of a range without merged files a scan never promises more than its merge then releases,
\* whatever blocks the positions share and whatever of the chain was deleted or merged around
\* the range (scan.rs, report; plan.rs, projected_size).
SavingBounded ==
  Report(LAMBDA M, from, to :
           NoneMerged(M, from, to) => Candidate(M, from, to).reclaims <= Released(M, from, to))

\* "Bytes on disk the merge would release, once the absorbed files are deleted" (scan.rs,
\* Candidate), of every range.  The report adds the size of the owner of each number, so a
\* merged file counts once for every number it answers for.
SavingReal ==
  Report(LAMBDA M, from, to : Candidate(M, from, to).reclaims <= Released(M, from, to))
=============================================================================
