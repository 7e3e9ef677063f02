--------------------------- MODULE RestorePoints ---------------------------
(***************************************************************************)
(* What a backup set promises its owner, with no files in it: a map from   *)
(* moments to what the disk held then.  Reflect adds later moments; a      *)
(* merge of a range gives up the moments before the last of the range, and *)
(* changes nothing that any other moment restores to (src/README.md and    *)
(* the doc of `consolidate` in src/cli.rs); Reflect's retention gives up   *)
(* one.  A moment is the number of the backup made then.                   *)
(***************************************************************************)
EXTENDS Naturals

VARIABLE points  \* moment -> what the disk held

Init == DOMAIN points = {0}

\* What every step keeps: those moments that are still there restore as they did.
Unchanged == \A m \in DOMAIN points \cap DOMAIN points' : points'[m] = points[m]

\* A backup: one moment more, later than all that are there.
Add ==
  /\ \E m \in DOMAIN points' : /\ \A n \in DOMAIN points : n < m
                               /\ DOMAIN points' = DOMAIN points \cup {m}
  /\ Unchanged

\* A merge of the range from one moment to another: it is the last that stays.
MergeRange ==
  /\ \E low, high \in DOMAIN points :
       /\ low < high
       /\ DOMAIN points' = {m \in DOMAIN points : m < low \/ high <= m}
  /\ Unchanged

\* Retention: one moment less, not the newest.
Discard ==
  /\ \E m, n \in DOMAIN points : m < n /\ DOMAIN points' = DOMAIN points \ {m}
  /\ Unchanged

Next == Add \/ MergeRange \/ Discard

Spec == Init /\ [][Next]_points
=============================================================================
