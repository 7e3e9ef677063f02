----------------------------- MODULE OwnerView -----------------------------
(***************************************************************************)
(* Consolidate as the owner of the set sees it: the files, merges and      *)
(* deletions implement RestorePoints.  The variable view is only there to  *)
(* be compared: it is what the files in the directory come to.             *)
(***************************************************************************)
EXTENDS Consolidate

VARIABLE view  \* history: moment -> what a restore of the set writes

\* The files that no other file has absorbed: what Tidy would leave.
Clean(D) == {f \in D : \A g \in D \ {f} : ~(f.num \in Owned(g) /\ f.merged \subseteq g.merged)}

\* The moments a set of files can be restored to, and what it restores to.
ViewOf(D) ==
  LET starts == {t \in D : Discoverable(D, t) /\ Resolvable(Members(D, t))}
  IN  [m \in {Moment(t) : t \in starts} |->
         Restore(Members(D, CHOOSE t \in starts : Moment(t) = m))]

\* A merge with one of the two flaws ends the comparison (see LaterFilesResolve and
\* NothingMissing).
SeenInit == Init /\ view = ViewOf(dir)
SeenNext == Next /\ view' = IF flaws' # {} THEN view ELSE ViewOf(Clean(dir'))

ViewSpec == SeenInit /\ [][SeenNext]_<<vars, view>>

Promise == INSTANCE RestorePoints WITH points <- view

\* A merge, with its deletions and whatever cuts them short, is one step: it gives up the
\* moments of the range before its last, and every other moment restores to what it did,
\* whatever was merged or thinned out before (cli.rs, consolidate).
ImplementsRestorePoints == Promise!Spec
=============================================================================
