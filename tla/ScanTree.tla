------------------------------ MODULE ScanTree ------------------------------
(***************************************************************************)
(* The walk of a recursive scan (scan_tree and subfolders of src/scan.rs)  *)
(* over a tree of folders that others change meanwhile.  A folder is       *)
(* listed twice: by scan, whose failure is reported, and by subfolders,    *)
(* which leaves out whatever it cannot read.                               *)
(* A path is the sequence of the folders it goes through; a link is a node *)
(* of the tree with a target.                                              *)
(***************************************************************************)
EXTENDS Integers, FiniteSets, SequencesExt

CONSTANTS
  Folders,    \* the real folders
  Links,      \* link -> the folder it leads to
  Snapshots,  \* folders with one of the names SNAPSHOT_FOLDERS lists
  Root,       \* where the scan starts
  Trees,      \* node -> the folder it is in, the trees there may be at first
  MaxChanges, \* how many folders are moved or deleted during the walk
  MaxFaults,  \* how many listings fail for a passing reason, or are cut short by one
  Gone

VARIABLES
  parent,   \* node -> the folder it is in, or Gone
  closed,   \* the folders that can never be listed
  pc,       \* "root", "subroot", "pop", "scan", "subfolders", "done" or "failed"
  pending,  \* the stack of paths to visit
  current,  \* the path being visited
  out,      \* the paths visited, and whether they were scanned
  moved,    \* history: the folders moved or deleted since the start
  faults,   \* history: how many did
  unseen    \* history: the folders such a second listing left out

vars == <<parent, closed, pc, pending, current, out, moved, faults, unseen>>
treeVars == <<parent, closed, moved>>
faultVars == <<faults, unseen>>

Nodes == Folders \cup DOMAIN Links

ASSUME TreeAssumption ==
  /\ IsFiniteSet(Folders) /\ Root \in Folders /\ Snapshots \subseteq Folders \ {Root}
  /\ DOMAIN Links \cap Folders = {} /\ Range(Links) \subseteq Folders
  /\ Trees \subseteq [Nodes \ {Root} -> Folders] /\ Gone \notin Nodes
  /\ MaxChanges \in Nat /\ MaxFaults \in Nat

Init ==
  /\ parent \in Trees
  /\ closed \in {{}} \cup {{f} : f \in Folders}
  /\ pc = "root" /\ pending = <<>> /\ current = <<Root>> /\ out = {}
  /\ moved = {} /\ faults = 0 /\ unseen = {}

Go(step) == pc' = step

\* The folder a path leads to, links followed, and whether it still does.
Real(path) == IF Last(path) \in DOMAIN Links THEN Links[Last(path)] ELSE Last(path)
InPlace(path) ==
  \A i \in 2 .. Len(path) : parent[path[i]] = Real(SubSeq(path, 1, i - 1))

CanList(path) == InPlace(path) /\ Real(path) \notin closed

\* What a listing leads on to.  (Mutants: links too; snapshots too.)
Entered(path) == {n \in Folders \ {Root} : parent[n] = Real(path)}
Linked(path) == {n \in Nodes \ (Snapshots \cup {Root}) : parent[n] = Real(path)}
Subfolders(path) == {n \in Folders \ (Snapshots \cup {Root}) : parent[n] = Real(path)}

\* The paths to some folders of the current one, in an order the system gives.
PathsTo(found) == [i \in DOMAIN SetToSeq(found) |-> Append(current, SetToSeq(found)[i])]

\* subfolders: nothing for a folder that cannot be listed.  An entry that cannot be read is
\* left out, and so are all of them when the listing fails.
Push(stack) ==
  \/ /\ CanList(current)
     /\ \E lost \in SUBSET Subfolders(current) :
          /\ \/ lost = {} /\ UNCHANGED faults
             \/ lost # {} /\ faults < MaxFaults /\ faults' = faults + 1
          /\ unseen' = unseen \cup lost
          /\ pending' = stack \o PathsTo(Subfolders(current) \ lost)
  \/ ~CanList(current) /\ pending' = stack /\ UNCHANGED faultVars

Visited(verdict) == out' = out \cup {[path |-> current, verdict |-> verdict]}

\* scan(root), whose failure ends the command.
ScanRoot ==
  /\ pc = "root"
  /\ \/ CanList(current) /\ Visited("scanned") /\ Go("subroot") /\ UNCHANGED faults
     \/ ~CanList(current) /\ Go("failed") /\ UNCHANGED <<out, faults>>
     \/ faults < MaxFaults /\ faults' = faults + 1 /\ Go("failed") /\ UNCHANGED out
  /\ UNCHANGED <<treeVars, pending, current, unseen>>

SubRoot ==
  /\ pc = "subroot"
  /\ Push(<<>>)
  /\ Go("pop")
  /\ UNCHANGED <<treeVars, current, out>>

\* What is left of the stack.  (Mutant: all of it.)
Peeked == pending
Popped == Front(pending)

Pop ==
  /\ pc = "pop"
  /\ IF pending = <<>> THEN Go("done") /\ UNCHANGED <<pending, current>>
     ELSE Go("scan") /\ current' = Last(pending) /\ pending' = Popped
  /\ UNCHANGED <<treeVars, out, faultVars>>

\* scan, whose failure below the root is reported.  (Mutant: it is not.)
Silent == UNCHANGED out
Report == Visited("skipped")

ScanFolder ==
  /\ pc = "scan"
  /\ \/ CanList(current) /\ Visited("scanned") /\ UNCHANGED faults
     \/ ~CanList(current) /\ Report /\ UNCHANGED faults
     \/ faults < MaxFaults /\ faults' = faults + 1 /\ Report
  /\ Go("subfolders")
  /\ UNCHANGED <<treeVars, pending, current, unseen>>

SubFolder ==
  /\ pc = "subfolders"
  /\ Push(pending)
  /\ Go("pop")
  /\ UNCHANGED <<treeVars, current, out>>

\* The folders above one, and itself.
Above(f) ==
  LET up[n \in 0 .. Cardinality(Folders)] ==
        IF n = 0 THEN {f}
        ELSE up[n - 1] \cup ({parent[g] : g \in up[n - 1] \ {Root, Gone}} \ {Gone})
  IN  up[Cardinality(Folders)]

\* Somebody moves a folder to another, or deletes it.
Change ==
  /\ Cardinality(moved) < MaxChanges
  /\ \E f \in Folders \ {Root}, g \in Folders \cup {Gone} :
       /\ parent[f] # Gone /\ (g = Gone \/ f \notin Above(g))
       /\ parent' = [parent EXCEPT ![f] = g]
       /\ moved' = moved \cup {f}
  /\ UNCHANGED <<closed, pc, pending, current, out, faultVars>>

Walk == ScanRoot \/ SubRoot \/ Pop \/ ScanFolder \/ SubFolder

Next == Walk \/ Change

Spec == Init /\ [][Next]_vars

\* The scan keeps running.
FairSpec == Spec /\ WF_vars(Walk)

-----------------------------------------------------------------------------
(* Properties.                                                             *)

\* Every variable stays in its set.
TypeOK ==
  /\ pc \in {"root", "subroot", "pop", "scan", "subfolders", "done", "failed"}
  /\ parent \in [Nodes \ {Root} -> Folders \cup {Gone}]
  /\ closed \cup moved \cup unseen \subseteq Folders /\ faults \in 0 .. MaxFaults
  /\ \A v \in out : /\ Range(v.path) \subseteq Nodes \ Snapshots
                   /\ v.verdict \in {"scanned", "skipped"}
  /\ \A i \in DOMAIN pending : Len(pending[i]) <= Cardinality(Folders)

\* Nothing that was there all along was moved, and neither was what it is in.
Stable(f) == Root \in Above(f) /\ Above(f) \cap moved = {}

\* A folder that stayed where it was is visited under one path, however the links lead
\* (scan.rs, "so a link loop cannot trap the walk").
VisitedOnce ==
  \A v, w \in out : Real(v.path) = Real(w.path) /\ Stable(Real(v.path)) => v.path = w.path

\* Whether the report says of a stable folder that it was scanned, or that it or one above
\* it was skipped.
Reported(f) ==
  \E v \in out : Real(v.path) = f \/ (Real(v.path) \in Above(f) /\ v.verdict = "skipped")

ToReport == {f \in Folders : Stable(f) /\ Above(f) \cap Snapshots = {}}

\* A folder that stayed where it was is scanned, or it or one above it is reported as
\* skipped, whatever else was moved during the walk and whatever fails, unless a second
\* listing left out the one or the other (scan_tree).
MissedIsReported ==
  pc = "done" => \A f \in ToReport : Reported(f) \/ Above(f) \cap unseen # {}

\* The walk ends, as long as others do not change the tree for ever (scan.rs, scan_tree).
WalkEnds == <>(pc \in {"done", "failed"})
=============================================================================
