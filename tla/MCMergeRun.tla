---------------------------- MODULE MCMergeRun ----------------------------
(***************************************************************************)
(* Instances of MergeRun: a set of four files, 0 to 3, in a folder "home", *)
(* an unrelated file beside them, and runs whose ranges overlap.  MCFrom   *)
(* and the like give every run its arguments; a cfg picks the runs.        *)
(***************************************************************************)
EXTENDS MergeRun

MCSourceAt == [p \in {"s0", "s1", "s2", "s3"} |->
  CASE p = "s0" -> 0 [] p = "s1" -> 1 [] p = "s2" -> 2 [] p = "s3" -> 3]

\* One file more, for two ranges that have no file in common.
MCSourceAt5 == [p \in DOMAIN MCSourceAt \cup {"s4"} |->
  IF p = "s4" THEN 4 ELSE MCSourceAt[p]]

\* The outputs a and b land beside the sources, c in another folder, d on the file that
\* is already there.
MCPaths == DOMAIN SourceAt \cup {"a", "b", "c", "other"}
MCHomePaths == MCPaths \ {"c"}
MCFolders == {"home", "away"}
MCFolderOf == [p \in Paths |-> IF p = "c" THEN "away" ELSE "home"]

\* low and high overlap in file 2; next merges what low wrote; full takes the whole set
\* to another folder, under another lock; clash names a file that is there; twin names
\* the output of low and merges other files.
OfRun(low, high, next, full, clash, twin) ==
  [r \in Runs |-> CASE r = "low" -> low [] r = "high" -> high [] r = "next" -> next
                    [] r = "full" -> full [] r = "clash" -> clash [] r = "twin" -> twin]

MCFrom == OfRun("s1", "s2", "a",  "s0", "s2",    "s3")
MCTo   == OfRun("s2", "s3", "s3", "s3", "s3",    "s4")
MCOut  == OfRun("a",  "b",  "b",  "c",  "other", "a")
MCAlways == [r \in Runs |-> TRUE]
=============================================================================
