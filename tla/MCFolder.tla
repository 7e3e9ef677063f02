------------------------------ MODULE MCFolder ------------------------------
(***************************************************************************)
(* An instance of SetFolder.                                               *)
(***************************************************************************)
EXTENDS SetFolder

\* A root, three folders in any tree below it, one with the name of a snapshot folder, and a
\* link back to the root.
MCLinks == [n \in {"link"} |-> "root"]
MCTrees ==
  {t \in [{"a", "b", "snap", "link"} -> {"root", "a", "b", "snap"}] :
     /\ t["a"] \in {"root", "snap"}
     /\ t["b"] \in {"root", "a", "snap"}
     /\ t["snap"] \in {"root"} \cup (IF t["a"] = "root" THEN {"a"} ELSE {})}

\* How the kernel writes a name with a space in it.
MCEscape == [n \in {"my share"} |-> "my_040share"]
=============================================================================
