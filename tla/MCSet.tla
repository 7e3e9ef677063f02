------------------------------- MODULE MCSet -------------------------------
(***************************************************************************)
(* A set with what its owner and a scan see of it: view takes no part in   *)
(* what the files do, so the properties of Consolidate are checked beside  *)
(* the refinement.                                                         *)
(***************************************************************************)
EXTENDS OwnerView, ScanReport
=============================================================================
