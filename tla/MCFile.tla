------------------------------- MODULE MCFile -------------------------------
(***************************************************************************)
(* An instance of BackupFile.                                              *)
(***************************************************************************)
EXTENDS BackupFile

\* No disk, a disk without partitions, one or two partitions, and two disks of which one has
\* a partition.
MCShapes == {<<>>, <<0>>, <<1>>, <<1, 0>>, <<2>>}
=============================================================================
