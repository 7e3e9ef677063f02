----------------------------- MODULE BackupFile -----------------------------
(***************************************************************************)
(* What a file is read for: its metadata (Framing), the payload of one of  *)
(* its indexes (IndexBytes) and its blocks (Verify).  The three share no   *)
(* state, so a behaviour is one of the three, chosen at the start; the     *)
(* other two stay at an end they can come to.                              *)
(***************************************************************************)
EXTENDS Framing

CONSTANTS
  ElementLen, DeltaLen, MaxWord, MaxCount, IndexReserved, IndexBlocks,  \* of IndexBytes
  Positions, Places, BlocksReserved                                     \* of Verify

VARIABLES
  machine,                                        \* "framing", "index" or "verify"
  step, index, raw, found,                        \* of IndexBytes
  stage, chain, storage, out, password, walked, report  \* of Verify

indexVars == <<step, index, raw, found>>
verifyVars == <<stage, chain, storage, out, password, walked, report>>

I == INSTANCE IndexBytes WITH pc <- step, MaxReserved <- IndexReserved, MaxBlocks <- IndexBlocks
V == INSTANCE Verify WITH pc <- stage, MaxReserved <- BlocksReserved

ASSUME PartsAssumption == I!LenAssumption /\ V!PositionsAssumption

\* Refused before a byte was read.
FramingIdle ==
  /\ phase = "to" /\ pc = "refused" /\ size = 0 /\ root = 0 /\ known = <<>> /\ doc = NoDoc
  /\ which = Root /\ at = 0 /\ list = <<>> /\ lists = <<>> /\ to = NoDoc /\ projected = 0
IndexIdle ==
  /\ step = "refused" /\ raw = <<>>
  /\ index = [reserved |-> <<>>, blocks |-> <<>>, delta |-> FALSE] /\ found = index
VerifyIdle ==
  /\ stage = "failed" /\ password = "none" /\ out = <<>> /\ walked = 0 /\ report = <<>>
  /\ chain = <<>> /\ storage = <<>>

FileInit ==
  \/ machine = "framing" /\ Init /\ IndexIdle /\ VerifyIdle
  \/ machine = "index" /\ I!Init /\ FramingIdle /\ VerifyIdle
  \/ machine = "verify" /\ V!Init /\ FramingIdle /\ IndexIdle

FileNext ==
  /\ UNCHANGED machine
  /\ \/ machine = "framing" /\ Next /\ UNCHANGED <<indexVars, verifyVars>>
     \/ machine = "index" /\ I!Next /\ UNCHANGED <<vars, verifyVars>>
     \/ machine = "verify" /\ V!Next /\ UNCHANGED <<vars, indexVars>>

FileSpec == FileInit /\ [][FileNext]_<<vars, machine, indexVars, verifyVars>>

-----------------------------------------------------------------------------
(* Properties.                                                             *)

\* Every variable of the three stays in its set.
TypesOK == TypeOK /\ I!TypeOK /\ (machine = "verify" => V!TypeOK)

\* An index that nothing happened to is parsed as it was (IndexBytes).
RoundTrip == I!RoundTrip
\* A payload read at the wrong stride is refused (IndexBytes).
WrongStrideRefused == I!WrongStrideRefused
\* Serializing what was parsed gives the payload back (IndexBytes).
NothingUnread == I!NothingUnread

\* An output that passes gives back what the set held before the merge (Verify).
PassMeansIntact == machine = "verify" => V!PassMeansIntact
\* An output that nothing damaged passes (Verify).
NoFalseAlarm == machine = "verify" => V!NoFalseAlarm
=============================================================================
