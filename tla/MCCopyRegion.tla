--------------------------- MODULE MCCopyRegion ---------------------------
(***************************************************************************)
(* Instances of CopyRegion: two source files whose bytes all differ, and   *)
(* every plan of up to three actions over blocks that repeat, overlap,     *)
(* adjoin, run past the end of a file or name a file nobody opened.        *)
(***************************************************************************)
EXTENDS CopyRegion

MCSize == [n \in {1, 2} |-> 4]
MCSource == [n \in {1, 2} |-> [b \in 0 .. 3 |-> 10 * n + b]]
MCBytes == 0 .. 30

MCBlocks == {[num |-> 1, pos |-> 0, len |-> 2], [num |-> 1, pos |-> 0, len |-> 3],
             [num |-> 1, pos |-> 1, len |-> 2], [num |-> 2, pos |-> 0, len |-> 2],
             [num |-> 2, pos |-> 3, len |-> 2], [num |-> 3, pos |-> 0, len |-> 1]}
MCActions == [kind : {"copy", "keep"}, block : MCBlocks]
             \cup [kind : {"hole"}, block : {[num |-> 1, pos |-> 0, len |-> 2]}]

MCPlans == UNION {[1 .. n -> MCActions] : n \in 0 .. 3}
=============================================================================
