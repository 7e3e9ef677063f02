----------------------------- MODULE CopyRegion -----------------------------
(***************************************************************************)
(* Writing the data region of an output (write_data_region and             *)
(* copy_actions of src/write.rs): the actions of a plan are taken in order, *)
(* a block to copy is read from its source and appended once, and an index *)
(* entry is made for every action.  The arrays of a plan are taken as one  *)
(* sequence, because the offset and the map of copied blocks run through   *)
(* all of them.  A file is a map from offsets to bytes.                    *)
(***************************************************************************)
EXTENDS Integers, Sequences

CONSTANTS
  Numbers,    \* the file numbers a handle is open for
  Bytes,      \* what a byte may be
  Plans,      \* the sequences of actions to check
  Size,       \* [Numbers -> Nat], the length of each file
  Source,     \* number -> its bytes, by offset
  OutNumber,  \* the number the output claims
  Alignment,  \* DATA_ALIGNMENT
  MaxOffset   \* the largest offset an entry can record, 2^63 - 1

VARIABLES
  actions,  \* the plan
  at,       \* the next offset of the output
  seen,     \* block of a source file -> its offset in the output
  out,      \* the bytes written
  entries,  \* the index entries made, one per action taken
  status    \* "copying", "failed", or "done" once the region is padded

vars == <<actions, at, seen, out, entries, status>>

Kinds == {"hole", "keep", "copy"}
Block == [num : Int, pos : Int, len : Nat \ {0}]
Action == [kind : Kinds, block : Block]

ASSUME CopyAssumption ==
  /\ \A p \in Plans : p \in Seq(Action)
  /\ Size \in [Numbers -> Nat]
  /\ \A n \in Numbers : Source[n] \in [0 .. Size[n] - 1 -> Bytes]
  /\ OutNumber \in Nat
  /\ Alignment \in Nat \ {0}
  /\ MaxOffset \in Nat

\* An all-zero entry, which a restore skips.
HoleEntry == [num |-> 0, pos |-> 0, len |-> 0]

\* The next multiple of the alignment.  (Mutant: the last one.)
AlignDown(offset) == (offset \div Alignment) * Alignment
AlignUp(offset) == ((offset + Alignment - 1) \div Alignment) * Alignment

Init ==
  /\ actions \in Plans
  /\ at = 0
  /\ seen = <<>>
  /\ out = [b \in 0 .. -1 |-> 0]
  /\ entries = <<>>
  /\ status = "copying"

\* The action to take next.
Current == actions[Len(entries) + 1]
More == status = "copying" /\ Len(entries) < Len(actions)

MakeEntry(e) == entries' = Append(entries, e)

\* Where the output goes on after a block.  (Mutant: where it was.)
Stay(block) == at
After(block) == at + block.len

\* A hole takes no room.  (Mutant: its length in zeros.)
WriteHole ==
  /\ More /\ Current.kind = "hole"
  /\ MakeEntry(HoleEntry)
  /\ out' = [b \in 0 .. After(Current.block) - 1 |-> IF b < at THEN out[b] ELSE 0]
  /\ at' = After(Current.block)
  /\ UNCHANGED <<actions, seen, status>>

TakeHole ==
  /\ More /\ Current.kind = "hole"
  /\ MakeEntry(HoleEntry)
  /\ UNCHANGED <<actions, at, seen, out, status>>

\* The file that holds the block stays, so the entry does.
TakeKeep ==
  /\ More /\ Current.kind = "keep"
  /\ MakeEntry(Current.block)
  /\ UNCHANGED <<actions, at, seen, out, status>>

\* What a copied block is remembered by.  (Mutant: without its length.)
Start(block) == [block EXCEPT !.len = 1]
Key(block) == block

\* The blocks remembered once this one is copied.  (Mutant: it is not put into the map.)
Forgotten(block) == DOMAIN seen
Remembered(block) == DOMAIN seen \cup {Key(block)}

EntryFor(block, position) == [num |-> OutNumber, pos |-> position, len |-> block.len]

\* The block was copied before, for another position or another partition.
CopyAgain ==
  /\ More /\ Current.kind = "copy" /\ Key(Current.block) \in DOMAIN seen
  /\ MakeEntry(EntryFor(Current.block, seen[Key(Current.block)]))
  /\ UNCHANGED <<actions, at, seen, out, status>>

\* read_block: a handle for the number, and every byte within the file.
CanRead(block) ==
  /\ block.num \in Numbers
  /\ block.pos >= 0
  /\ \A j \in 0 .. block.len - 1 : block.pos + j < Size[block.num]

CopyFirst ==
  /\ More /\ Current.kind = "copy" /\ Key(Current.block) \notin DOMAIN seen
  /\ CanRead(Current.block) /\ at <= MaxOffset
  /\ LET block == Current.block
     IN  /\ out' = [b \in 0 .. at + block.len - 1 |->
                      IF b < at THEN out[b] ELSE Source[block.num][block.pos + (b - at)]]
         /\ seen' = [k \in Remembered(block) |-> IF k = Key(block) THEN at ELSE seen[k]]
         /\ at' = After(block)
         /\ MakeEntry(EntryFor(block, at))
  /\ UNCHANGED <<actions, status>>

\* A read or a write that fails, or an offset no entry can hold, ends the run.
Fail ==
  /\ More /\ Current.kind = "copy" /\ Key(Current.block) \notin DOMAIN seen
  /\ status' = "failed"
  /\ UNCHANGED <<actions, at, seen, out, entries>>

\* Zeros up to where the metadata region starts.
Pad ==
  /\ status = "copying" /\ Len(entries) = Len(actions)
  /\ out' = [b \in 0 .. AlignUp(at) - 1 |-> IF b < at THEN out[b] ELSE 0]
  /\ status' = "done"
  /\ UNCHANGED <<actions, at, seen, entries>>

Next == TakeHole \/ TakeKeep \/ CopyAgain \/ CopyFirst \/ Fail \/ Pad

Spec == Init /\ [][Next]_vars

-----------------------------------------------------------------------------
(* Properties.                                                             *)

\* Where the region ends, once padded: _header.index_file_position.
DataEnd == IF status = "done" THEN AlignUp(at) ELSE at

\* Every variable stays in its set.
TypeOK ==
  /\ actions \in Plans
  /\ at \in Nat
  /\ \A k \in DOMAIN seen : k \in Block /\ seen[k] \in Nat
  /\ DOMAIN out = 0 .. DataEnd - 1
  /\ entries \in Seq([num : Int, pos : Int, len : Nat])
  /\ Len(entries) <= Len(actions)
  /\ status \in {"copying", "failed", "done"}

\* The entry made for a copied block finds in the output the bytes the block had in its
\* source, wherever in the plan the block was first met (write.rs, copy_actions).
ReadsBack ==
  \A i \in DOMAIN entries : actions[i].kind = "copy" =>
    LET e == entries[i]
        b == actions[i].block
    IN  /\ e.num = OutNumber /\ e.len = b.len
        /\ \A j \in 0 .. b.len - 1 :
             /\ e.pos + j \in DOMAIN out
             /\ out[e.pos + j] = Source[b.num][b.pos + j]

\* No entry of the output refers to a place in the metadata, which starts where the data
\* ends (write.rs, check_output), and none shares bytes with another unless the two blocks
\* are one block of the source.
EntriesApart ==
  \A i, k \in DOMAIN entries :
    /\ actions[i].kind = "copy" => entries[i].pos + entries[i].len <= DataEnd
    /\ actions[i].kind = "copy" /\ actions[k].kind = "copy"
         /\ actions[i].block # actions[k].block
       => \/ entries[i].pos + entries[i].len <= entries[k].pos
          \/ entries[k].pos + entries[k].len <= entries[i].pos

\* Nothing is written in vain: every byte of the region belongs to a block the plan copies,
\* so holes, kept blocks and the seams between blocks take no room, and a block that several
\* positions or partitions share has one copy, to which all their entries lead (write.rs,
\* the map of copied blocks).
OneCopyEach ==
  /\ \A x \in 0 .. at - 1 : \E i \in DOMAIN entries :
       /\ actions[i].kind = "copy"
       /\ x \in entries[i].pos .. entries[i].pos + entries[i].len - 1
  /\ \A i, k \in DOMAIN entries :
       /\ actions[i].kind = "copy" /\ actions[k].kind = "copy"
       /\ actions[i].block = actions[k].block
       => entries[i] = entries[k]

\* The plan's bytes_to_copy, over the first n actions.
BytesToCopy[n \in 0 .. Len(actions)] ==
  IF n = 0 THEN 0
  ELSE BytesToCopy[n - 1] + IF actions[n].kind = "copy" THEN actions[n].block.len ELSE 0

\* The data region is never larger than the plan projected, for which space was reserved
\* (plan.rs, projected_size).
WithinProjection == status = "done" => AlignUp(at) <= AlignUp(BytesToCopy[Len(actions)])
=============================================================================
