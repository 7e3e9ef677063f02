----------------------------- MODULE IndexBytes -----------------------------
(***************************************************************************)
(* The payload of a $INDEX block (src/index.rs): an index is serialized,   *)
(* the payload may be changed on the disk, and is parsed with the          *)
(* delta_index the document gives, right or wrong.  A count is one word,   *)
(* an element ElementLen words and a delta element DeltaLen, so what is    *)
(* read at the wrong stride is still words.                                *)
(***************************************************************************)
EXTENDS Integers, SequencesExt

CONSTANTS
  ElementLen, DeltaLen,  \* ELEMENT_LEN and DELTA_LEN, in words
  MaxWord, MaxCount,     \* a word is in 0 .. MaxWord; as a count, one over MaxCount is negative
  MaxReserved, MaxBlocks \* how long the arrays get

VARIABLES
  pc,     \* "serialize", "stored", "parsed" or "refused"
  index,  \* what is serialized: [reserved, blocks, delta]
  raw,    \* the payload
  found   \* what was parsed, with the delta_index that was passed

vars == <<pc, index, raw, found>>

\* What the constants must be.
LenAssumption ==
  /\ ElementLen \in Nat \ {0} /\ DeltaLen \in Nat /\ ElementLen < DeltaLen
  /\ MaxReserved \in 0 .. MaxCount /\ MaxBlocks \in 0 .. MaxCount
  /\ MaxWord \in Nat /\ MaxCount \in 0 .. MaxWord

Words == 0 .. MaxWord

Elements(n) == [1 .. n -> Words]

\* The length of an element of the second array.
Stride(delta) == IF delta THEN DeltaLen ELSE ElementLen

Indexes ==
  UNION {[reserved : BoundedSeq(Elements(ElementLen), MaxReserved),
          blocks   : BoundedSeq(Elements(IF d THEN DeltaLen ELSE ElementLen), MaxBlocks),
          delta    : {d}] : d \in BOOLEAN}

\* write_count: a count stops at the largest there is.
WriteCount(n) == IF n > MaxCount THEN MaxCount ELSE n

\* PartitionIndex::to_bytes.
ToBytes(i) ==
  <<WriteCount(Len(i.reserved))>> \o FlattenSeq(i.reserved)
    \o <<WriteCount(Len(i.blocks))>> \o FlattenSeq(i.blocks)

\* read_count: no array for a count at or below zero.
IsNegative(word) == word > MaxCount
ReadCount(bytes, at) == IF IsNegative(bytes[at + 1]) THEN 0 ELSE bytes[at + 1]

\* parse_array.
ArrayOf(bytes, at, count, stride) ==
  [i \in 1 .. count |-> SubSeq(bytes, at + (i - 1) * stride + 1, at + i * stride)]

HasCount(bytes, at) == Len(bytes) >= at + 1
HasArray(bytes, at, count, stride) == Len(bytes) >= at + count * stride

\* Where the second count is, and where its array is.
BlockCountAt(bytes) == 1 + ReadCount(bytes, 0) * ElementLen
\* (Mutant: the reader does not move past the count.)
OnTheCount(bytes) == BlockCountAt(bytes)
BlocksAt(bytes) == BlockCountAt(bytes) + 1
EndsAt(bytes, delta) == BlocksAt(bytes) + ReadCount(bytes, BlockCountAt(bytes)) * Stride(delta)

\* The whole payload is consumed.  (Mutants: or there is a tail; or there is no block.)
TailIgnored(bytes, delta) == EndsAt(bytes, delta) <= Len(bytes)
NoneToRead(bytes, delta) ==
  ReadCount(bytes, BlockCountAt(bytes)) = 0 \/ EndsAt(bytes, delta) = Len(bytes)
Consumed(bytes, delta) == EndsAt(bytes, delta) = Len(bytes)

\* PartitionIndex::parse.
Parses(bytes, delta) ==
  /\ HasCount(bytes, 0)
  /\ HasArray(bytes, 1, ReadCount(bytes, 0), ElementLen)
  /\ HasCount(bytes, BlockCountAt(bytes))
  /\ HasArray(bytes, BlocksAt(bytes), ReadCount(bytes, BlockCountAt(bytes)), Stride(delta))
  /\ Consumed(bytes, delta)

Parsed(bytes, delta) ==
  [reserved |-> ArrayOf(bytes, 1, ReadCount(bytes, 0), ElementLen),
   blocks   |-> ArrayOf(bytes, BlocksAt(bytes), ReadCount(bytes, BlockCountAt(bytes)),
                        Stride(delta)),
   delta    |-> delta]

Init ==
  /\ pc = "serialize"
  /\ index \in Indexes
  /\ raw = <<>>
  /\ found = index

Serialize ==
  /\ pc = "serialize"
  /\ raw' = ToBytes(index)
  /\ pc' = "stored"
  /\ UNCHANGED <<index, found>>

\* The disk gives back something else: a shorter or longer payload, or another word.
Damage ==
  /\ pc = "stored" /\ raw = ToBytes(index)
  /\ \/ \E n \in 0 .. Len(raw) - 1 : raw' = SubSeq(raw, 1, n)
     \/ \E w \in Words : raw' = Append(raw, w)
     \/ \E i \in DOMAIN raw, w \in Words : raw' = [raw EXCEPT ![i] = w]
  /\ UNCHANGED <<pc, index, found>>

Parse ==
  /\ pc = "stored"
  /\ \E delta \in BOOLEAN :
       \/ Parses(raw, delta) /\ pc' = "parsed" /\ found' = Parsed(raw, delta)
       \/ ~Parses(raw, delta) /\ pc' = "refused" /\ found' = [index EXCEPT !.delta = delta]
  /\ UNCHANGED <<index, raw>>

Next == Serialize \/ Damage \/ Parse

Spec == Init /\ [][Next]_vars

-----------------------------------------------------------------------------
(* Properties.                                                             *)

\* What is parsed is an index, within its payload.
TypeOK ==
  /\ pc \in {"serialize", "stored", "parsed", "refused"}
  /\ pc = "parsed" =>
       /\ \A i \in DOMAIN found.reserved : found.reserved[i] \in Elements(ElementLen)
       /\ \A i \in DOMAIN found.blocks :
            found.blocks[i] \in Elements(IF found.delta THEN DeltaLen ELSE ElementLen)

\* An index that nothing happened to is parsed as it was (index.rs, parse and to_bytes).
RoundTrip ==
  raw = ToBytes(index) /\ found.delta = index.delta /\ pc \in {"parsed", "refused"} =>
    pc = "parsed" /\ found = index

\* With the wrong delta_index it is refused, unless it holds no block ("the arrays were read
\* at the wrong stride", parse).
WrongStrideRefused ==
  raw = ToBytes(index) /\ found.delta # index.delta /\ index.blocks # <<>> => pc # "parsed"

\* Whatever payload is accepted, serializing what was found gives it back word for word, but
\* for a count below zero, which becomes zero: nothing in it went unread (parse).
NothingUnread ==
  pc = "parsed" =>
    LET again == ToBytes(found)
    IN  /\ Len(again) = Len(raw)
        /\ \A i \in DOMAIN raw : again[i] = raw[i] \/ (IsNegative(raw[i]) /\ again[i] = 0)
=============================================================================
