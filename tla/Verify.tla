------------------------------- MODULE Verify -------------------------------
(***************************************************************************)
(* --verify-md5 (src/verify.rs): every block that the output of a merge    *)
(* holds is decrypted, decompressed and hashed.  A merge copies stored     *)
(* bytes, and the initialization vector of a block is made of the numbers  *)
(* its file records for its disk and partition and of its position.        *)
(*                                                                         *)
(* The files 1 and 2 of one partition are merged: file 1 has a full index, *)
(* which names file 0 where it captured nothing itself, or a delta index.  *)
(* File 2 has a delta index and the whole array of reserved sectors.  A    *)
(* plaintext stands for its own hash.                                      *)
(***************************************************************************)
EXTENDS Integers, Sequences, FiniteSets

CONSTANTS
  Positions,  \* the logical blocks, from 0
  Places,     \* the pairs of a disk number and a partition number
  MaxReserved \* how many reserved blocks at most

VARIABLES
  pc,       \* "merge", "written", "verify", "passed" or "failed"
  chain,    \* [full, captured, reserved, place]: the set before the merge
  storage,  \* [compressed, encrypted], the same for the whole set
  out,      \* the output: [place, delta, reserved, blocks, payload]
  password, \* "right", "wrong" or "none": what MRIMGX_PASSWORD holds
  walked,   \* how many entries of the output were tested
  report    \* [blocks, elsewhere]

vars == <<pc, chain, storage, out, password, walked, report>>

\* What the constants must be.
PositionsAssumption ==
  /\ IsFiniteSet(Positions) /\ Positions = 0 .. Cardinality(Positions) - 1
  /\ MaxReserved \in Nat

Noise == <<"noise">>
Own == 1
Hole == [file |-> 0, at |-> <<>>, length |-> 0, hash |-> Noise]
IsHole(entry) == entry.length = 0

\* What the file holds at a position of one of its arrays, as it was before it was stored.
Plain(file, array, i) == <<file, array, i>>

\* block_iv: the image and the key are the same for the whole set.
BlockIv(place, index) == <<place, index>>

\* What Reflect stores.  What compression does to it, decompression undoes.
StoredBlock(plain, place, index) ==
  [plain |-> plain,
   iv    |-> IF storage.encrypted THEN BlockIv(place, index) ELSE <<>>]

-----------------------------------------------------------------------------
(* The merge.                                                              *)

\* The file that a restore of the set reads a position from.  A position of no file is a hole.
Holders(p) == {f \in 0 .. 2 : p \in chain.captured[f]}
Holder(p) == CHOOSE f \in Holders(p) : \A g \in Holders(p) : g <= f

InIndex ==
  IF chain.full THEN Positions ELSE chain.captured[1] \cup chain.captured[2]

\* The reserved blocks and the positions whose blocks the merge copies.
Reserved == 0 .. chain.reserved - 1
Copied == {p \in InIndex : Holders(p) \ {0} # {}}

\* Where a block is in the output: the array and the position it is for.
Payload ==
  [k \in ({"reserved"} \X Reserved) \cup ({"data"} \X Copied) |->
     IF k[1] = "reserved" THEN StoredBlock(Plain(2, "reserved", k[2]), chain.place[2], k[2])
     ELSE StoredBlock(Plain(Holder(k[2]), "data", k[2]), chain.place[Holder(k[2])], k[2])]

OutEntry(p) ==
  IF Holders(p) = {} THEN Hole
  ELSE IF Holder(p) = 0 THEN [file |-> 0, at |-> <<>>, length |-> 1, hash |-> Plain(0, "data", p)]
  ELSE [file |-> Own, at |-> <<"data", p>>, length |-> 1, hash |-> Plain(Holder(p), "data", p)]

\* The positions of the index: all of them, or those that changed, in order.
InOrder(S) ==
  CHOOSE s \in [1 .. Cardinality(S) -> S] : \A i, j \in DOMAIN s : i < j => s[i] < s[j]
PositionsOf ==
  IF chain.full THEN [i \in 1 .. Cardinality(Positions) |-> i - 1] ELSE InOrder(InIndex)

Output ==
  [place    |-> chain.place[2],
   delta    |-> ~chain.full,
   reserved |-> [i \in 1 .. chain.reserved |->
                   [file |-> Own, at |-> <<"reserved", i - 1>>, length |-> 1,
                    hash |-> Plain(2, "reserved", i - 1)]],
   blocks   |-> [i \in DOMAIN PositionsOf |->
                   [element |-> OutEntry(PositionsOf[i]), block_index |-> PositionsOf[i]]],
   payload  |-> Payload]

Init ==
  /\ pc = "merge"
  /\ chain \in [full : BOOLEAN, captured : [0 .. 2 -> SUBSET Positions],
                reserved : 0 .. MaxReserved, place : [1 .. 2 -> Places]]
  /\ storage \in [compressed : BOOLEAN, encrypted : BOOLEAN]
  /\ password \in {"right", "wrong", "none"}
  /\ out = [place |-> chain.place[2], delta |-> FALSE, reserved |-> <<>>, blocks |-> <<>>,
            payload |-> <<>>]
  /\ walked = 0
  /\ report = [blocks |-> 0, elsewhere |-> 0]

Merge ==
  /\ pc = "merge"
  /\ out' = Output
  /\ pc' = "written"
  /\ UNCHANGED <<chain, storage, password, walked, report>>

\* The disk or the network damages a copied block.
Damage ==
  /\ pc = "written"
  /\ \E k \in DOMAIN out.payload : out' = [out EXCEPT !.payload[k].plain = Noise]
  /\ UNCHANGED <<pc, chain, storage, password, walked, report>>

-----------------------------------------------------------------------------
(* verify_file.                                                            *)

\* Storage::of: the password is tested before a block is read.
MayDecrypt == storage.encrypted => password = "right"

\* decrypt_block: another vector leaves noise.
Decrypted(stored, iv) ==
  IF storage.encrypted /\ stored.iv # iv THEN [stored EXCEPT !.plain = Noise] ELSE stored

\* Storage::plaintext.
Plaintext(stored, place, index) == Decrypted(stored, BlockIv(place, index)).plain

\* The entries in the order of the walk.  Each array counts from zero, and a delta entry has
\* its own index.  (Mutant: the place in the list.)
ListIndex(i) == i - 1
VectorIndex(i) == IF out.delta THEN out.blocks[i].block_index ELSE i - 1
Entries ==
  [i \in DOMAIN out.reserved |-> [entry |-> out.reserved[i], index |-> i - 1]]
  \o [i \in DOMAIN out.blocks |->
        [entry |-> out.blocks[i].element, index |-> VectorIndex(i)]]

\* The hash is compared whether or not the set is compressed.  (Mutant: only then, as the
\* reference restore does.)
IfCompressed(plain, hash) == storage.compressed => plain = hash
HashMatches(plain, hash) == plain = hash

Start ==
  /\ pc = "written"
  /\ pc' = IF MayDecrypt THEN "verify" ELSE "failed"
  /\ UNCHANGED <<chain, storage, out, password, walked, report>>

\* The entry that is tested now.
Here == Entries[walked + 1]
AtEntry == pc = "verify" /\ walked < Len(Entries)

Skip ==
  /\ AtEntry /\ IsHole(Here.entry)
  /\ walked' = walked + 1
  /\ UNCHANGED <<pc, chain, storage, out, password, report>>

CountElsewhere ==
  /\ AtEntry /\ ~IsHole(Here.entry) /\ Here.entry.file # Own
  /\ report' = [report EXCEPT !.elsewhere = @ + 1]
  /\ walked' = walked + 1
  /\ UNCHANGED <<pc, chain, storage, out, password>>

PlainOf(e) == Plaintext(out.payload[e.entry.at], out.place, e.index)

TestBlock ==
  /\ AtEntry /\ ~IsHole(Here.entry) /\ Here.entry.file = Own
  /\ \/ /\ HashMatches(PlainOf(Here), Here.entry.hash)
        /\ report' = [report EXCEPT !.blocks = @ + 1]
        /\ walked' = walked + 1
        /\ UNCHANGED pc
     \/ /\ ~HashMatches(PlainOf(Here), Here.entry.hash)
        /\ pc' = "failed"
        /\ UNCHANGED <<walked, report>>
  /\ UNCHANGED <<chain, storage, out, password>>

\* A file that held nothing to test is an error.
Finish ==
  /\ pc = "verify" /\ walked = Len(Entries)
  /\ pc' = IF report.blocks = 0 THEN "failed" ELSE "passed"
  /\ UNCHANGED <<chain, storage, out, password, walked, report>>

Next == Merge \/ Damage \/ Start \/ Skip \/ CountElsewhere \/ TestBlock \/ Finish

Spec == Init /\ [][Next]_vars

-----------------------------------------------------------------------------
(* Properties.                                                             *)

Captured == {i \in 1 .. walked : ~IsHole(Entries[i].entry)}

\* What was counted is what the index names, each entry once.
TypeOK ==
  /\ pc \in {"merge", "written", "verify", "passed", "failed"}
  /\ walked \in 0 .. Len(Entries)
  /\ report.blocks \in Nat /\ report.elsewhere \in Nat
  /\ report.blocks + report.elsewhere = Cardinality(Captured)
  /\ pc = "passed" => walked = Len(Entries)

\* A merged file that passes gives back, at every position it holds, what the set held there
\* before the merge (verify_file: "it takes the output, undoes everything the format did to
\* each block, and compares the result").
PassMeansIntact ==
  pc = "passed" =>
    /\ \A p \in Positions : Holders(p) \ {0} # {} =>
         \E i \in DOMAIN out.blocks :
           /\ out.blocks[i].block_index = p /\ out.blocks[i].element.file = Own
           /\ Plaintext(out.payload[out.blocks[i].element.at], out.place, p)
                = Plain(Holder(p), "data", p)
    /\ \A i \in Reserved :
         Plaintext(out.payload[out.reserved[i + 1].at], out.place, i) = Plain(2, "reserved", i)

\* An output that nothing damaged passes, with the right password, when it holds a block and
\* the merged files number their disk and partition alike (verify_file).
NoFalseAlarm ==
  /\ MayDecrypt
  /\ out = Output /\ DOMAIN out.payload # {}
  /\ storage.encrypted => chain.place[1] = chain.place[2]
  => pc # "failed"
=============================================================================
