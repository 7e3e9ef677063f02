-------------------------- MODULE CopyRegionProofs --------------------------
(***************************************************************************)
(* Theorems about CopyRegion, for any plans, files, sizes and alignment.   *)
(***************************************************************************)
EXTENDS CopyRegion, DataLemmas

USE DEF Key, After, Remembered

IndexEntry == [num : Int, pos : Int, len : Nat]

\* Rounding up does not go back.
LEMMA AlignUpGrows == \A offset \in Nat : AlignUp(offset) \in Nat /\ AlignUp(offset) >= offset
  <1> SUFFICES ASSUME NEW offset \in Nat
      PROVE  AlignUp(offset) \in Nat /\ AlignUp(offset) >= offset
    OBVIOUS
  <1> DEFINE x == offset + Alignment - 1
             q == x \div Alignment
  <1>1. Alignment \in Nat /\ Alignment > 0 /\ x \in Nat
    BY CopyAssumption
  <1>2. q \in Nat
    BY <1>1
  <1>3. x = q * Alignment + (x % Alignment) /\ x % Alignment \in 0 .. Alignment - 1
    BY <1>1
  <1>4. q * Alignment \in Nat
    BY <1>1, <1>2
  <1> QED BY <1>1, <1>2, <1>3, <1>4 DEF AlignUp

LEMMA DataEndGrows == at \in Nat => DataEnd \in Nat /\ DataEnd >= at
  BY AlignUpGrows DEF DataEnd

\* The entries after one more was made.
LEMMA OneMore ==
  ASSUME NEW e \in IndexEntry, entries \in Seq(IndexEntry), MakeEntry(e)
  PROVE  /\ entries' \in Seq(IndexEntry)
         /\ Len(entries') = Len(entries) + 1
         /\ \A i \in DOMAIN entries' : \/ i \in DOMAIN entries /\ entries'[i] = entries[i]
                                       \/ i = Len(entries) + 1 /\ entries'[i] = e
  <1>1. entries' = Append(entries, e)
    BY DEF MakeEntry
  <1>2. entries' \in Seq(IndexEntry) /\ Len(entries') = Len(entries) + 1 /\ Len(entries) \in Nat
    BY <1>1
  <1>3. DOMAIN entries = 1 .. Len(entries) /\ DOMAIN entries' = 1 .. Len(entries) + 1
    BY <1>2
  <1>4. \A i \in 1 .. Len(entries) : entries'[i] = entries[i]
    BY <1>1
  <1>5. entries'[Len(entries) + 1] = e
    BY <1>1
  <1> QED BY <1>2, <1>3, <1>4, <1>5

-----------------------------------------------------------------------------
(* The invariant.                                                          *)

\* The blocks copied so far lie before the offset, with the bytes of their source.
SeenTrue ==
  \A k \in DOMAIN seen :
    /\ k \in Block /\ CanRead(k)
    /\ seen[k] \in Nat /\ seen[k] + k.len <= at
    /\ \A j \in 0 .. k.len - 1 : out[seen[k] + j] = Source[k.num][k.pos + j]

\* No two of them share a byte.
SeenApart ==
  \A k, l \in DOMAIN seen : k # l => \/ seen[k] + k.len <= seen[l]
                                     \/ seen[l] + l.len <= seen[k]

\* The entry of each copy refers to them.
Placed ==
  \A i \in DOMAIN entries : actions[i].kind = "copy" =>
    /\ actions[i].block \in DOMAIN seen
    /\ entries[i] = EntryFor(actions[i].block, seen[actions[i].block])

\* Each of them has an entry, and they leave no byte between them.
SeenUsed == \A k \in DOMAIN seen : \E i \in DOMAIN entries :
              actions[i].kind = "copy" /\ actions[i].block = k
NoGap == \A x \in 0 .. at - 1 : \E k \in DOMAIN seen : x \in seen[k] .. seen[k] + k.len - 1

Inv == TypeOK /\ SeenTrue /\ SeenApart /\ Placed /\ SeenUsed /\ NoGap

LEMMA InitInv == Init => Inv
  <1> SUFFICES ASSUME Init PROVE Inv OBVIOUS
  <1>1. DOMAIN seen = {} /\ DOMAIN entries = {} /\ entries \in Seq(IndexEntry) /\ Len(entries) = 0
    BY DEF Init
  <1>2. actions \in Seq(Action)
    BY CopyAssumption DEF Init
  <1>3. TypeOK
    BY <1>1, <1>2 DEF Init, TypeOK, DataEnd, IndexEntry
  <1>4. NoGap
    BY DEF Init, NoGap
  <1> QED BY <1>1, <1>3, <1>4 DEF Inv, SeenTrue, SeenApart, Placed, SeenUsed

LEMMA NextInv == Inv /\ [Next]_vars => Inv'
  <1> SUFFICES ASSUME Inv, [Next]_vars PROVE Inv' OBVIOUS
  <1>a. /\ actions \in Plans /\ actions \in Seq(Action) /\ at \in Nat
        /\ entries \in Seq(IndexEntry) /\ Len(entries) \in Nat /\ Len(actions) \in Nat
        /\ Len(entries) <= Len(actions) /\ OutNumber \in Nat
        /\ DOMAIN out = 0 .. DataEnd - 1 /\ status \in {"copying", "failed", "done"}
    BY CopyAssumption DEF Inv, TypeOK, IndexEntry
  <1>b. More => Current \in Action /\ Current = actions[Len(entries) + 1]
    BY <1>a DEF More, Current
  \* A step that makes an entry from the map as it is.
  <1>c. ASSUME NEW e \in IndexEntry, MakeEntry(e), More,
               UNCHANGED <<actions, at, seen, out, status>>,
               Current.kind = "copy" => /\ Current.block \in DOMAIN seen
                                        /\ e = EntryFor(Current.block, seen[Current.block])
        PROVE  Inv'
    <2>1. /\ entries' \in Seq(IndexEntry) /\ Len(entries') = Len(entries) + 1
          /\ \A i \in DOMAIN entries' : \/ i \in DOMAIN entries /\ entries'[i] = entries[i]
                                        \/ i = Len(entries) + 1 /\ entries'[i] = e
      BY <1>a, <1>c, OneMore
    <2>2. TypeOK'
      BY <1>a, <1>c, <2>1 DEF Inv, TypeOK, More, DataEnd, IndexEntry
    <2>3. SeenTrue' /\ SeenApart'
      BY <1>c DEF Inv, SeenTrue, SeenApart, CanRead
    <2>4. Placed'
      BY <1>b, <1>c, <2>1 DEF Inv, Placed, EntryFor
    <2>5. SeenUsed' /\ NoGap'
      <3>1. \A i \in DOMAIN entries : i \in DOMAIN entries'
        BY <1>a, <2>1
      <3> QED BY <1>c, <3>1 DEF Inv, SeenUsed, NoGap
    <2> QED BY <2>2, <2>3, <2>4, <2>5 DEF Inv
  <1>1. CASE TakeHole
    <2>1. HoleEntry \in IndexEntry
      BY DEF HoleEntry, IndexEntry
    <2> QED BY <1>1, <1>c, <2>1 DEF TakeHole
  <1>2. CASE TakeKeep
    <2>1. Current.block \in IndexEntry
      BY <1>2, <1>b DEF TakeKeep, Action, Block, IndexEntry
    <2> QED BY <1>2, <1>c, <2>1 DEF TakeKeep
  <1>3. CASE CopyAgain
    <2>1. EntryFor(Current.block, seen[Current.block]) \in IndexEntry
      BY <1>3, <1>a DEF CopyAgain, Inv, SeenTrue, EntryFor, Block, IndexEntry
    <2> QED BY <1>3, <1>c, <2>1 DEF CopyAgain
  <1>4. CASE CopyFirst
    <2> DEFINE b == Current.block
    <2>1. /\ b \in Block /\ b.len \in Nat \ {0} /\ b.pos \in Int /\ b \notin DOMAIN seen
          /\ CanRead(b) /\ More /\ Current.kind = "copy"
          /\ MakeEntry(EntryFor(b, at)) /\ UNCHANGED <<actions, status>>
          /\ at' = at + b.len
          /\ seen' = [k \in DOMAIN seen \cup {b} |-> IF k = b THEN at ELSE seen[k]]
          /\ out' = [x \in 0 .. at + b.len - 1 |->
                       IF x < at THEN out[x] ELSE Source[b.num][b.pos + (x - at)]]
      BY <1>4, <1>b DEF CopyFirst, Action, Block, More
    <2>2. EntryFor(b, at) \in IndexEntry
      BY <2>1, <1>a DEF EntryFor, Block, IndexEntry
    <2>3. /\ entries' \in Seq(IndexEntry) /\ Len(entries') = Len(entries) + 1
          /\ \A i \in DOMAIN entries' : \/ i \in DOMAIN entries /\ entries'[i] = entries[i]
                                        \/ i = Len(entries) + 1 /\ entries'[i] = EntryFor(b, at)
      BY <1>a, <2>1, <2>2, OneMore
    <2> HIDE DEF b
    <2>4. DOMAIN seen' = DOMAIN seen \cup {b} /\ seen'[b] = at
          /\ \A k \in DOMAIN seen : k # b /\ seen'[k] = seen[k]
      BY <2>1
    <2>5. TypeOK'
      <3>1. \A k \in DOMAIN seen' : k \in Block /\ seen'[k] \in Nat
        BY <2>1, <2>4, <1>a DEF Inv, SeenTrue
      <3>2. DOMAIN out' = 0 .. DataEnd' - 1
        <4>1. status' = "copying"
          BY <2>1 DEF More
        <4>2. DataEnd' = at'
          BY <4>1 DEF DataEnd
        <4>3. at \in Nat /\ b.len \in Nat /\ at' = at + b.len
          BY <2>1, <1>a
        <4>4. DOMAIN out' = 0 .. at + b.len - 1
          BY <2>1
        <4> QED BY <4>2, <4>3, <4>4
      <3>3. at' \in Nat /\ Len(entries') <= Len(actions')
        BY <2>1, <2>3, <1>a DEF More
      <3>4. actions' \in Plans /\ status' \in {"copying", "failed", "done"}
        BY <2>1, <1>a
      <3> QED BY <3>1, <3>2, <3>3, <3>4, <2>3 DEF TypeOK, IndexEntry
    <2>6. SeenTrue'
      <3> SUFFICES ASSUME NEW k \in DOMAIN seen'
          PROVE  /\ k \in Block /\ CanRead(k)
                 /\ seen'[k] \in Nat /\ seen'[k] + k.len <= at'
                 /\ \A j \in 0 .. k.len - 1 : out'[seen'[k] + j] = Source[k.num][k.pos + j]
        BY DEF SeenTrue, CanRead
      <3>1. CASE k = b
        <4>1. seen'[k] = at /\ b.len \in Nat /\ b.len > 0
          BY <3>1, <2>1, <2>4
        <4>2. ASSUME NEW j \in 0 .. b.len - 1
              PROVE  out'[at + j] = Source[b.num][b.pos + j]
          <5>1. at + j \in 0 .. at + b.len - 1 /\ ~(at + j < at) /\ (at + j) - at = j
            BY <4>1, <1>a
          <5> QED BY <5>1, <2>1
        <4> QED BY <4>1, <4>2, <3>1, <2>1, <1>a
      <3>2. CASE k # b
        <4>1. /\ k \in DOMAIN seen /\ seen'[k] = seen[k] /\ k \in Block /\ k.len \in Nat
              /\ CanRead(k) /\ seen[k] \in Nat /\ seen[k] + k.len <= at
              /\ \A j \in 0 .. k.len - 1 : out[seen[k] + j] = Source[k.num][k.pos + j]
          BY <3>2, <2>4 DEF Inv, SeenTrue, Block
        <4>2. \A j \in 0 .. k.len - 1 : seen[k] + j \in 0 .. at - 1
          BY <4>1, <1>a
        <4>3. \A x \in 0 .. at - 1 : out'[x] = out[x]
          BY <2>1, <1>a
        <4>4. ASSUME NEW j \in 0 .. k.len - 1
              PROVE  out'[seen'[k] + j] = Source[k.num][k.pos + j]
          BY <4>1, <4>2, <4>3
        <4>5. seen'[k] + k.len <= at'
          BY <4>1, <2>1, <1>a
        <4> QED BY <4>1, <4>4, <4>5
      <3> QED BY <3>1, <3>2
    <2>7. SeenApart'
      <3>1. \A k \in DOMAIN seen : seen'[k] + k.len <= seen'[b]
        BY <2>4 DEF Inv, SeenTrue
      <3> QED BY <3>1, <2>4 DEF Inv, SeenApart
    <2>8. Placed'
      <3>1. actions[Len(entries) + 1].block = b /\ actions' = actions
        BY <2>1, <1>b DEF b
      <3> QED BY <3>1, <2>3, <2>4 DEF Inv, Placed, EntryFor
    <2>9. SeenUsed'
      <3>1. /\ actions[Len(entries) + 1].kind = "copy" /\ actions' = actions
            /\ actions[Len(entries) + 1].block = b
        BY <2>1, <1>b DEF b
      <3>2. Len(entries) + 1 \in DOMAIN entries' /\ \A i \in DOMAIN entries : i \in DOMAIN entries'
        BY <2>3, <1>a
      <3> QED BY <3>1, <3>2, <2>4 DEF Inv, SeenUsed
    <2>10. NoGap'
      <3> SUFFICES ASSUME NEW x \in 0 .. at' - 1
          PROVE  \E k \in DOMAIN seen' : x \in seen'[k] .. seen'[k] + k.len - 1
        BY DEF NoGap
      <3>1. CASE x \in 0 .. at - 1
        <4>1. PICK k \in DOMAIN seen : x \in seen[k] .. seen[k] + k.len - 1
          BY <3>1 DEF Inv, NoGap
        <4> QED BY <4>1, <2>4
      <3>2. CASE x \notin 0 .. at - 1
        <4>1. b.len \in Nat /\ at' = at + b.len
          BY <2>1
        <4>2. x \in at .. at + b.len - 1
          BY <3>2, <4>1, <1>a
        <4> QED BY <4>2, <2>4
      <3> QED BY <3>1, <3>2
    <2> QED BY <2>5, <2>6, <2>7, <2>8, <2>9, <2>10 DEF Inv
  <1>5. CASE Fail
    <2>1. UNCHANGED <<actions, at, seen, out, entries>> /\ status = "copying" /\ status' = "failed"
      BY <1>5 DEF Fail, More
    <2> QED BY <2>1 DEF Inv, TypeOK, DataEnd, SeenTrue, SeenApart, Placed, SeenUsed, NoGap, CanRead
  <1>6. CASE Pad
    <2>1. /\ UNCHANGED <<actions, at, seen, entries>> /\ status = "copying" /\ status' = "done"
          /\ out' = [b \in 0 .. AlignUp(at) - 1 |-> IF b < at THEN out[b] ELSE 0]
      BY <1>6 DEF Pad
    <2>2. AlignUp(at) \in Nat /\ AlignUp(at) >= at
      BY <1>a, AlignUpGrows
    <2>3. TypeOK'
      BY <2>1, <2>2 DEF Inv, TypeOK, DataEnd
    <2>4. \A x \in 0 .. at - 1 : out'[x] = out[x]
      BY <2>1, <2>2, <1>a
    <2>5. SeenTrue'
      <3>1. SeenTrue /\ UNCHANGED <<at, seen>>
        BY <2>1 DEF Inv
      <3>2. ASSUME NEW k \in DOMAIN seen, NEW j \in 0 .. k.len - 1
            PROVE  out'[seen[k] + j] = Source[k.num][k.pos + j]
        <4>1. seen[k] + j \in 0 .. at - 1
          BY <1>a DEF Inv, SeenTrue, Block
        <4> QED BY <4>1, <2>4, <3>1 DEF SeenTrue
      <3> QED BY ONLY <3>1, <3>2 DEF SeenTrue, CanRead
    <2>6. SeenApart' /\ Placed' /\ SeenUsed' /\ NoGap'
      BY <2>1 DEF Inv, SeenApart, Placed, SeenUsed, NoGap
    <2> QED BY <2>3, <2>5, <2>6 DEF Inv
  <1>7. CASE UNCHANGED vars
    BY <1>7 DEF vars, Inv, TypeOK, DataEnd, SeenTrue, SeenApart, Placed, SeenUsed, NoGap, CanRead
  <1> QED BY <1>1, <1>2, <1>3, <1>4, <1>5, <1>6, <1>7 DEF Next

LEMMA Inductive == Spec => []Inv
  BY InitInv, NextInv, PTL DEF Spec

-----------------------------------------------------------------------------
(* What follows.                                                           *)

\* The region and its index keep their shape, whatever the plan.
THEOREM TypeCorrect == Spec => []TypeOK
  <1>1. Inv => TypeOK
    BY DEF Inv
  <1> QED BY <1>1, Inductive, PTL

\* Through the entry of any copied block a restore finds the bytes the block had in its
\* source file: the map of copied blocks never confuses two of them, and the padding
\* touches none.
THEOREM CopiesAreFaithful == Spec => []ReadsBack
  <1>1. Inv => ReadsBack
    <2> SUFFICES ASSUME Inv, NEW i \in DOMAIN entries, actions[i].kind = "copy"
        PROVE  LET e == entries[i]
                   b == actions[i].block
               IN  /\ e.num = OutNumber /\ e.len = b.len
                   /\ \A j \in 0 .. b.len - 1 :
                        /\ e.pos + j \in DOMAIN out
                        /\ out[e.pos + j] = Source[b.num][b.pos + j]
      BY DEF ReadsBack
    <2> DEFINE b == actions[i].block
    <2>1. /\ b \in DOMAIN seen /\ entries[i] = [num |-> OutNumber, pos |-> seen[b], len |-> b.len]
          /\ b \in Block /\ seen[b] \in Nat /\ seen[b] + b.len <= at
          /\ \A j \in 0 .. b.len - 1 : out[seen[b] + j] = Source[b.num][b.pos + j]
      BY DEF Inv, Placed, EntryFor, SeenTrue
    <2>2. at \in Nat /\ DOMAIN out = 0 .. DataEnd - 1 /\ DataEnd \in Nat /\ DataEnd >= at
      BY DataEndGrows DEF Inv, TypeOK
    <2>3. b.len \in Nat
      BY <2>1 DEF Block
    <2> HIDE DEF b
    <2>4. \A j \in 0 .. b.len - 1 : seen[b] + j \in DOMAIN out
      BY <2>1, <2>2, <2>3
    <2> QED BY <2>1, <2>4 DEF b
  <1> QED BY <1>1, Inductive, PTL

\* No entry of the output reaches past its data region, and two share bytes only when they
\* are one block of one source.
THEOREM EntriesStayApart == Spec => []EntriesApart
  <1>1. Inv => EntriesApart
    <2> SUFFICES ASSUME Inv, NEW i \in DOMAIN entries, NEW k \in DOMAIN entries,
                        actions[i].kind = "copy"
        PROVE  /\ entries[i].pos + entries[i].len <= DataEnd
               /\ actions[k].kind = "copy" /\ actions[i].block # actions[k].block
                  => \/ entries[i].pos + entries[i].len <= entries[k].pos
                     \/ entries[k].pos + entries[k].len <= entries[i].pos
      BY DEF EntriesApart
    <2> DEFINE At(x) == seen[actions[x].block]
               Size_(x) == actions[x].block.len
    <2>1. \A x \in DOMAIN entries : actions[x].kind = "copy" =>
            /\ entries[x].pos = At(x) /\ entries[x].len = Size_(x)
            /\ actions[x].block \in DOMAIN seen
            /\ At(x) \in Nat /\ Size_(x) \in Nat /\ At(x) + Size_(x) <= at
      BY DEF Inv, Placed, EntryFor, SeenTrue, Block
    <2>2. at \in Nat /\ DataEnd \in Nat /\ DataEnd >= at
      BY DataEndGrows DEF Inv, TypeOK
    <2>3. actions[k].kind = "copy" /\ actions[i].block # actions[k].block
            => \/ At(i) + Size_(i) <= At(k) \/ At(k) + Size_(k) <= At(i)
      BY <2>1 DEF Inv, SeenApart
    <2> HIDE DEF At, Size_
    <2> QED BY <2>1, <2>2, <2>3
  <1> QED BY <1>1, Inductive, PTL

\* Every byte of the region is a byte of a copied block, and no block is copied twice,
\* whatever the plan repeats, keeps or leaves out between its copies.
THEOREM NothingWrittenInVain == Spec => []OneCopyEach
  <1>1. Inv => OneCopyEach
    <2> SUFFICES ASSUME Inv PROVE OneCopyEach OBVIOUS
    <2>1. \A i \in DOMAIN entries : actions[i].kind = "copy" =>
            /\ entries[i] = EntryFor(actions[i].block, seen[actions[i].block])
            /\ entries[i].pos = seen[actions[i].block] /\ entries[i].len = actions[i].block.len
      BY DEF Inv, Placed, EntryFor
    <2>2. ASSUME NEW x \in 0 .. at - 1
          PROVE  \E i \in DOMAIN entries :
                   /\ actions[i].kind = "copy"
                   /\ x \in entries[i].pos .. entries[i].pos + entries[i].len - 1
      <3>1. PICK k \in DOMAIN seen : x \in seen[k] .. seen[k] + k.len - 1
        BY DEF Inv, NoGap
      <3>2. PICK i \in DOMAIN entries : actions[i].kind = "copy" /\ actions[i].block = k
        BY DEF Inv, SeenUsed
      <3> QED BY <3>1, <3>2, <2>1
    <2> QED BY <2>1, <2>2 DEF OneCopyEach
  <1> QED BY <1>1, Inductive, PTL

-----------------------------------------------------------------------------
(* What was written and what the plan projected.                           *)

\* What an action adds to the projection.
Adds(n) == IF actions[n].kind = "copy" THEN actions[n].block.len ELSE 0

\* The equations of BytesToCopy.
Totals(f) == [n \in 0 .. Len(actions) |-> IF n = 0 THEN 0 ELSE f[n - 1] + Adds(n)]

\* It is a natural.
LEMMA AddsIsNat ==
  ASSUME actions \in Seq(Action)
  PROVE  Len(actions) \in Nat /\ \A n \in 1 .. Len(actions) : Adds(n) \in Nat
  <1>1. Len(actions) \in Nat /\ \A n \in 1 .. Len(actions) : actions[n] \in Action
    OBVIOUS
  <1> QED BY <1>1 DEF Adds, Action, Block

\* A function with these equations exists.
LEMMA TotalsExist ==
  ASSUME actions \in Seq(Action)
  PROVE  \E f \in [0 .. Len(actions) -> Nat] : f = Totals(f)
  <1> DEFINE N == Len(actions)
             add == [x \in Nat \X Nat |-> IF x[1] \in 1 .. N THEN x[2] + Adds(x[1]) ELSE 0]
  <1>1. N \in Nat /\ \A n \in 1 .. N : Adds(n) \in Nat
    BY AddsIsNat
  <1> HIDE DEF N
  <1>2. add \in [Nat \X Nat -> Nat]
    BY <1>1
  <1>3. PICK f \in [0 .. N -> Nat] : Follows(f, N, 0, add)
    <2> HIDE DEF add
    <2> QED BY <1>1, <1>2, NatRecursion
  <1>4. ASSUME NEW n \in 1 .. N PROVE f[n] = f[n - 1] + Adds(n)
    <2>1. n \in Nat /\ n - 1 \in 0 .. N
      BY <1>1
    <2>2. f[n - 1] \in Nat
      BY <2>1
    <2>3. f[n] = add[<<n, f[n - 1]>>]
      BY <1>3 DEF Follows
    <2> QED BY <2>1, <2>2, <2>3
  <1>5. \A n \in 0 .. N : f[n] = IF n = 0 THEN 0 ELSE f[n - 1] + Adds(n)
    <2>1. f[0] = 0 /\ \A n \in 0 .. N : n = 0 \/ n \in 1 .. N
      BY <1>1, <1>3 DEF Follows
    <2> QED BY <1>4, <2>1
  <1> QED BY <1>5 DEF Totals, N

\* BytesToCopy adds the length of each block to copy.
LEMMA BytesToCopyIs ==
  ASSUME actions \in Seq(Action)
  PROVE  /\ BytesToCopy \in [0 .. Len(actions) -> Nat]
         /\ BytesToCopy[0] = 0
         /\ \A n \in 1 .. Len(actions) : BytesToCopy[n] = BytesToCopy[n - 1] + Adds(n)
  <1> DEFINE N == Len(actions)
  <1>1. BytesToCopy = CHOOSE f : f = Totals(f)
    BY DEF BytesToCopy, Totals, Adds
  <1>2. BytesToCopy = Totals(BytesToCopy)
    BY <1>1, TotalsExist
  <1>3. N \in Nat
    OBVIOUS
  <1>4. /\ DOMAIN BytesToCopy = 0 .. N
        /\ \A n \in 0 .. N : BytesToCopy[n] = IF n = 0 THEN 0 ELSE BytesToCopy[n - 1] + Adds(n)
    BY <1>2 DEF Totals
  <1>5. \A n \in 1 .. N : BytesToCopy[n] = BytesToCopy[n - 1] + Adds(n)
    BY <1>4
  <1>6. BytesToCopy[0] = 0
    BY <1>3, <1>4
  <1>7. \A n \in 0 .. N : BytesToCopy[n] \in Nat
    <2> DEFINE S == {n \in 0 .. N : BytesToCopy[n] \in Nat}
    <2>1. 0 \in S
      BY <1>3, <1>6
    <2>2. ASSUME NEW k \in 0 .. N - 1, k \in S PROVE k + 1 \in S
      <3>1. k + 1 \in 1 .. N /\ (k + 1) - 1 = k
        BY <1>3
      <3>2. BytesToCopy[k + 1] = BytesToCopy[k] + Adds(k + 1)
        BY <1>5, <3>1
      <3> QED BY <2>2, <3>1, <3>2, AddsIsNat
    <2> HIDE DEF S, N
    <2>3. 0 .. N \subseteq S
      BY <1>3, <2>1, <2>2, UpToClosed
    <2> QED BY <2>3 DEF S
  <1>8. BytesToCopy = [n \in 0 .. N |-> BytesToCopy[n]]
    BY <1>2 DEF Totals
  <1> QED BY <1>5, <1>6, <1>7, <1>8

\* Rounding up keeps an order.
LEMMA AlignUpKeeps ==
  ASSUME NEW a \in Nat, NEW b \in Nat, a <= b
  PROVE  AlignUp(a) <= AlignUp(b)
  <1> DEFINE A == Alignment
             x == a + A - 1
             y == b + A - 1
             p == x \div A
             q == y \div A
  <1>1. A \in Nat /\ A > 0 /\ x \in Nat /\ y \in Nat /\ x <= y
    BY CopyAssumption
  <1>2. /\ p \in Nat /\ x = p * A + (x % A) /\ x % A \in 0 .. A - 1
        /\ q \in Nat /\ y = q * A + (y % A) /\ y % A \in 0 .. A - 1
    BY <1>1
  <1> HIDE DEF A, x, y, p, q
  <1>3. p * A \in Nat /\ q * A \in Nat
    BY <1>1, <1>2
  <1>4. ASSUME ~(p <= q) PROVE FALSE
    <2>1. PICK d \in Nat : p = q + 1 + d
      <3>1. p - q - 1 \in Nat /\ p = q + 1 + (p - q - 1)
        BY <1>2, <1>4
      <3> QED BY <3>1
    <2>2. p * A = q * A + A + d * A /\ d * A \in Nat
      BY <1>1, <1>2, <2>1
    <2> QED BY <1>1, <1>2, <1>3, <2>2
  <1>5. PICK d \in Nat : q = p + d
    <2>1. q - p \in Nat /\ q = p + (q - p)
      BY <1>2, <1>4
    <2> QED BY <2>1
  <1>6. q * A = p * A + d * A /\ d * A \in Nat
    BY <1>1, <1>2, <1>5
  <1>7. AlignUp(a) = p * A /\ AlignUp(b) = q * A
    BY DEF AlignUp, A, x, y, p, q
  <1> QED BY <1>3, <1>6, <1>7

\* What was copied so far is no more than the plan counted for the actions taken.
Counted ==
  /\ at <= BytesToCopy[Len(entries)]
  /\ status = "done" => Len(entries) = Len(actions)

\* Every step keeps that.
LEMMA CountedNext == Inv /\ Inv' /\ Counted /\ [Next]_vars => Counted'
  <1> SUFFICES ASSUME Inv, Inv', Counted, [Next]_vars PROVE Counted' OBVIOUS
  <1> DEFINE n == Len(entries)
             N == Len(actions)
             B == BytesToCopy
  <1>1. /\ actions \in Seq(Action) /\ n \in Nat /\ N \in Nat /\ n <= N /\ at \in Nat
        /\ entries \in Seq(IndexEntry)
    BY CopyAssumption DEF Inv, TypeOK, IndexEntry
  <1>2. /\ B \in [0 .. N -> Nat]
        /\ \A k \in 1 .. N : B[k] = B[k - 1] + Adds(k)
    BY <1>1, BytesToCopyIs
  <1>3. actions' = actions
    BY DEF Next, TakeHole, TakeKeep, CopyAgain, CopyFirst, Fail, Pad, vars
  <1>4. BytesToCopy' = B
    BY <1>3 DEF BytesToCopy
  <1>5. CASE entries' = entries
    <2>1. at' = at
      BY <1>5, <1>1 DEF Next, TakeHole, TakeKeep, CopyAgain, CopyFirst, MakeEntry, Fail, Pad, vars
    <2>2. status' = "done" => status = "done" \/ n = N
      BY <1>5, <1>1 DEF Next, TakeHole, TakeKeep, CopyAgain, CopyFirst, MakeEntry, Fail, Pad, vars
    <2> QED BY <1>3, <1>4, <1>5, <2>1, <2>2 DEF Counted
  <1>6. CASE entries' # entries
    <2>1. /\ More /\ status' = status /\ \E e : entries' = Append(entries, e)
          /\ at' = at \/ (at' = at + Current.block.len /\ Current.kind = "copy")
      BY <1>6 DEF Next, TakeHole, TakeKeep, CopyAgain, CopyFirst, MakeEntry, Fail, Pad, vars
    <2>2. Len(entries') = n + 1 /\ n + 1 \in 1 .. N
      BY <1>1, <2>1 DEF More
    <2>3. at' <= at + Adds(n + 1)
      <3>1. Adds(n + 1) \in Nat
        BY <1>1, <2>2, AddsIsNat
      <3> QED BY <1>1, <2>1, <3>1 DEF Adds, Current
    <2>4. B[n + 1] = B[n] + Adds(n + 1) /\ B[n] \in Nat /\ Adds(n + 1) \in Nat
      <3>1. (n + 1) - 1 = n /\ n \in 0 .. N
        BY <1>1
      <3> QED BY <1>1, <1>2, <2>2, <3>1, AddsIsNat
    <2>5. at' <= B[n + 1]
      <3>1. at' \in Nat
        BY DEF Inv, TypeOK
      <3> QED BY <1>1, <2>3, <2>4, <3>1 DEF Counted
    <2>6. status' # "done"
      BY <2>1 DEF More
    <2> QED BY <1>4, <2>2, <2>5, <2>6 DEF Counted
  <1> QED BY <1>5, <1>6

\* The data region is never larger than what the plan projected and space was reserved for:
\* a block that several positions share is counted for each and written once.
THEOREM NeverMoreThanProjected == Spec => []WithinProjection
  <1>1. Init => Counted
    <2> SUFFICES ASSUME Init PROVE Counted OBVIOUS
    <2>1. actions \in Seq(Action) /\ Len(entries) = 0
      BY CopyAssumption DEF Init
    <2> QED BY <2>1, BytesToCopyIs DEF Init, Counted
  <1>2. Inv /\ Counted => WithinProjection
    <2> SUFFICES ASSUME Inv, Counted, status = "done" PROVE WithinProjection
      BY DEF WithinProjection
    <2>1. actions \in Seq(Action) /\ at \in Nat /\ Len(actions) \in 0 .. Len(actions)
      BY CopyAssumption DEF Inv, TypeOK
    <2>2. BytesToCopy[Len(actions)] \in Nat
      BY <2>1, BytesToCopyIs
    <2>3. at <= BytesToCopy[Len(actions)]
      BY DEF Counted
    <2> QED BY <2>1, <2>2, <2>3, AlignUpKeeps DEF WithinProjection
  <1>3. Spec => []Counted
    BY <1>1, CountedNext, Inductive, PTL DEF Spec
  <1> QED BY <1>2, <1>3, Inductive, PTL
=============================================================================
