------------------------- MODULE ConsolidateProofs -------------------------
(***************************************************************************)
(* Proofs about the life of a backup set, and about what a scan says of it *)
(* (ScanReport), for any size of disk, any number of backups and any       *)
(* settings.                                                               *)
(*                                                                         *)
(* D is a directory, n and i are the number and the increment of Reflect's *)
(* newest backup, and im is the history of what the disk held.             *)
(***************************************************************************)
EXTENDS ScanReport, DataLemmas

-----------------------------------------------------------------------------
(* What the operators of BackupSet and MergePlan compute, for any set of   *)
(* members: which file is the newest, who owns a number, that replaying    *)
(* the delta lists leaves each position with its last writer, and that the *)
(* list of blocks to copy has each moving entry.                           *)

\* The entry at a position, and a hole past the end of the array.
At(blocks, p) == IF p \in DOMAIN blocks THEN blocks[p] ELSE Hole

\* Position maps below width with entries from E.
BlockMaps(width, E) == UNION {[D -> E] : D \in SUBSET (0 .. width - 1)}

\* Files with numbers up to top, no two with the same, and positions below width.
Numbered(M, top) ==
  /\ IsFiniteSet(M)
  /\ \A f \in M : f.num \in 0 .. top
  /\ \A f, g \in M : f.num = g.num => f = g

-----------------------------------------------------------------------------
(* The newest member, and the owner of a number.                           *)

LEMMA NewestIsLast ==
  ASSUME NEW top \in Nat, NEW M, M # {}, \A f \in M : f.num \in 0 .. top
  PROVE  Newest(M) \in M /\ \A g \in M : g.num <= Newest(M).num
  <1> DEFINE S == {top - f.num : f \in M}
  <1>1. S \in SUBSET Nat /\ S # {}
    <2>1. \A f \in M : top - f.num \in Nat
      OBVIOUS
    <2>2. PICK f : f \in M
      OBVIOUS
    <2>3. top - f.num \in S
      BY <2>2
    <2> QED BY <2>1, <2>3
  <1>2. PICK d \in S : \A e \in S : d <= e
    <2> HIDE DEF S
    <2> QED BY <1>1, LeastNatural
  <1>3. PICK f \in M : d = top - f.num
    OBVIOUS
  <1>4. \A g \in M : g.num <= f.num
    <2> TAKE g \in M
    <2>1. top - f.num <= top - g.num
      BY <1>2, <1>3
    <2>2. f.num \in Int /\ g.num \in Int
      OBVIOUS
    <2> QED BY <2>1, <2>2
  <1> QED BY <1>4 DEF Newest

\* A member above all the others is the newest one.
LEMMA NewestIsIt ==
  ASSUME NEW top \in Nat, NEW M, Numbered(M, top),
         NEW f \in M, \A g \in M : g.num <= f.num
  PROVE  Newest(M) = f
  <1>1. Newest(M) \in M /\ \A g \in M : g.num <= Newest(M).num
    BY NewestIsLast DEF Numbered
  <1>2. f.num = Newest(M).num
    <2>1. f.num <= Newest(M).num /\ Newest(M).num <= f.num
      BY <1>1
    <2>2. f.num \in Int /\ Newest(M).num \in Int
      BY <1>1 DEF Numbered
    <2> QED BY <2>1, <2>2
  <1> QED BY <1>1, <1>2 DEF Numbered

\* Where no two files claim one number, each has one owner.
LEMMA OwnerIsIt ==
  ASSUME NEW M, OneOwnerEach(M), NEW f \in M, NEW n \in Owned(f)
  PROVE  Owner(M, n) = f
  <1>1. \A g \in M : n \in Owned(g) => g = f
    BY DEF OneOwnerEach
  <1> QED BY <1>1 DEF Owner

-----------------------------------------------------------------------------
(* Replaying the delta lists.                                              *)

\* One list over what came before.
LEMMA OverlayIs ==
  ASSUME NEW width \in Nat, NEW E, Hole \in E,
         NEW blocks \in BlockMaps(width, E), NEW delta \in BlockMaps(width, E)
  PROVE  /\ Overlay(blocks, delta) \in BlockMaps(width, E)
         /\ \A p \in 0 .. width - 1 :
              At(Overlay(blocks, delta), p) = IF p \in DOMAIN delta THEN delta[p]
                                              ELSE At(blocks, p)
  <1> DEFINE named == {-1} \cup DOMAIN blocks \cup DOMAIN delta
             top   == Max(named)
  <1>1. /\ DOMAIN blocks \subseteq 0 .. width - 1 /\ DOMAIN delta \subseteq 0 .. width - 1
        /\ \A p \in DOMAIN blocks : blocks[p] \in E
        /\ \A p \in DOMAIN delta : delta[p] \in E
    BY DEF BlockMaps
  <1>2. top \in named /\ \A p \in named : p <= top
    <2>1. named \in SUBSET Int /\ named # {} /\ \A p \in named : p <= width
      BY <1>1
    <2> HIDE DEF named
    <2> QED BY <2>1, MaxIsMember
  <1>3. top \in -1 .. width - 1
    BY <1>1, <1>2
  <1> DEFINE over == [at \in 0 .. top |-> IF at \in DOMAIN delta THEN delta[at]
                                          ELSE IF at \in DOMAIN blocks THEN blocks[at] ELSE Hole]
  <1>4. Overlay(blocks, delta) = over
    BY DEF Overlay
  <1> HIDE DEF top
  <1>5. over \in [0 .. top -> E] /\ 0 .. top \in SUBSET (0 .. width - 1)
    BY <1>1, <1>3
  <1>6. over \in BlockMaps(width, E)
    BY <1>5 DEF BlockMaps
  <1>7. ASSUME NEW p \in 0 .. width - 1
        PROVE  At(over, p) = IF p \in DOMAIN delta THEN delta[p] ELSE At(blocks, p)
    <2>1. CASE p \in 0 .. top
      BY <2>1 DEF At
    <2>2. CASE p \notin 0 .. top
      <3>1. p \notin DOMAIN delta /\ p \notin DOMAIN blocks
        BY <1>2, <1>3, <2>2
      <3> QED BY <2>2, <3>1 DEF At
    <2> QED BY <2>1, <2>2
  <1> QED BY <1>4, <1>6, <1>7

\* The function a replay folds with: what the members of each set make of base.
Replays(base, S) ==
  CHOOSE it : it = [s \in SUBSET S |->
                      IF s = {} THEN base
                      ELSE Overlay(it[s \ {Newest(s)}], Newest(s).blocks)]

\* What a set of delta members leaves at a position.
Left(base, s, p) ==
  LET writers == {f \in s : p \in DOMAIN f.blocks}
  IN  IF writers = {} THEN At(base, p) ELSE Newest(writers).blocks[p]

\* it is such a function.
FoldsReplay(it, base, S) ==
  \A s \in SUBSET S :
    it[s] = IF s = {} THEN base ELSE Overlay(it[s \ {Newest(s)}], Newest(s).blocks)

\* There is one, with position maps as its values.
LEMMA ReplaysExist ==
  ASSUME NEW top \in Nat, NEW width \in Nat, NEW E, Hole \in E,
         NEW S, Numbered(S, top), \A f \in S : f.blocks \in BlockMaps(width, E),
         NEW base \in BlockMaps(width, E)
  PROVE  FoldsReplay(Replays(base, S), base, S)
  <1> DEFINE B    == BlockMaps(width, E)
             rest == [s \in SUBSET S |-> s \ {Newest(s)}]
             step == [q \in (SUBSET S) \X B |->
                        IF q[1] = {} THEN base ELSE Overlay(q[2], Newest(q[1]).blocks)]
             Is(it) == it = [s \in SUBSET S |->
                               IF s = {} THEN base
                               ELSE Overlay(it[s \ {Newest(s)}], Newest(s).blocks)]
  <1>1. \A s \in SUBSET S : s # {} => Newest(s) \in s
    <2> TAKE s \in SUBSET S
    <2>1. \A f \in s : f.num \in 0 .. top
      BY DEF Numbered
    <2> QED BY <2>1, NewestIsLast
  <1>2. Shrinks(rest, S)
    BY <1>1 DEF Shrinks
  <1>3. step \in [(SUBSET S) \X B -> B]
    <2>1. ASSUME NEW s \in SUBSET S, NEW b \in B, s # {}
          PROVE  Overlay(b, Newest(s).blocks) \in B
      <3>1. Newest(s).blocks \in B
        BY <1>1, <2>1
      <3> QED BY <3>1, OverlayIs
    <2> HIDE DEF B
    <2> QED BY <2>1 DEF B
  <1>4. PICK it \in [SUBSET S -> B] : Folded(it, S, base, rest, step)
    <2> HIDE DEF B, rest, step
    <2> QED BY <1>2, <1>3, FoldExists DEF B, Numbered
  <1>5. ASSUME NEW s \in SUBSET S
        PROVE  it[s] = IF s = {} THEN base ELSE Overlay(it[s \ {Newest(s)}], Newest(s).blocks)
    <2>1. CASE s = {}
      BY <1>4, <2>1 DEF Folded
    <2>2. CASE s # {}
      <3>1. it[s] = step[<<s, it[rest[s]]>>]
        BY <1>4, <2>2 DEF Folded
      <3>2. rest[s] = s \ {Newest(s)} /\ it[rest[s]] \in B
        OBVIOUS
      <3>3. <<s, it[rest[s]]>> \in (SUBSET S) \X B
        BY <3>2
      <3> HIDE DEF B
      <3> QED BY <2>2, <3>1, <3>2, <3>3
    <2> QED BY <2>1, <2>2
  <1>6. Is(it)
    BY <1>5
  <1>7. Is(Replays(base, S))
    <2> HIDE DEF Is
    <2>1. Is(CHOOSE r : Is(r))
      BY <1>6
    <2> QED BY <2>1 DEF Replays, Is
  <1> DEFINE chosen == Replays(base, S)
  <1>8. chosen = [s \in SUBSET S |->
                    IF s = {} THEN base ELSE Overlay(chosen[s \ {Newest(s)}], Newest(s).blocks)]
    BY <1>7
  <1> HIDE DEF chosen
  <1>9. FoldsReplay(chosen, base, S)
    BY <1>8 DEF FoldsReplay
  <1> QED BY <1>9 DEF chosen

\* It leaves each position with the entry of the newest member that names it.
LEMMA ReplayIsLastWriter ==
  ASSUME NEW top \in Nat, NEW width \in Nat, NEW E, Hole \in E,
         NEW S, Numbered(S, top), \A f \in S : f.blocks \in BlockMaps(width, E),
         NEW base \in BlockMaps(width, E)
  PROVE  /\ Replays(base, S)[S] \in BlockMaps(width, E)
         /\ \A p \in 0 .. width - 1 : At(Replays(base, S)[S], p) = Left(base, S, p)
  <1> DEFINE it == Replays(base, S)
             rest == [s \in SUBSET S |-> s \ {Newest(s)}]
             T == {s \in SUBSET S :
                     /\ it[s] \in BlockMaps(width, E)
                     /\ \A p \in 0 .. width - 1 : At(it[s], p) = Left(base, s, p)}
  <1>1. \A s \in SUBSET S : s # {} => /\ Newest(s) \in s
                                      /\ \A g \in s : g.num <= Newest(s).num
    <2> TAKE s \in SUBSET S
    <2>1. \A f \in s : f.num \in 0 .. top
      BY DEF Numbered
    <2> QED BY <2>1, NewestIsLast
  <1>2. Shrinks(rest, S)
    BY <1>1 DEF Shrinks
  <1>3. \A s \in SUBSET S : it[s] = IF s = {} THEN base
                                    ELSE Overlay(it[s \ {Newest(s)}], Newest(s).blocks)
    <2>1. FoldsReplay(Replays(base, S), base, S)
      BY ReplaysExist
    <2> HIDE DEF it
    <2>2. FoldsReplay(it, base, S)
      BY <2>1 DEF it
    <2> QED BY <2>2 DEF FoldsReplay
  <1> HIDE DEF it
  <1>4. {} \in T
    <2>1. it[{}] = base
      BY <1>3
    <2>2. \A p : Left(base, {}, p) = At(base, p)
      BY DEF Left
    <2> QED BY <2>1, <2>2
  <1>5. ASSUME NEW s \in SUBSET S, s # {}, rest[s] \in T PROVE s \in T
    <2> DEFINE x == Newest(s)
               r == s \ {x}
    <2>1. /\ it[r] \in BlockMaps(width, E) /\ r \in SUBSET S
          /\ \A p \in 0 .. width - 1 : At(it[r], p) = Left(base, r, p)
      BY <1>5
    <2>2. x \in s /\ x.blocks \in BlockMaps(width, E) /\ it[s] = Overlay(it[r], x.blocks)
      BY <1>1, <1>3, <1>5
    <2> HIDE DEF x
    <2>3. /\ it[s] \in BlockMaps(width, E)
          /\ \A p \in 0 .. width - 1 :
               At(it[s], p) = IF p \in DOMAIN x.blocks THEN x.blocks[p] ELSE At(it[r], p)
      <3> HIDE DEF r
      <3> QED BY <2>1, <2>2, OverlayIs
    <2>4. ASSUME NEW p \in 0 .. width - 1 PROVE At(it[s], p) = Left(base, s, p)
      <3> DEFINE W(u) == {f \in u : p \in DOMAIN f.blocks}
      <3>1. CASE p \in DOMAIN x.blocks
        <4>1. x \in W(s) /\ Numbered(W(s), top)
          <5>1. W(s) \subseteq S /\ IsFiniteSet(W(s))
            BY FS_Subset DEF Numbered
          <5> QED BY <2>2, <3>1, <5>1 DEF Numbered
        <4>2. \A g \in W(s) : g.num <= x.num
          BY <1>1, <1>5 DEF x
        <4>3. Newest(W(s)) = x
          <5> HIDE DEF W
          <5> QED BY <4>1, <4>2, NewestIsIt
        <4>4. Left(base, s, p) = x.blocks[p]
          <5>1. W(s) # {}
            BY <4>1
          <5> QED BY <4>3, <5>1 DEF Left
        <4> QED BY <2>3, <3>1, <4>4
      <3>2. CASE p \notin DOMAIN x.blocks
        <4>1. W(s) = W(r)
          BY <3>2
        <4>2. Left(base, s, p) = Left(base, r, p)
          BY <4>1 DEF Left
        <4> QED BY <2>1, <2>3, <3>2, <4>2
      <3> QED BY <3>1, <3>2
    <2> QED BY <2>3, <2>4
  <1>6. SUBSET S \subseteq T
    <2> HIDE DEF T, rest
    <2> QED BY <1>2, <1>4, <1>5, SubsetsClosed DEF Numbered
  <1> QED BY <1>6 DEF it

-----------------------------------------------------------------------------
(* The flattened index.                                                    *)

\* Members as a set that can be resolved has them, apart from their numbers.
WellFormed(M, top, width, E) ==
  /\ top \in Nat /\ width \in Nat /\ Hole \in E
  /\ Numbered(M, top)
  /\ \A f \in M : f.blocks \in BlockMaps(width, E)
  /\ \E f \in M : IsFullIndex(f)

\* The base is the newest full index.
LEMMA BaseIsNewestFull ==
  ASSUME NEW M, NEW top, NEW width, NEW E, WellFormed(M, top, width, E)
  PROVE  /\ Base(M) \in M /\ IsFullIndex(Base(M))
         /\ \A f \in M : IsFullIndex(f) => f.num <= Base(M).num
  <1> DEFINE S == {f \in M : IsFullIndex(f)}
  <1>1. S # {} /\ \A f \in S : f.num \in 0 .. top
    BY DEF WellFormed, Numbered
  <1>2. Newest(S) \in S /\ \A g \in S : g.num <= Newest(S).num
    <2> HIDE DEF S
    <2> QED BY <1>1, NewestIsLast DEF WellFormed
  <1> QED BY <1>2 DEF Base

\* Flattening leaves every position with its last writer, as LastWriter says it at once.
LEMMA FlattenIs ==
  ASSUME NEW M, NEW top, NEW width, NEW E, WellFormed(M, top, width, E)
  PROVE  /\ Flatten(M) \in BlockMaps(width, E)
         /\ \A p \in 0 .. width - 1 : At(Flatten(M), p) = LastWriter(M, p)
  <1> DEFINE S == Deltas(M)
             b == Base(M)
  <1>1. Flatten(M) = Replays(b.blocks, S)[S]
    BY DEF Flatten, MapThenFoldSet, Replays
  <1>2. /\ b \in M /\ IsFullIndex(b) /\ b.num \in 0 .. top /\ b.blocks \in BlockMaps(width, E)
        /\ \A f \in M : IsFullIndex(f) => f.num <= b.num
    BY BaseIsNewestFull DEF WellFormed, Numbered
  <1>3. /\ Numbered(S, top) /\ \A f \in S : f.blocks \in BlockMaps(width, E)
        /\ S \subseteq M /\ \A f \in S : f.num > b.num
    <2>1. S \subseteq M /\ IsFiniteSet(S)
      BY FS_Subset DEF Deltas, WellFormed, Numbered
    <2>2. ASSUME NEW f \in S PROVE f.num > b.num
      <3>1. f \in M /\ f.num >= b.num /\ f # b /\ f.num \in Int /\ b.num \in Int
        BY <1>2, <2>1 DEF Deltas, IsFullIndex, WellFormed, Numbered
      <3>2. f.num # b.num
        BY <1>2, <3>1 DEF WellFormed, Numbered
      <3> QED BY <3>1, <3>2
    <2> QED BY <2>1, <2>2 DEF WellFormed, Numbered
  <1> HIDE DEF S, b
  <1>4. ASSUME NEW p \in 0 .. width - 1 PROVE Left(b.blocks, S, p) = LastWriter(M, p)
    <2> DEFINE W == {f \in S : p \in DOMAIN f.blocks}
               V == {f \in M : f.num >= b.num /\ ~f.split /\ p \in DOMAIN f.blocks}
    <2>1. V = IF p \in DOMAIN b.blocks THEN W \cup {b} ELSE W
      <3>1. \A f \in V : f \in W \/ f = b
        <4> SUFFICES ASSUME NEW f \in V, ~f.delta PROVE f = b
          BY DEF Deltas, S, b
        <4>1. IsFullIndex(f) /\ f \in M /\ f.num >= b.num /\ f.num <= b.num
          BY <1>2 DEF IsFullIndex
        <4>2. f.num \in Int /\ b.num \in Int
          BY <1>2, <4>1 DEF WellFormed, Numbered
        <4> QED BY <1>2, <4>1, <4>2 DEF WellFormed, Numbered
      <3>2. W \subseteq V
        BY DEF Deltas, S, b
      <3>3. b \in V <=> p \in DOMAIN b.blocks
        BY <1>2 DEF IsFullIndex
      <3>4. b \notin W
        BY <1>2, <1>3
      <3> QED BY <3>1, <3>2, <3>3, <3>4
    <2>2. LastWriter(M, p) = IF V = {} THEN Hole ELSE Newest(V).blocks[p]
      BY DEF LastWriter, b
    <2>3. Left(b.blocks, S, p) = IF W = {} THEN At(b.blocks, p) ELSE Newest(W).blocks[p]
      BY DEF Left
    <2>4. V \subseteq M /\ W \subseteq S /\ Numbered(V, top) /\ Numbered(W, top)
      <3>1. V \subseteq M /\ W \subseteq M /\ W \subseteq S
        BY <1>3
      <3>2. IsFiniteSet(V) /\ IsFiniteSet(W)
        BY <3>1, FS_Subset DEF WellFormed, Numbered
      <3> QED BY <3>1, <3>2 DEF WellFormed, Numbered
    <2> HIDE DEF V, W
    <2>5. CASE W = {}
      <3>1. CASE p \in DOMAIN b.blocks
        <4>1. Newest(V) = b
          <5>1. V = {b} /\ b.num <= b.num
            BY <1>2, <2>1, <2>5, <3>1
          <5> QED BY <2>4, <5>1, NewestIsIt DEF WellFormed
        <4> QED BY <2>1, <2>2, <2>3, <2>5, <3>1, <4>1 DEF At
      <3>2. CASE p \notin DOMAIN b.blocks
        BY <2>1, <2>2, <2>3, <2>5, <3>2 DEF At
      <3> QED BY <3>1, <3>2
    <2>6. CASE W # {}
      <3>1. Newest(W) \in W /\ \A g \in W : g.num <= Newest(W).num
        BY <2>4, <2>6, NewestIsLast DEF Numbered, WellFormed
      <3>2. Newest(W) \in V /\ \A g \in V : g.num <= Newest(W).num
        <4>1. b.num <= Newest(W).num
          <5>1. Newest(W) \in S /\ Newest(W).num \in Int
            BY <2>4, <3>1 DEF Numbered
          <5> QED BY <1>2, <1>3, <5>1
        <4> QED BY <2>1, <3>1, <4>1
      <3>3. Newest(V) = Newest(W)
        BY <2>4, <3>2, NewestIsIt DEF WellFormed
      <3>4. V # {}
        BY <3>2
      <3> QED BY <2>2, <2>3, <2>6, <3>3, <3>4
    <2> QED BY <2>5, <2>6
  <1>5. /\ Replays(b.blocks, S)[S] \in BlockMaps(width, E)
        /\ \A p \in 0 .. width - 1 : At(Replays(b.blocks, S)[S], p) = Left(b.blocks, S, p)
    <2>1. top \in Nat /\ width \in Nat /\ Hole \in E
      BY DEF WellFormed
    <2>2. /\ Numbered(S, top) /\ \A f \in S : f.blocks \in BlockMaps(width, E)
          /\ b.blocks \in BlockMaps(width, E)
      BY <1>2, <1>3 DEF WellFormed
    <2> QED BY ONLY <2>1, <2>2, ReplayIsLastWriter
  <1> QED BY <1>1, <1>4, <1>5

\* f names the position, from the base on.
Writes(M, f, p) == f \in M /\ f.num >= Base(M).num /\ ~f.split /\ p \in DOMAIN f.blocks

LEMMA LastWriterIs ==
  ASSUME NEW M, NEW top, NEW width, NEW E, WellFormed(M, top, width, E), NEW p
  PROVE  \/ LastWriter(M, p) = Hole /\ \A f \in M : ~Writes(M, f, p)
         \/ \E w \in M : /\ Writes(M, w, p) /\ LastWriter(M, p) = w.blocks[p]
                         /\ \A f \in M : Writes(M, f, p) => f.num <= w.num
  <1> DEFINE V == {f \in M : f.num >= Base(M).num /\ ~f.split /\ p \in DOMAIN f.blocks}
  <1>1. \A f : f \in V <=> Writes(M, f, p)
    BY DEF Writes
  <1>2. LastWriter(M, p) = IF V = {} THEN Hole ELSE Newest(V).blocks[p]
    BY DEF LastWriter
  <1>3. CASE V = {}
    BY <1>1, <1>2, <1>3
  <1>4. CASE V # {}
    <2>1. top \in Nat /\ (\A f \in V : f.num \in 0 .. top) /\ V \subseteq M
      BY DEF WellFormed, Numbered
    <2> HIDE DEF V
    <2>2. Newest(V) \in V /\ \A g \in V : g.num <= Newest(V).num
      BY <1>4, <2>1, NewestIsLast
    <2> QED BY <1>1, <1>2, <1>4, <2>1, <2>2
  <1> QED BY <1>3, <1>4

-----------------------------------------------------------------------------
(* The blocks to copy.                                                     *)

\* One action: a block that moves joins the list unless it is on it.
Copied(copies, e, absorbed) ==
  IF Moves(e, absorbed) /\ e \notin Range(copies) THEN Append(copies, e) ELSE copies

\* The function CopyList folds with, for the entries of h in ascending order.
Copying(h, first, absorbed) ==
  CHOOSE it : it = [s \in SUBSET DOMAIN h |->
                      IF s = {} THEN first ELSE Copied(it[s \ {Max(s)}], h[Max(s)], absorbed)]

FoldsCopies(it, h, first, absorbed) ==
  \A s \in SUBSET DOMAIN h :
    it[s] = IF s = {} THEN first ELSE Copied(it[s \ {Max(s)}], h[Max(s)], absorbed)

\* A list that has the moving entries of h at the positions in s, after
\* those of first.
CopiesOf(q, h, first, absorbed, s, E) ==
  q \in Seq(E) /\ Range(q) = Range(first) \cup {e \in {h[i] : i \in s} : Moves(e, absorbed)}

LEMMA MaxOfPart ==
  ASSUME NEW n \in Nat, NEW D \in SUBSET (0 .. n), NEW s \in SUBSET D, s # {}
  PROVE  Max(s) \in s
  <1>1. s \in SUBSET Int /\ \A x \in s : x <= n
    OBVIOUS
  <1> QED BY <1>1, MaxIsMember

\* There is such a function, and its values are lists of entries.
LEMMA CopyingExists ==
  ASSUME NEW n \in Nat, NEW E, NEW h, DOMAIN h \in SUBSET (0 .. n),
         \A i \in DOMAIN h : h[i] \in E, NEW first \in Seq(E), NEW absorbed
  PROVE  FoldsCopies(Copying(h, first, absorbed), h, first, absorbed)
  <1> DEFINE D    == DOMAIN h
             B    == Seq(E)
             rest == [s \in SUBSET D |-> s \ {Max(s)}]
             step == [q \in (SUBSET D) \X B |->
                        IF q[1] = {} THEN first ELSE Copied(q[2], h[Max(q[1])], absorbed)]
             Is(it) == it = [s \in SUBSET D |->
                               IF s = {} THEN first
                               ELSE Copied(it[s \ {Max(s)}], h[Max(s)], absorbed)]
  <1>1. \A s \in SUBSET D : s # {} => Max(s) \in s
    BY MaxOfPart
  <1>2. Shrinks(rest, D)
    BY <1>1 DEF Shrinks
  <1>3. IsFiniteSet(D)
    <2>1. IsFiniteSet(0 .. n)
      BY FS_Interval
    <2> QED BY <2>1, FS_Subset
  <1>4. step \in [(SUBSET D) \X B -> B]
    <2>1. ASSUME NEW s \in SUBSET D, NEW b \in B, s # {}
          PROVE  Copied(b, h[Max(s)], absorbed) \in B
      <3>1. h[Max(s)] \in E
        BY <1>1, <2>1
      <3> QED BY <3>1 DEF Copied
    <2> HIDE DEF B, D
    <2> QED BY <2>1 DEF B
  <1>5. PICK it \in [SUBSET D -> B] : Folded(it, D, first, rest, step)
    <2> HIDE DEF D, rest, step
    <2> QED BY <1>2, <1>3, <1>4, FoldExists
  <1>6. ASSUME NEW s \in SUBSET D
        PROVE  it[s] = IF s = {} THEN first ELSE Copied(it[s \ {Max(s)}], h[Max(s)], absorbed)
    <2> HIDE DEF D
    <2>1. CASE s = {}
      BY <1>5, <2>1 DEF Folded
    <2>2. CASE s # {}
      <3>1. it[s] = step[<<s, it[rest[s]]>>]
        BY <1>5, <2>2 DEF Folded
      <3>2. rest[s] = s \ {Max(s)} /\ it[rest[s]] \in B
        OBVIOUS
      <3>3. <<s, it[rest[s]]>> \in (SUBSET D) \X B
        BY <3>2
      <3> HIDE DEF B
      <3> QED BY <2>2, <3>1, <3>2, <3>3
    <2> QED BY <2>1, <2>2
  <1>7. Is(it)
    BY <1>6
  <1>8. Is(Copying(h, first, absorbed))
    <2> HIDE DEF Is
    <2>1. Is(CHOOSE r : Is(r))
      BY <1>7
    <2> QED BY <2>1 DEF Copying, Is
  <1> DEFINE chosen == Copying(h, first, absorbed)
  <1>9. chosen = [s \in SUBSET D |->
                    IF s = {} THEN first ELSE Copied(chosen[s \ {Max(s)}], h[Max(s)], absorbed)]
    BY <1>8
  <1> HIDE DEF chosen
  <1>10. FoldsCopies(chosen, h, first, absorbed)
    BY <1>9 DEF FoldsCopies
  <1> QED BY <1>10 DEF chosen

LEMMA CopyingIs ==
  ASSUME NEW n \in Nat, NEW E, NEW h, DOMAIN h \in SUBSET (0 .. n),
         \A i \in DOMAIN h : h[i] \in E, NEW first \in Seq(E), NEW absorbed
  PROVE  CopiesOf(Copying(h, first, absorbed)[DOMAIN h], h, first, absorbed, DOMAIN h, E)
  <1> DEFINE D    == DOMAIN h
             it   == Copying(h, first, absorbed)
             rest == [s \in SUBSET D |-> s \ {Max(s)}]
             T    == {s \in SUBSET D : CopiesOf(it[s], h, first, absorbed, s, E)}
  <1>1. \A s \in SUBSET D : s # {} => Max(s) \in s
    BY MaxOfPart
  <1>2. Shrinks(rest, D) /\ IsFiniteSet(D)
    <2>1. IsFiniteSet(0 .. n)
      BY FS_Interval
    <2>2. IsFiniteSet(D)
      BY <2>1, FS_Subset
    <2> QED BY <1>1, <2>2 DEF Shrinks
  <1>3. \A s \in SUBSET D : it[s] = IF s = {} THEN first
                                    ELSE Copied(it[s \ {Max(s)}], h[Max(s)], absorbed)
    <2>1. FoldsCopies(Copying(h, first, absorbed), h, first, absorbed)
      BY CopyingExists
    <2> HIDE DEF it
    <2>2. FoldsCopies(it, h, first, absorbed)
      BY <2>1 DEF it
    <2> QED BY <2>2 DEF FoldsCopies
  <1> HIDE DEF it
  <1>4. {} \in T
    BY <1>3 DEF CopiesOf
  <1>5. ASSUME NEW s \in SUBSET D, s # {}, rest[s] \in T PROVE s \in T
    <2> DEFINE x == Max(s)
               q == it[s \ {x}]
               e == h[x]
    <2>1. /\ q \in Seq(E)
          /\ Range(q) = Range(first) \cup {d \in {h[i] : i \in s \ {x}} : Moves(d, absorbed)}
      BY <1>5 DEF CopiesOf
    <2>2. x \in s /\ e \in E /\ it[s] = Copied(q, e, absorbed)
      BY <1>1, <1>3, <1>5
    <2>3. {h[i] : i \in s} = {h[i] : i \in s \ {x}} \cup {e}
      BY <2>2
    <2> HIDE DEF x, q, e
    <2>4. CASE Moves(e, absorbed) /\ e \notin Range(q)
      <3>1. it[s] = Append(q, e)
        BY <2>2, <2>4 DEF Copied
      <3>2. Append(q, e) \in Seq(E) /\ Range(Append(q, e)) = Range(q) \cup {e}
        <4>1. Append(q, e) \in Seq(E) /\ Len(q) \in Nat /\ DOMAIN q = 1 .. Len(q)
          BY <2>1, <2>2
        <4>2. /\ DOMAIN Append(q, e) = 1 .. Len(q) + 1
              /\ \A i \in 1 .. Len(q) : Append(q, e)[i] = q[i]
              /\ Append(q, e)[Len(q) + 1] = e
          BY <2>1, <2>2
        <4> QED BY <4>1, <4>2 DEF Range
      <3> QED BY <2>1, <2>3, <2>4, <3>1, <3>2 DEF CopiesOf
    <2>5. CASE ~(Moves(e, absorbed) /\ e \notin Range(q))
      <3>1. it[s] = q
        BY <2>2, <2>5 DEF Copied
      <3>2. {d \in {h[i] : i \in s} : Moves(d, absorbed)} \cup Range(first) = Range(q)
        BY <2>1, <2>3, <2>5
      <3> QED BY <2>1, <3>1, <3>2 DEF CopiesOf
    <2> QED BY <2>4, <2>5
  <1>6. SUBSET D \subseteq T
    <2> HIDE DEF T, rest
    <2> QED BY <1>2, <1>4, <1>5, SubsetsClosed
  <1> QED BY <1>6 DEF it

\* The list has each moving entry of the reserved sectors and of the blocks, and no other.
LEMMA CopyListIs ==
  ASSUME NEW n \in Nat, NEW E, NEW reserved \in Seq(E),
         NEW blocks, DOMAIN blocks \in SUBSET (0 .. n), \A i \in DOMAIN blocks : blocks[i] \in E,
         NEW absorbed
  PROVE  /\ CopyList(reserved, blocks, absorbed) \in Seq(E)
         /\ Range(CopyList(reserved, blocks, absorbed)) =
              {e \in Range(reserved) \cup Range(blocks) : Moves(e, absorbed)}
  <1> DEFINE first == Copying(reserved, <<>>, absorbed)[DOMAIN reserved]
  <1>1. CopyList(reserved, blocks, absorbed) = Copying(blocks, first, absorbed)[DOMAIN blocks]
    BY DEF CopyList, MapThenFoldSet, FoldLeft, Copying, Copied
  <1>2. CopiesOf(first, reserved, <<>>, absorbed, DOMAIN reserved, E)
    <2>1. /\ Len(reserved) \in Nat /\ DOMAIN reserved \in SUBSET (0 .. Len(reserved))
          /\ \A i \in DOMAIN reserved : reserved[i] \in E
          /\ <<>> \in Seq(E)
      OBVIOUS
    <2> QED BY <2>1, CopyingIs
  <1>3. first \in Seq(E) /\ Range(first) = {e \in Range(reserved) : Moves(e, absorbed)}
    <2> HIDE DEF first
    <2>1. Range(<<>>) = {} /\ {reserved[i] : i \in DOMAIN reserved} = Range(reserved)
      BY DEF Range
    <2> QED BY <1>2, <2>1 DEF CopiesOf
  <1> HIDE DEF first
  <1>4. CopiesOf(Copying(blocks, first, absorbed)[DOMAIN blocks], blocks, first, absorbed,
                 DOMAIN blocks, E)
    BY <1>3, CopyingIs
  <1>5. {blocks[i] : i \in DOMAIN blocks} = Range(blocks)
    BY DEF Range
  <1> QED BY <1>1, <1>3, <1>4, <1>5 DEF CopiesOf

-----------------------------------------------------------------------------

Spots == Places \cup {ReservedAt}
EntrySet == [num : Nat, pos : Nat, len : {0, 1}]

-----------------------------------------------------------------------------
(* The inductive invariant.                                                *)

\* A file by itself.
FileOK(f, n, i) ==
  /\ f.num \in Nat /\ f.inc \in 0 .. i
  /\ Owned(f) \subseteq f.num .. n
  /\ f.delta \in BOOLEAN /\ f.split \in BOOLEAN /\ f.diff \in BOOLEAN
  /\ ~(f.delta /\ f.split)
  /\ f.num = 0 => IsFullIndex(f) /\ ~f.diff /\ f.inc = 0
  /\ IsFullIndex(f) /\ ~f.diff => f.num = 0
  /\ f.split => f.merged = {} /\ f.blocks = <<>>
  /\ f.blocks \in BlockMaps(Positions, EntrySet)
  /\ f.reserved \in Seq(EntrySet) /\ Len(f.reserved) = IF f.split THEN 0 ELSE 1
  /\ f.settings \in Settings

\* Increment numbers follow file numbers, and only a continuation shares one.
Order(D) ==
  \A f, g \in D :
    /\ f.num < g.num => f.inc <= g.inc
    /\ f.num < g.num /\ f.inc = g.inc => g.split
    /\ f.num = g.num => f.inc = g.inc

\* A file that begins within another is all within it.
Laminar(D) ==
  \A f, g \in D : f.num < g.num /\ g.num <= Moment(f) => Owned(g) \subseteq Owned(f)

\* Nothing absorbs a continuation, and only a merge from the Full absorbs a full index.
SplitAlone(D) == \A c, g \in D : c.split /\ c.num \in Owned(g) => g = c
FullsOver(D) ==
  \A f, g \in D : IsFullIndex(f) /\ f.num \in Owned(g) /\ g # f => g.num = 0

Shape(D, n, i) ==
  /\ IsFiniteSet(D) /\ n \in Nat /\ i \in Nat
  /\ \A f \in D : FileOK(f, n, i)
  /\ Order(D) /\ Laminar(D) /\ SplitAlone(D) /\ FullsOver(D)

HasFull(D) == \E f \in D : f.num = 0

\* What a running merge has still to delete is covered by its output.
JobCovered(D, J) == J # {} => \E o \in D \ J : \A f \in J : Owned(f) \subseteq Owned(o)

\* No file skips a number, but for a Full merged over what retention took.
Intervals(D, gap) ==
  \A f \in D : f.delta \/ (f.num = 0 /\ ~gap) => f.num .. Moment(f) \subseteq Owned(f)

\* A number nobody has is below a full index that every later file can start from.
Accounted(D, n) ==
  \A k \in 0 .. n :
    \/ \E f \in D : k \in Owned(f)
    \/ \A top \in {t.num : t \in D} \cup {n + 1} :
         k < top => \E d \in D : IsFullIndex(d) /\ k < d.num /\ d.num <= top

\* Where an entry's block is: in its file, in the file's continuation, or in the Full.
EntryOK(f, e, D) ==
  ~IsHole(e) =>
    \/ e.num = f.num /\ e.pos \in DOMAIN f.data
    \/ f.delta /\ \E c \in D : c.split /\ c.num = e.num /\ c.inc = f.inc
    \/ IsFullIndex(f) /\ f.num # 0 /\ e.num = 0

EntriesOK(D, n) ==
  \A f \in D :
    /\ \A e \in EntriesOf(f) : e.num \in 0 .. n /\ EntryOK(f, e, D)
    /\ ~f.split => ~IsHole(f.reserved[1]) /\ f.reserved[1].num = f.num

\* h has the block of entry e, and it is v.
Holds(h, e, v) ==
  /\ v \in Nat \X Nat
  /\ e.pos \in DOMAIN h.data
  /\ h.data[e.pos] = Append(v, h.settings)

\* Together with whatever file it may be read with, entry e of f gives v.
Gives(f, e, v, D) ==
  IF IsHole(e) THEN v = Nothing
  ELSE \A h \in D : h.num = e.num /\ (h = f \/ Owned(f) \cap Owned(h) = {}) => Holds(h, e, v)

\* A file gives back the disk of its moment where it names the position, and says by not
\* naming one that the disk was there as it was before the file.
Values(f, D, im) ==
  /\ \A p \in DOMAIN f.blocks : Gives(f, f.blocks[p], im[Moment(f)][p], D)
  /\ ~f.split => Gives(f, f.reserved[1], im[Moment(f)][ReservedAt], D)
  /\ f.delta => \A p \in Places \ DOMAIN f.blocks : im[Moment(f)][p] = im[f.num - 1][p]
  /\ f.split => \A p \in Places : im[f.num][p] = im[f.num - 1][p]
  /\ IsFullIndex(f) => \A p \in Places \ DOMAIN f.blocks : im[Moment(f)][p] = Nothing

Images ==
  /\ DOMAIN image = 0 .. last.num
  /\ \A k \in 0 .. last.num : image[k] \in [Spots -> {Nothing} \cup (Nat \X Nat)]
  /\ disk = image[last.num]

Inv ==
  /\ Shape(dir, last.num, last.inc)
  /\ job \subseteq dir
  /\ last.num \in 0 .. MaxNumber /\ last.inc \in 0 .. last.num
  /\ flaws \subseteq {"stranded", "gap"}
  /\ HasFull(dir) /\ JobCovered(dir, job)
  /\ Intervals(dir, "gap" \in flaws)
  /\ "gap" \notin flaws => Accounted(dir, last.num)
  /\ EntriesOK(dir, last.num)
  /\ Images
  /\ "stranded" \notin flaws => \A f \in dir : Values(f, dir, image)

-----------------------------------------------------------------------------
(* One file.                                                               *)

\* The numbers a file claims begin with its own and end with its moment.
LEMMA MomentIs ==
  ASSUME NEW n \in Nat, NEW i, NEW f, FileOK(f, n, i)
  PROVE  /\ f.num \in Nat /\ f.num \in Owned(f)
         /\ Moment(f) \in Owned(f) /\ Moment(f) \in f.num .. n
         /\ \A k \in Owned(f) : k \in f.num .. Moment(f)
  <1>1. f.num \in Nat /\ f.num \in Owned(f) /\ Owned(f) \subseteq f.num .. n
    BY DEF FileOK, Owned
  <1>2. Owned(f) \in SUBSET Int /\ Owned(f) # {} /\ \A k \in Owned(f) : k <= n
    BY <1>1
  <1>3. Max(Owned(f)) \in Owned(f) /\ \A k \in Owned(f) : k <= Max(Owned(f))
    BY <1>2, MaxIsMember
  <1> QED BY <1>1, <1>3 DEF Moment

\* Each file is full, delta or a continuation.
LEMMA Kinds3 ==
  ASSUME NEW n, NEW i, NEW f, FileOK(f, n, i)
  PROVE  \/ IsFullIndex(f) /\ ~f.delta /\ ~f.split
         \/ f.delta /\ ~f.split /\ ~IsFullIndex(f) /\ f.num # 0
         \/ f.split /\ ~f.delta /\ ~IsFullIndex(f) /\ f.num # 0
  BY DEF FileOK, IsFullIndex

-----------------------------------------------------------------------------
(* The members of a set that can be discovered.                            *)

\* A part of a directory has its shape.
LEMMA PartShape ==
  ASSUME NEW D, NEW n, NEW i, Shape(D, n, i), NEW M \in SUBSET D
  PROVE  Shape(M, n, i)
  <1>1. IsFiniteSet(M)
    BY FS_Subset DEF Shape
  <1> QED BY <1>1 DEF Shape, Order, Laminar, SplitAlone, FullsOver

\* Files that share no number do not interleave.
LEMMA OneAfterTheOther ==
  ASSUME NEW M, NEW n, NEW i, Shape(M, n, i), OneOwnerEach(M), NEW f \in M, NEW g \in M
  PROVE  /\ f.num < g.num => Moment(f) < g.num
         /\ f.num = g.num => f = g
  <1>1. /\ f.num \in Owned(f) /\ g.num \in Owned(g) /\ f.num \in Nat /\ g.num \in Nat
        /\ Moment(f) \in Int
    BY MomentIs DEF Shape
  <1>2. ASSUME f.num < g.num, ~(Moment(f) < g.num) PROVE FALSE
    <2>1. Owned(g) \subseteq Owned(f)
      BY <1>1, <1>2 DEF Shape, Laminar
    <2> QED BY <1>1, <1>2, <2>1 DEF OneOwnerEach
  <1>3. f.num = g.num => f = g
    BY <1>1 DEF OneOwnerEach
  <1> QED BY <1>2, <1>3

\* The members of a set without two claimants form a directory of the same shape, with t and a
\* Full among them.
LEMMA MembersAre ==
  ASSUME NEW D, NEW n, NEW i, Shape(D, n, i), HasFull(D), NEW t \in D,
         OneOwnerEach(Members(D, t))
  PROVE  /\ Members(D, t) \subseteq D /\ t \in Members(D, t)
         /\ Shape(Members(D, t), n, i)
         /\ HasFull(Members(D, t))
         /\ WellFormed(Members(D, t), n, Positions, EntrySet)
  <1> DEFINE M == Members(D, t)
  <1>1. M \subseteq D /\ t \in M
    BY DEF Members, Shape, FileOK
  <1>2. Shape(M, n, i)
    BY <1>1, PartShape
  <1>3. HasFull(M)
    <2>1. PICK f \in D : f.num = 0
      BY DEF HasFull
    <2>2. f.inc = 0 /\ t.inc \in Nat
      BY <2>1 DEF Shape, FileOK
    <2> QED BY <2>1, <2>2 DEF Members, HasFull
  <1>4. WellFormed(M, n, Positions, EntrySet)
    <2>1. n \in Nat /\ Positions \in Nat /\ Hole \in EntrySet
      BY SizeAssumption DEF Shape, Hole, EntrySet
    <2>2. Numbered(M, n)
      <3>1. \A f \in M : f.num \in 0 .. n
        BY <1>2, MomentIs DEF Shape
      <3>2. \A f, g \in M : f.num = g.num => f = g
        BY <1>2, OneAfterTheOther
      <3> QED BY <1>2, <3>1, <3>2 DEF Numbered, Shape
    <2>3. \A f \in M : f.blocks \in BlockMaps(Positions, EntrySet)
      BY <1>2 DEF Shape, FileOK
    <2>4. \E f \in M : IsFullIndex(f)
      BY <1>2, <1>3 DEF Shape, FileOK, HasFull
    <2> QED BY <2>1, <2>2, <2>3, <2>4 DEF WellFormed
  <1> QED BY <1>1, <1>2, <1>3, <1>4

\* The set of t can be discovered and has a shape.
Found(D, n, i, t) ==
  /\ Shape(D, n, i) /\ HasFull(D) /\ t \in D
  /\ Discoverable(D, t) /\ Resolvable(Members(D, t))

\* It ends with t.
LEMMA NewestIsTo ==
  ASSUME NEW D, NEW n, NEW i, NEW t, Found(D, n, i, t)
  PROVE  /\ Newest(Members(D, t)) = t
         /\ \A g \in Members(D, t) : g.num <= t.num
         /\ ~t.split
  <1> DEFINE M == Members(D, t)
             m == Newest(M)
  <1>1. OneOwnerEach(M) /\ t \in M /\ Shape(M, n, i) /\ WellFormed(M, n, Positions, EntrySet)
    BY MembersAre DEF Found, Discoverable
  <1>2. m \in M /\ \A g \in M : g.num <= m.num
    <2>1. M # {} /\ n \in Nat /\ \A f \in M : f.num \in 0 .. n
      BY <1>1 DEF WellFormed, Numbered
    <2> HIDE DEF M
    <2> QED BY <2>1, NewestIsLast
  <1>3. ~m.split
    BY DEF Found, Resolvable
  <1>4. m.inc <= t.inc /\ m.inc \in Int /\ t.inc \in Int /\ m.num \in Int /\ t.num \in Int
    BY <1>1, <1>2 DEF Members, Shape, FileOK
  <1> HIDE DEF m
  <1>5. ~(t.num < m.num)
    BY <1>1, <1>2, <1>3, <1>4 DEF Shape, Order
  <1>6. m = t
    <2>1. m.num = t.num
      BY <1>1, <1>2, <1>4, <1>5
    <2> QED BY <1>1, <1>2, <2>1, OneAfterTheOther
  <1> QED BY <1>2, <1>3, <1>6 DEF m

\* Below a member above the base there is one that ends where it begins.
LEMMA StepDown ==
  ASSUME NEW D, NEW n, NEW i, NEW t, Found(D, n, i, t),
         NEW f \in Members(D, t), Base(Members(D, t)).num < f.num
  PROVE  \E g \in Members(D, t) : /\ Moment(g) = f.num - 1 /\ g.num < f.num
                                  /\ Base(Members(D, t)).num <= g.num
  <1> DEFINE M == Members(D, t)
             b == Base(M)
  <1>1. OneOwnerEach(M) /\ Shape(M, n, i) /\ WellFormed(M, n, Positions, EntrySet)
    BY MembersAre DEF Found, Discoverable
  <1>2. b \in M
    BY <1>1, BaseIsNewestFull
  <1>3. f.num <= t.num /\ Newest(M) = t /\ t \in M
    BY NewestIsTo, MembersAre DEF Found, Discoverable
  <1> HIDE DEF M
  <1>4. \A g \in M : /\ g.num \in Nat /\ Moment(g) \in Nat /\ g.num <= Moment(g)
                     /\ \A k \in Owned(g) : k \in g.num .. Moment(g)
    <2> TAKE g \in M
    <2>1. FileOK(g, n, i) /\ n \in Nat
      BY <1>1 DEF Shape
    <2> QED BY <2>1, MomentIs
  <1>5. f.num - 1 \in b.num .. t.num
    <2>1. f \in M /\ b.num < f.num
      BY DEF M
    <2> QED BY <1>2, <1>3, <1>4, <2>1
  <1>6. f.num - 1 \in Needed(M)
    BY <1>3, <1>5 DEF Needed
  <1>7. Missing(M) = {}
    BY DEF Found, Discoverable, M
  <1>8. PICK g \in M : f.num - 1 \in Owned(g)
    BY <1>6, <1>7 DEF Missing
  <1>9. f \in M /\ f.num - 1 <= Moment(g) /\ g.num <= f.num - 1
    BY <1>4, <1>8 DEF M
  <1>10. Moment(g) < f.num
    <2>1. g.num < f.num
      BY <1>4, <1>9
    <2> QED BY <1>1, <1>9, <2>1, OneAfterTheOther
  <1>11. b.num <= g.num
    <2> SUFFICES ASSUME g.num < b.num PROVE FALSE
      BY <1>2, <1>4
    <2>1. Moment(g) < b.num
      BY <1>1, <1>2, OneAfterTheOther
    <2> QED BY <1>2, <1>4, <1>5, <1>9, <2>1
  <1> QED BY <1>4, <1>9, <1>10, <1>11 DEF M

\* The disk did not change at p with file f.
Unchanged(f, p, im) == im[Moment(f)][p] = im[f.num - 1][p]

\* Nor did it from one member to a later one, if it did not with any between them.
LEMMA ChainUnchanged ==
  ASSUME NEW D, NEW n, NEW i, NEW t, Found(D, n, i, t), NEW im, NEW p,
         NEW w \in Members(D, t), Base(Members(D, t)).num <= w.num,
         \A f \in Members(D, t) : w.num < f.num => Unchanged(f, p, im)
  PROVE  \A f \in Members(D, t) : w.num <= f.num => im[Moment(f)][p] = im[Moment(w)][p]
  <1> DEFINE M   == Members(D, t)
             Bad == {f \in M : w.num <= f.num /\ im[Moment(f)][p] # im[Moment(w)][p]}
             S   == {f.num : f \in Bad}
  <1> SUFFICES ASSUME Bad # {} PROVE FALSE
    OBVIOUS
  <1>1. OneOwnerEach(M) /\ Shape(M, n, i) /\ WellFormed(M, n, Positions, EntrySet)
    BY MembersAre DEF Found, Discoverable
  <1>2. \A f \in M : f.num \in Nat /\ Moment(f) \in Nat /\ f.num <= Moment(f)
    <2> TAKE f \in M
    <2>1. FileOK(f, n, i) /\ n \in Nat
      BY <1>1 DEF Shape
    <2> QED BY <2>1, MomentIs
  <1>3. PICK f \in Bad : \A g \in Bad : f.num <= g.num
    <2>1. S \in SUBSET Nat /\ S # {}
      BY <1>2
    <2>2. PICK k \in S : \A l \in S : k <= l
      <3> HIDE DEF S
      <3> QED BY <2>1, LeastNatural
    <2> QED BY <2>2
  <1>4. Base(M).num \in Nat
    BY <1>1, <1>2, BaseIsNewestFull
  <1>5. w.num < f.num
    <2>1. f.num # w.num
      BY <1>1, <1>3, OneAfterTheOther
    <2> QED BY <1>2, <1>3, <2>1
  <1>6. PICK g \in M : Moment(g) = f.num - 1 /\ g.num < f.num
    <2>1. Base(M).num < f.num /\ f \in M
      BY <1>2, <1>3, <1>4, <1>5
    <2> QED BY <2>1, StepDown
  <1>7. im[Moment(f)][p] = im[Moment(g)][p]
    BY <1>3, <1>5, <1>6 DEF Unchanged
  <1>8. w.num <= g.num
    <2> SUFFICES ASSUME g.num < w.num PROVE FALSE
      BY <1>2
    <2>1. Moment(g) < w.num
      BY <1>1, OneAfterTheOther
    <2> QED BY <1>2, <1>3, <1>5, <1>6, <2>1
  <1>9. g \notin Bad
    BY <1>2, <1>3, <1>6
  <1> QED BY <1>3, <1>6, <1>7, <1>8, <1>9

-----------------------------------------------------------------------------
(* What a set that can be discovered gives back.                           *)

\* Every entry of a member is of some member.
LEMMA EntryHasOwner ==
  ASSUME NEW D, NEW n, NEW i, NEW t, Shape(D, n, i), HasFull(D), t \in D,
         OneOwnerEach(Members(D, t)), EntriesOK(D, n),
         NEW f \in Members(D, t), NEW e \in EntriesOf(f), ~IsHole(e)
  PROVE  \E h \in Members(D, t) : h.num = e.num
  <1> DEFINE M == Members(D, t)
  <1>1. f \in M /\ f \in D /\ HasFull(M)
    BY MembersAre
  <1>2. EntryOK(f, e, D)
    BY <1>1 DEF EntriesOK
  <1>3. CASE e.num = f.num
    BY <1>1, <1>3
  <1>4. CASE \E c \in D : c.num = e.num /\ c.inc = f.inc
    <2>1. PICK c \in D : c.num = e.num /\ c.inc = f.inc
      BY <1>4
    <2>2. c \in M
      BY <1>1, <2>1 DEF Members
    <2> QED BY <2>1, <2>2
  <1>5. CASE e.num = 0
    BY <1>1, <1>5 DEF HasFull
  <1> QED BY <1>2, <1>3, <1>4, <1>5 DEF EntryOK

\* In the set M, entry e gives v.
Good(M, e, v) ==
  IF IsHole(e) THEN v = Nothing ELSE \E h \in M : h.num = e.num /\ Holds(h, e, v)

\* What an entry gives whatever file it is read with, it gives in the set of t.
LEMMA EntryIsGood ==
  ASSUME NEW D, NEW n, NEW i, NEW t, Shape(D, n, i), HasFull(D), t \in D,
         OneOwnerEach(Members(D, t)), EntriesOK(D, n),
         NEW f \in Members(D, t), NEW e \in EntriesOf(f), NEW v, Gives(f, e, v, D)
  PROVE  Good(Members(D, t), e, v)
  <1> DEFINE M == Members(D, t)
  <1>1. CASE IsHole(e)
    BY <1>1 DEF Gives, Good
  <1>2. CASE ~IsHole(e)
    <2>1. PICK h \in M : h.num = e.num
      BY <1>2, EntryHasOwner
    <2>2. h \in D /\ (h = f \/ Owned(f) \cap Owned(h) = {})
      BY DEF Members, OneOwnerEach
    <2> QED BY <1>2, <2>1, <2>2 DEF Gives, Good
  <1> QED BY <1>1, <1>2

\* Such an entry is decoded to v, and its bytes are v with the settings of their file.
LEMMA GoodIsDecoded ==
  ASSUME NEW M, OneOwnerEach(M), NEW e, NEW v, Good(M, e, v)
  PROVE  /\ Decoded(M, e) = v
         /\ ~IsHole(e) => /\ v \in Nat \X Nat
                          /\ \E h \in M : h.num = e.num /\ Stored(M, e) = Append(v, h.settings)
  <1>1. CASE IsHole(e)
    BY <1>1 DEF Good, Decoded
  <1>2. CASE ~IsHole(e)
    <2>1. PICK h \in M : h.num = e.num /\ Holds(h, e, v)
      BY <1>2 DEF Good
    <2>2. Owner(M, e.num) = h
      <3>1. e.num \in Owned(h)
        BY <2>1 DEF Owned
      <3> QED BY <3>1, OwnerIsIt
    <2>3. Stored(M, e) = Append(v, h.settings) /\ v \in Nat \X Nat
      BY <2>1, <2>2 DEF Stored, Holds
    <2>4. PICK a \in Nat, b \in Nat : v = <<a, b>>
      BY <2>3
    <2> DEFINE bytes == Append(v, h.settings)
    <2>5. Len(bytes) = 3 /\ bytes[3] = h.settings /\ SubSeq(bytes, 1, 2) = v
      <3> DEFINE X == Nat \cup {h.settings}
      <3>1. v \in Seq(X) /\ Len(v) = 2 /\ v = [k \in 1 .. 2 |-> v[k]]
        BY <2>4
      <3>2. /\ bytes \in Seq(X) /\ Len(bytes) = 3 /\ bytes[3] = h.settings
            /\ \A k \in 1 .. 2 : bytes[k] = v[k]
        <4> h.settings \in X
          OBVIOUS
        <4> HIDE DEF X
        <4> QED BY <3>1
      <3> HIDE DEF bytes, X
      <3>3. SubSeq(bytes, 1, 2) = [k \in 1 .. 2 |-> bytes[k]]
        BY <3>2
      <3> QED BY <3>1, <3>2, <3>3
    <2> HIDE DEF bytes
    <2>6. Decoded(M, e) = v
      BY <1>2, <2>2, <2>3, <2>5 DEF Decoded, bytes
    <2> QED BY <2>1, <2>3, <2>6
  <1> QED BY <1>1, <1>2

\* The disk did not change at p with a later member that does not name p.
LEMMA UnnamedIsUnchanged ==
  ASSUME NEW D, NEW n \in Nat, NEW i, NEW im, NEW f \in D, FileOK(f, n, i), Values(f, D, im),
         NEW p \in Places, ~IsFullIndex(f), f.split \/ p \notin DOMAIN f.blocks
  PROVE  Unchanged(f, p, im)
  <1>1. CASE f.split
    <2>1. Owned(f) = {f.num}
      BY <1>1 DEF FileOK, Owned
    <2>2. Moment(f) = f.num
      BY <2>1, MomentIs
    <2> QED BY <1>1, <2>2 DEF Values, Unchanged
  <1>2. CASE ~f.split
    BY <1>2, Kinds3 DEF Values, Unchanged
  <1> QED BY <1>1, <1>2

\* The last writer of a position gives back the disk of the moment of t.
LEMMA LastWriterIsGood ==
  ASSUME NEW D, NEW n, NEW i, NEW t, Found(D, n, i, t), EntriesOK(D, n),
         NEW im, \A f \in D : Values(f, D, im), NEW p \in Places
  PROVE  Good(Members(D, t), LastWriter(Members(D, t), p), im[Moment(t)][p])
  <1> DEFINE M == Members(D, t)
             b == Base(M)
             V == {f \in M : f.num >= b.num /\ ~f.split /\ p \in DOMAIN f.blocks}
  <1>1. /\ OneOwnerEach(M) /\ Shape(M, n, i) /\ WellFormed(M, n, Positions, EntrySet)
        /\ M \subseteq D /\ t \in M /\ HasFull(D) /\ Shape(D, n, i) /\ t \in D
    BY MembersAre DEF Found, Discoverable
  <1>2. b \in M /\ IsFullIndex(b) /\ \A f \in M : IsFullIndex(f) => f.num <= b.num
    BY <1>1, BaseIsNewestFull
  <1>3. \A f \in M : f.num <= t.num
    BY NewestIsTo
  <1>4. \A f \in M : f.num \in Nat /\ FileOK(f, n, i) /\ n \in Nat
    BY <1>1, MomentIs DEF Shape
  <1>5. LastWriter(M, p) = IF V = {} THEN Hole ELSE Newest(V).blocks[p]
    BY DEF LastWriter
  <1>6. ASSUME NEW f \in M, b.num < f.num, f \notin V PROVE Unchanged(f, p, im)
    <2>1. ~IsFullIndex(f) /\ (f.split \/ p \notin DOMAIN f.blocks)
      BY <1>2, <1>4, <1>6
    <2> QED BY <1>1, <1>4, <2>1, UnnamedIsUnchanged
  <1>7. CASE V = {}
    <2>1. \A f \in M : b.num < f.num => Unchanged(f, p, im)
      BY <1>6, <1>7
    <2>2. im[Moment(t)][p] = im[Moment(b)][p]
      <3>1. b.num <= t.num /\ b.num <= b.num
        BY <1>2, <1>3, <1>4
      <3> QED BY <1>1, <1>2, <2>1, <3>1, ChainUnchanged
    <2>3. p \notin DOMAIN b.blocks
      BY <1>2, <1>4, <1>7 DEF IsFullIndex
    <2>4. im[Moment(b)][p] = Nothing
      BY <1>1, <1>2, <2>3 DEF Values
    <2>5. IsHole(LastWriter(M, p))
      BY <1>5, <1>7 DEF Hole, IsHole
    <2> QED BY <2>2, <2>4, <2>5 DEF Good
  <1>8. CASE V # {}
    <2> DEFINE w == Newest(V)
               e == w.blocks[p]
    <2>1. w \in V /\ \A f \in V : f.num <= w.num
      <3>1. n \in Nat /\ \A f \in V : f.num \in 0 .. n
        BY <1>1 DEF WellFormed, Numbered
      <3> HIDE DEF V
      <3> QED BY <1>8, <3>1, NewestIsLast
    <2>2. w \in M /\ b.num <= w.num /\ p \in DOMAIN w.blocks
      BY <1>2, <1>4, <2>1
    <2>3. ASSUME NEW f \in M, w.num < f.num PROVE Unchanged(f, p, im)
      <3>1. b.num < f.num /\ ~(f.num <= w.num)
        BY <1>2, <1>4, <2>2, <2>3
      <3> QED BY <1>6, <2>1, <3>1
    <2> HIDE DEF w
    <2>4. im[Moment(t)][p] = im[Moment(w)][p]
      BY <1>1, <1>3, <2>2, <2>3, ChainUnchanged
    <2>5. e \in EntriesOf(w)
      BY <2>2 DEF EntriesOf, Range
    <2>6. Gives(w, e, im[Moment(t)][p], D)
      BY <1>1, <2>2, <2>4 DEF Values
    <2>7. Good(M, e, im[Moment(t)][p])
      <3> HIDE DEF e
      <3> QED BY <1>1, <2>2, <2>5, <2>6, EntryIsGood
    <2> QED BY <1>5, <1>8, <2>7 DEF w
  <1> QED BY <1>7, <1>8

\* So do the reserved sectors.
LEMMA ReservedIsGood ==
  ASSUME NEW D, NEW n, NEW i, NEW t, Found(D, n, i, t), EntriesOK(D, n),
         NEW im, \A f \in D : Values(f, D, im)
  PROVE  /\ t.reserved[1] \in EntriesOf(t)
         /\ Good(Members(D, t), t.reserved[1], im[Moment(t)][ReservedAt])
  <1>1. ~t.split /\ t \in D /\ t \in Members(D, t)
    BY NewestIsTo, MembersAre DEF Found, Discoverable
  <1>2. t.reserved[1] \in EntriesOf(t)
    BY <1>1 DEF Found, Shape, FileOK, EntriesOf, Range
  <1>3. Gives(t, t.reserved[1], im[Moment(t)][ReservedAt], D)
    BY <1>1 DEF Values
  <1> QED BY <1>1, <1>2, <1>3, EntryIsGood DEF Found, Discoverable

\* A restore of t writes the disk of its moment.
LEMMA RestoreIsImage ==
  ASSUME NEW D, NEW n, NEW i, NEW t, Found(D, n, i, t), EntriesOK(D, n),
         NEW im, \A f \in D : Values(f, D, im),
         NEW W, im[Moment(t)] \in [Spots -> W]
  PROVE  Restore(Members(D, t)) = im[Moment(t)]
  <1> DEFINE M == Members(D, t)
             flat == Flatten(M)
             Written1(p) == IF p = ReservedAt THEN Decoded(M, Newest(M).reserved[1])
                            ELSE IF p \in DOMAIN flat THEN Decoded(M, flat[p]) ELSE Nothing
  <1>1. OneOwnerEach(M) /\ WellFormed(M, n, Positions, EntrySet) /\ Newest(M) = t
    BY MembersAre, NewestIsTo DEF Found, Discoverable
  <1>2. ASSUME NEW p \in Places PROVE Written1(p) = im[Moment(t)][p]
    <2>1. p # ReservedAt /\ p \in 0 .. Positions - 1
      BY SizeAssumption DEF Places, ReservedAt
    <2>2. At(flat, p) = LastWriter(M, p)
      BY <1>1, <2>1, FlattenIs
    <2>3. Good(M, At(flat, p), im[Moment(t)][p])
      BY <2>2, LastWriterIsGood
    <2>4. CASE p \in DOMAIN flat
      <3>1. At(flat, p) = flat[p]
        BY <2>4 DEF At
      <3>2. Decoded(M, flat[p]) = im[Moment(t)][p]
        BY <1>1, <2>3, <3>1, GoodIsDecoded
      <3> QED BY <2>1, <2>4, <3>2
    <2>5. CASE p \notin DOMAIN flat
      <3>1. At(flat, p) = Hole /\ IsHole(Hole)
        BY <2>5 DEF At, Hole, IsHole
      <3> QED BY <2>1, <2>3, <2>5, <3>1 DEF Good
    <2> QED BY <2>4, <2>5
  <1>3. Written1(ReservedAt) = im[Moment(t)][ReservedAt]
    BY <1>1, ReservedIsGood, GoodIsDecoded
  <1>4. Restore(M) = [p \in Spots |-> Written1(p)]
    BY DEF Restore, Spots
  <1> HIDE DEF Written1
  <1>5. \A p \in Spots : Written1(p) = im[Moment(t)][p]
    BY <1>2, <1>3 DEF Spots
  <1> QED BY <1>4, <1>5

-----------------------------------------------------------------------------
(* Removing files.                                                         *)

\* What is true of a file stays true when others go.
LEMMA ValuesOfPart ==
  ASSUME NEW D, NEW P \in SUBSET D, NEW f, NEW im, Values(f, D, im)
  PROVE  Values(f, P, im)
  <1>1. \A e, v : Gives(f, e, v, D) => Gives(f, e, v, P)
    BY DEF Gives
  <1> QED BY <1>1 DEF Values

\* A file whose numbers another one has may go: nothing is missing then.
LEMMA RemoveCovered ==
  ASSUME NEW D, NEW n, NEW i, Shape(D, n, i), HasFull(D), EntriesOK(D, n), NEW gap \in BOOLEAN,
         Intervals(D, gap), ~gap => Accounted(D, n),
         NEW f \in D, NEW o \in D, o # f, Owned(f) \subseteq Owned(o)
  PROVE  /\ ~f.split
         /\ Shape(D \ {f}, n, i) /\ HasFull(D \ {f}) /\ EntriesOK(D \ {f}, n)
         /\ Intervals(D \ {f}, gap) /\ (~gap => Accounted(D \ {f}, n))
  <1> DEFINE P == D \ {f}
  <1>1. \A g \in D : /\ FileOK(g, n, i) /\ n \in Nat /\ g.num \in Nat /\ g.num \in Owned(g)
                     /\ Moment(g) \in Nat /\ \A k \in Owned(g) : k \in g.num .. Moment(g)
    <2> TAKE g \in D
    <2>1. FileOK(g, n, i) /\ n \in Nat
      BY DEF Shape
    <2> QED BY <2>1, MomentIs
  <1>2. f.num \in Owned(o) /\ o \in P
    BY <1>1
  <1>3. ~f.split
    BY <1>2 DEF Shape, SplitAlone
  <1>4. Shape(P, n, i)
    BY PartShape
  <1>5. HasFull(P)
    <2>1. PICK h \in D : h.num = 0
      BY DEF HasFull
    <2>2. h = f => o.num = 0
      BY <1>1, <1>2, <2>1
    <2> QED BY <1>2, <2>1, <2>2 DEF HasFull
  <1>6. EntriesOK(P, n)
    <2>1. ASSUME NEW g \in P, NEW e, EntryOK(g, e, D) PROVE EntryOK(g, e, P)
      BY <1>3, <2>1 DEF EntryOK
    <2> QED BY <2>1 DEF EntriesOK
  <1>7. Intervals(P, gap)
    BY DEF Intervals
  <1>8. ASSUME ~gap PROVE Accounted(P, n)
    <2> SUFFICES ASSUME NEW k \in 0 .. n, \A g \in P : k \notin Owned(g),
                        NEW top \in {t.num : t \in P} \cup {n + 1}, k < top
                 PROVE  \E d \in P : IsFullIndex(d) /\ k < d.num /\ d.num <= top
      BY DEF Accounted
    <2>1. \A g \in D : k \notin Owned(g)
      BY <1>2
    <2>2. top \in {t.num : t \in D} \cup {n + 1}
      OBVIOUS
    <2>3. PICK d \in D : IsFullIndex(d) /\ k < d.num /\ d.num <= top
      BY <1>8, <2>1, <2>2 DEF Accounted
    <2>4. d # f
      <3> SUFFICES ASSUME d = f PROVE FALSE
        OBVIOUS
      <3>1. o.num = 0
        BY <1>2, <2>3 DEF Shape, FullsOver
      <3>2. 0 .. Moment(o) \subseteq Owned(o)
        BY <1>8, <3>1 DEF Intervals
      <3>3. k \in 0 .. Moment(o)
        BY <1>1, <1>2, <2>3
      <3> QED BY <2>1, <3>2, <3>3
    <2> QED BY <2>3, <2>4
  <1> QED BY <1>3, <1>4, <1>5, <1>6, <1>7, <1>8

\* So may what a Differential made unnecessary.
LEMMA RemoveThinned ==
  ASSUME NEW D, NEW n, NEW i, Shape(D, n, i), HasFull(D), EntriesOK(D, n), NEW gap \in BOOLEAN,
         Intervals(D, gap), ~gap => Accounted(D, n), OneOwnerEach(D),
         NEW f \in D, NEW d \in D, f.delta, IsFullIndex(d), f.inc < d.inc,
         \A g \in D : f.inc < g.inc /\ g.inc < d.inc => IsFullIndex(g),
         NEW P, P = {g \in D : g.inc # f.inc}
  PROVE  /\ Shape(P, n, i) /\ HasFull(P) /\ EntriesOK(P, n)
         /\ Intervals(P, gap) /\ (~gap => Accounted(P, n))
  <1>1. \A g \in D : /\ FileOK(g, n, i) /\ n \in Nat /\ g.num \in Nat /\ g.num \in Owned(g)
                     /\ Moment(g) \in Nat /\ \A k \in Owned(g) : k \in g.num .. Moment(g)
                     /\ g.inc \in Int /\ Moment(g) <= n
    <2> TAKE g \in D
    <2>1. FileOK(g, n, i) /\ n \in Nat /\ i \in Nat
      BY DEF Shape
    <2> QED BY <2>1, MomentIs DEF FileOK
  <1>2. P \subseteq D /\ Shape(P, n, i)
    BY PartShape
  <1>3. \A g, h \in D : /\ g.num < h.num => g.inc <= h.inc
                        /\ g.num < h.num /\ g.inc = h.inc => h.split
                        /\ g.num = h.num => g = h
    BY OneAfterTheOther DEF Shape, Order
  <1>4. HasFull(P)
    <2>1. PICK h \in D : h.num = 0
      BY DEF HasFull
    <2>2. f.num # 0 /\ ~f.split
      BY <1>1, Kinds3
    <2>3. h.inc # f.inc
      BY <1>1, <1>3, <2>1, <2>2
    <2> QED BY <2>1, <2>3 DEF HasFull
  <1>5. EntriesOK(P, n)
    <2>1. ASSUME NEW g \in P, NEW e, EntryOK(g, e, D) PROVE EntryOK(g, e, P)
      BY <2>1 DEF EntryOK
    <2> QED BY <1>2, <2>1 DEF EntriesOK
  <1>6. Intervals(P, gap)
    BY <1>2 DEF Intervals
  <1>7. \A g \in D : IsFullIndex(g) => g \in P
    <2> SUFFICES ASSUME NEW g \in D, IsFullIndex(g), g.inc = f.inc PROVE FALSE
      OBVIOUS
    <2>1. ~f.split /\ ~g.split /\ g # f
      BY <1>1, Kinds3
    <2> QED BY <1>1, <1>3, <2>1
  <1>8. ASSUME ~gap PROVE Accounted(P, n)
    <2> SUFFICES ASSUME NEW k \in 0 .. n, \A g \in P : k \notin Owned(g),
                        NEW top \in {t.num : t \in P} \cup {n + 1}, k < top
                 PROVE  \E u \in P : IsFullIndex(u) /\ k < u.num /\ u.num <= top
      BY DEF Accounted
    <2>1. CASE \A g \in D : k \notin Owned(g)
      <3>1. top \in {t.num : t \in D} \cup {n + 1}
        BY <1>2
      <3>2. PICK u \in D : IsFullIndex(u) /\ k < u.num /\ u.num <= top
        BY <1>8, <2>1, <3>1 DEF Accounted
      <3> QED BY <1>7, <3>2
    <2>2. CASE \E g \in D : k \in Owned(g)
      <3>1. PICK g \in D : k \in Owned(g) /\ g.inc = f.inc
        BY <2>2
      <3>2. k < d.num
        <4>1. g.num < d.num
          BY <1>1, <1>3, <3>1
        <4>2. Moment(g) < d.num
          BY <4>1, OneAfterTheOther
        <4> QED BY <1>1, <3>1, <4>2
      <3>3. CASE top = n + 1
        <4>1. d.num <= top
          BY <1>1, <3>3
        <4> QED BY <1>7, <3>2, <4>1
      <3>4. CASE top \in {t.num : t \in P}
        <4>1. PICK t \in P : top = t.num
          BY <3>4
        <4>2. f.inc < t.inc
          <5>1. g.num < t.num
            BY <1>1, <1>2, <3>1, <4>1
          <5> QED BY <1>1, <1>2, <1>3, <3>1, <4>1, <5>1
        <4>3. CASE t.inc < d.inc
          <5>1. IsFullIndex(t) /\ k < t.num /\ t.num <= top
            BY <1>1, <1>2, <4>1, <4>2, <4>3
          <5> QED BY <4>1, <5>1
        <4>4. CASE ~(t.inc < d.inc)
          <5>1. ~(t.num < d.num)
            <6>1. ~d.split
              BY <1>1, Kinds3
            <6> QED BY <1>1, <1>2, <1>3, <4>4, <6>1
          <5>2. d.num <= top
            BY <1>1, <1>2, <4>1, <5>1
          <5> QED BY <1>7, <3>2, <5>2
        <4> QED BY <4>3, <4>4
      <3> QED BY <3>3, <3>4
    <2> QED BY <2>1, <2>2
  <1> QED BY <1>2, <1>4, <1>5, <1>6, <1>8

-----------------------------------------------------------------------------
(* A merge.                                                                *)

\* The program accepts the range.
Merging(D, n, i, from, to) ==
  /\ Found(D, n, i, to) /\ from \in Members(D, to)
  /\ Mergeable(Members(D, to), from, to)

\* What is in the range.
RangeFacts(M, R, A, from, to) ==
  /\ from.num < to.num /\ from \in R /\ to \in R /\ R \subseteq M
  /\ \A g \in R : ~g.split /\ Moment(g) <= Moment(to) /\ Owned(g) \subseteq A
  /\ \A g \in M : g \in R <=> from.num <= g.num
  /\ IsFullIndex(from) => from.num = 0 /\ R = M
  /\ ~IsFullIndex(from) => /\ from.num # 0 /\ Base(M).num < from.num
                           /\ \A g \in R : g.delta /\ ~IsFullIndex(g)
  /\ A \subseteq from.num .. Moment(to) /\ from.num \in A /\ to.num \in A /\ Moment(to) \in A
  /\ \A k \in A : \E g \in R : k \in Owned(g)

\* What the members of an accepted range are, and which numbers they claim.
LEMMA RangeIs ==
  ASSUME NEW D, NEW n, NEW i, NEW from, NEW to, Merging(D, n, i, from, to)
  PROVE  RangeFacts(Members(D, to), InRange(Members(D, to), from, to),
                    Absorbed(Members(D, to), from, to), from, to)
  <1> DEFINE M == Members(D, to)
             R == InRange(M, from, to)
             A == Absorbed(M, from, to)
  <1>1. /\ OneOwnerEach(M) /\ Shape(M, n, i) /\ WellFormed(M, n, Positions, EntrySet)
        /\ from \in M /\ to \in M /\ Found(D, n, i, to)
    BY MembersAre DEF Merging, Found, Discoverable
  <1>2. /\ from.inc <= to.inc /\ ~from.diff /\ ~to.diff /\ from.num # to.num
        /\ \A f \in R : ~f.split
        /\ IsFullIndex(from) \/ \A f \in R : ~IsFullIndex(f)
    BY DEF Merging, Mergeable, PairRules, NoSplit, NoFullInside
  <1>3. \A g \in M : g.num <= to.num
    BY <1>1, NewestIsTo
  <1>4. \A g \in M : /\ g.num \in Nat /\ g.inc \in Nat
                     /\ Moment(g) \in Nat /\ g.num <= Moment(g)
                     /\ Moment(g) \in Owned(g) /\ g.num \in Owned(g) /\ FileOK(g, n, i)
                     /\ \A k \in Owned(g) : k \in g.num .. Moment(g)
    <2> TAKE g \in M
    <2>1. FileOK(g, n, i) /\ n \in Nat /\ i \in Nat
      BY <1>1 DEF Shape
    <2> QED BY <2>1, MomentIs DEF FileOK
  <1>5. \A g, h \in M : /\ g.num < h.num => g.inc <= h.inc
                        /\ g.num < h.num /\ g.inc = h.inc => h.split
                        /\ g.num = h.num => g.inc = h.inc
    BY <1>1 DEF Shape, Order
  <1>6. \A g \in M : g \in R <=> from.inc <= g.inc
    BY DEF InRange, Members
  <1>7. from \in R /\ to \in R /\ R \subseteq M
    BY <1>1, <1>2, <1>4, <1>6 DEF InRange
  <1>8. \A g \in M : g \in R <=> from.num <= g.num
    <2> TAKE g \in M
    <2>1. ASSUME from.num <= g.num PROVE g \in R
      BY <1>1, <1>4, <1>5, <1>6, <2>1
    <2>2. ASSUME g \in R, ~(from.num <= g.num) PROVE FALSE
      <3>1. g.num < from.num /\ from.inc <= g.inc
        BY <1>1, <1>4, <1>6, <2>2
      <3> QED BY <1>1, <1>2, <1>4, <1>5, <1>7, <3>1
    <2> QED BY <2>1, <2>2
  <1>9. \A g \in R : Moment(g) <= Moment(to) /\ Owned(g) \subseteq A
    <2> TAKE g \in R
    <2>1. g.num < to.num => Moment(g) < to.num
      BY <1>1, <1>7, OneAfterTheOther
    <2>2. g.num = to.num => g = to
      BY <1>1, <1>7, OneAfterTheOther
    <2> HIDE DEF R
    <2>3. Moment(g) <= Moment(to)
      BY <1>1, <1>3, <1>4, <1>7, <2>1, <2>2
    <2> QED BY <2>3 DEF Absorbed, R
  <1>10. \A k \in A : \E g \in R : k \in Owned(g)
    BY DEF Absorbed
  <1> HIDE DEF M, R, A
  <1>11. A \subseteq from.num .. Moment(to)
    <2> SUFFICES ASSUME NEW k \in A PROVE k \in from.num .. Moment(to)
      OBVIOUS
    <2>1. PICK g \in R : k \in Owned(g)
      BY <1>10
    <2>2. g \in M /\ from.num <= g.num /\ Moment(g) <= Moment(to) /\ k \in g.num .. Moment(g)
      BY <1>4, <1>7, <1>8, <1>9, <2>1
    <2> QED BY <1>1, <1>4, <2>2
  <1>12. from.num \in A /\ to.num \in A /\ Moment(to) \in A
    BY <1>1, <1>4, <1>7, <1>9
  <1>13. IsFullIndex(from) => from.num = 0 /\ R = M
    <2> HAVE IsFullIndex(from)
    <2>1. from.num = 0
      BY <1>1, <1>2, <1>4 DEF FileOK
    <2>2. \A g \in M : g \in R
      BY <1>4, <1>8, <2>1
    <2> QED BY <1>7, <2>1, <2>2
  <1>14. ASSUME ~IsFullIndex(from)
         PROVE  /\ from.num # 0 /\ Base(M).num < from.num
                /\ \A g \in R : g.delta /\ ~IsFullIndex(g)
    <2>1. from.num # 0
      BY <1>1, <1>4, <1>14 DEF FileOK
    <2>2. \A g \in R : g.delta /\ ~IsFullIndex(g)
      BY <1>2, <1>4, <1>7, <1>14 DEF IsFullIndex, FileOK
    <2>3. Base(M) \in M /\ IsFullIndex(Base(M))
      BY <1>1, BaseIsNewestFull
    <2>4. Base(M).num < from.num
      BY <1>1, <1>4, <1>8, <2>2, <2>3
    <2> QED BY <2>1, <2>2, <2>4
  <1>15. from.num < to.num
    BY <1>1, <1>2, <1>3, <1>4
  <1> QED BY <1>2, <1>7, <1>8, <1>9, <1>10, <1>11, <1>12, <1>13, <1>14, <1>15
          DEF RangeFacts, M, R, A

\* The header of the output.
HeaderFacts(o, A, from, to) ==
  /\ o.num = from.num /\ o.inc = from.inc /\ Owned(o) = A /\ Moment(o) = Moment(to)
  /\ (o.delta <=> ~IsFullIndex(from)) /\ o.delta \in BOOLEAN
  /\ o.split = FALSE /\ o.diff = FALSE /\ o.settings = to.settings
  /\ IsFullIndex(o) <=> IsFullIndex(from)

\* The output answers for the range, from the number of From to the moment of To.
LEMMA OutputIs ==
  ASSUME NEW D, NEW n, NEW i, NEW from, NEW to, Merging(D, n, i, from, to),
         NEW M, M = Members(D, to), NEW o, o = Output(M, from, to)
  PROVE  HeaderFacts(o, Absorbed(M, from, to), from, to)
  <1> DEFINE A == Absorbed(M, from, to)
             R == InRange(M, from, to)
  <1>1. RangeFacts(M, R, A, from, to)
    BY RangeIs
  <1>2. /\ o.num = from.num /\ o.inc = from.inc /\ o.merged = A \ {from.num}
        /\ o.delta = ~IsFullIndex(from) /\ o.split = FALSE
        /\ o.diff = IF IsFullIndex(from) THEN FALSE ELSE to.diff
        /\ o.settings = to.settings
    BY DEF Output
  <1>3. ~to.diff /\ to.diff \in BOOLEAN
    BY DEF Merging, Mergeable, PairRules, Found, Shape, FileOK
  <1>4. Owned(o) = A
    BY <1>1, <1>2 DEF Owned, RangeFacts
  <1>5. Moment(o) = Moment(to)
    <2>1. Moment(to) \in A /\ \A k \in A : k <= Moment(to)
      BY <1>1 DEF RangeFacts
    <2>2. A \subseteq Int
      <3>1. from.num \in Int /\ Moment(to) \in Int /\ A \subseteq from.num .. Moment(to)
        <4>1. Shape(M, n, i) /\ from \in M /\ to \in M
          BY MembersAre DEF Merging, Found, Discoverable
        <4>2. n \in Nat /\ FileOK(from, n, i) /\ FileOK(to, n, i)
          BY <4>1 DEF Shape
        <4>3. from.num \in Int
          BY <4>2 DEF FileOK
        <4>4. Moment(to) \in Int
          BY <4>2, MomentIs
        <4> QED BY <1>1, <4>3, <4>4 DEF RangeFacts
      <3> QED BY <3>1
    <2> HIDE DEF A
    <2>3. Max(A) \in A /\ \A k \in A : k <= Max(A)
      BY <2>1, <2>2, MaxIsMember
    <2>4. Max(A) = Moment(to)
      <3>1. Max(A) \in Int /\ Moment(to) \in Int
        BY <2>1, <2>2, <2>3
      <3>2. Max(A) <= Moment(to) /\ Moment(to) <= Max(A)
        BY <2>1, <2>3
      <3> QED BY <3>1, <3>2
    <2> QED BY <1>4, <2>4 DEF Moment
  <1>6. IsFullIndex(o) <=> IsFullIndex(from)
    BY <1>2 DEF IsFullIndex
  <1>7. o.diff = FALSE
    BY <1>2, <1>3
  <1>8. (o.delta <=> ~IsFullIndex(from)) /\ o.delta \in BOOLEAN
    BY <1>2
  <1> QED BY <1>2, <1>4, <1>5, <1>6, <1>7, <1>8 DEF HeaderFacts

\* The plan: each position has its last writer's entry, which moves unless it is a hole.
PlanFacts(M, R, A, from, blocks) ==
  /\ blocks \in BlockMaps(Positions, EntrySet)
  /\ \A p \in DOMAIN blocks :
       /\ p \in Places /\ blocks[p] = LastWriter(M, p)
       /\ IsHole(blocks[p]) \/ Moves(blocks[p], A)
       /\ IsHole(blocks[p]) \/ \E f \in M : blocks[p] \in EntriesOf(f)
  /\ IsFullIndex(from) => \A p \in Places \ DOMAIN blocks : LastWriter(M, p) = Hole
  /\ ~IsFullIndex(from) =>
       \A p \in Places \ DOMAIN blocks : \A g \in R : p \notin DOMAIN g.blocks

\* The plan is that for every range the program accepts (plan.rs, build).
LEMMA PlanIs ==
  ASSUME NEW D, NEW n, NEW i, NEW from, NEW to, Merging(D, n, i, from, to), EntriesOK(D, n),
         NEW M, M = Members(D, to)
  PROVE  PlanFacts(M, InRange(M, from, to), Absorbed(M, from, to), from,
                   PlannedBlocks(M, from, to))
  <1> DEFINE R == InRange(M, from, to)
             A == Absorbed(M, from, to)
             C == ChangedPositions(M, A)
             flat == Flatten(M)
             blocks == PlannedBlocks(M, from, to)
  <1>1. RangeFacts(M, R, A, from, to)
    BY RangeIs
  <1>2. /\ OneOwnerEach(M) /\ Shape(M, n, i) /\ WellFormed(M, n, Positions, EntrySet)
        /\ M \subseteq D /\ Shape(D, n, i) /\ HasFull(D) /\ to \in D
    BY MembersAre DEF Merging, Found, Discoverable
  <1>3. /\ flat \in BlockMaps(Positions, EntrySet)
        /\ \A p \in Places : At(flat, p) = LastWriter(M, p)
    BY <1>2, FlattenIs DEF Places
  <1>4. \A g \in M : /\ g.num \in Nat /\ g.num \in Owned(g) /\ DOMAIN g.blocks \subseteq Places
                     /\ FileOK(g, n, i)
    <2> TAKE g \in M
    <2>1. FileOK(g, n, i) /\ n \in Nat
      BY <1>2 DEF Shape
    <2> QED BY <2>1, MomentIs DEF FileOK, BlockMaps, Places
  <1>5. \A g \in M : g.num \in A => g \in R
    <2> SUFFICES ASSUME NEW g \in M, g.num \in A PROVE g \in R
      OBVIOUS
    <2>1. PICK h \in R : g.num \in Owned(h)
      BY <1>1 DEF RangeFacts
    <2>2. h \in M
      BY <1>1 DEF RangeFacts
    <2> QED BY <1>2, <1>4, <2>1, <2>2 DEF OneOwnerEach
  <1>6. \A p : p \in C <=> \E g \in M : g.num \in A /\ g.delta /\ p \in DOMAIN g.blocks
    BY DEF ChangedPositions
  <1>7. blocks = IF IsFullIndex(from) THEN flat ELSE [at \in C |-> At(flat, at)]
    BY DEF PlannedBlocks, At
  <1> HIDE DEF R, A, C, flat, blocks
  <1>8. C \subseteq Places
    BY <1>4, <1>6
  <1>9. DOMAIN flat \subseteq Places /\ \A p \in DOMAIN flat : flat[p] \in EntrySet
    BY <1>3 DEF BlockMaps, Places
  <1>10. /\ DOMAIN blocks \subseteq Places
         /\ DOMAIN blocks = IF IsFullIndex(from) THEN DOMAIN flat ELSE C
         /\ \A p \in DOMAIN blocks : blocks[p] = At(flat, p)
    BY <1>7, <1>8, <1>9 DEF At
  <1>11. blocks \in BlockMaps(Positions, EntrySet)
    <2>1. CASE IsFullIndex(from)
      BY <1>3, <1>7, <2>1
    <2>2. CASE ~IsFullIndex(from)
      <3>1. \A p \in C : At(flat, p) \in EntrySet
        BY <1>9 DEF At, Hole, EntrySet
      <3>2. blocks \in [C -> EntrySet]
        BY <1>7, <2>2, <3>1
      <3> QED BY <1>8, <3>2 DEF BlockMaps, Places
    <2> QED BY <2>1, <2>2
  <1>12. ASSUME NEW p \in DOMAIN blocks
         PROVE  /\ p \in Places /\ blocks[p] = LastWriter(M, p)
                /\ IsHole(blocks[p]) \/ Moves(blocks[p], A)
                /\ IsHole(blocks[p]) \/ \E f \in M : blocks[p] \in EntriesOf(f)
    <2> DEFINE e == blocks[p]
    <2>1. p \in Places /\ e = LastWriter(M, p)
      BY <1>3, <1>10
    <2> SUFFICES ASSUME ~IsHole(e)
                 PROVE  Moves(e, A) /\ \E f \in M : e \in EntriesOf(f)
      BY <2>1
    <2>2. PICK w \in M : /\ Writes(M, w, p) /\ e = w.blocks[p]
                         /\ \A f \in M : Writes(M, f, p) => f.num <= w.num
      <3>1. LastWriter(M, p) # Hole
        BY <2>1 DEF IsHole, Hole
      <3> QED BY <1>2, <2>1, <3>1, LastWriterIs
    <2>3. e \in EntriesOf(w)
      BY <2>2 DEF Writes, EntriesOf, Range
    <2>4. PICK h \in M : h.num = e.num
      <3> HIDE DEF e
      <3> QED BY <1>2, <2>3, EntryHasOwner
    <2>5. e.num \in A
      <3>1. CASE IsFullIndex(from)
        <4>1. h \in R
          BY <1>1, <3>1 DEF RangeFacts
        <4> QED BY <1>1, <1>4, <2>4, <4>1 DEF RangeFacts
      <3>2. CASE ~IsFullIndex(from)
        <4>1. PICK g \in M : g.num \in A /\ g.delta /\ p \in DOMAIN g.blocks
          BY <1>6, <1>10, <3>2
        <4>2. g \in R /\ from.num <= g.num /\ Base(M).num < from.num /\ from \in M
          BY <1>1, <1>5, <3>2, <4>1 DEF RangeFacts
        <4>3. Base(M) \in M
          BY <1>2, BaseIsNewestFull
        <4>4. Writes(M, g, p)
          BY <1>4, <4>1, <4>2, <4>3 DEF Writes, FileOK
        <4>5. from.num <= w.num
          BY <1>4, <2>2, <4>2, <4>4
        <4>6. w \in R /\ ~IsFullIndex(w)
          BY <1>1, <3>2, <4>5 DEF RangeFacts
        <4>7. EntryOK(w, e, D)
          BY <1>2, <2>3 DEF EntriesOK
        <4>8. CASE e.num = w.num
          BY <1>1, <1>4, <4>6, <4>8 DEF RangeFacts
        <4>9. CASE \E c \in D : c.split /\ c.num = e.num /\ c.inc = w.inc
          <5>1. PICK c \in D : c.split /\ c.inc = w.inc
            BY <4>9
          <5>2. c \in R
            BY <1>2, <4>6, <5>1 DEF R, InRange, Members
          <5> QED BY <1>1, <5>1, <5>2 DEF RangeFacts
        <4> QED BY <4>6, <4>7, <4>8, <4>9 DEF EntryOK
      <3> QED BY <3>1, <3>2
    <2> QED BY <2>3, <2>5 DEF Moves
  <1>13. ASSUME IsFullIndex(from), NEW p \in Places \ DOMAIN blocks
         PROVE  LastWriter(M, p) = Hole
    BY <1>3, <1>10, <1>13 DEF At
  <1>14. ASSUME ~IsFullIndex(from), NEW p \in Places \ DOMAIN blocks, NEW g \in R
         PROVE  p \notin DOMAIN g.blocks
    <2>1. g \in M /\ g.delta /\ Owned(g) \subseteq A
      BY <1>1, <1>14 DEF RangeFacts
    <2> QED BY <1>4, <1>6, <1>10, <1>14, <2>1
  <1> QED BY <1>11, <1>12, <1>13, <1>14 DEF PlanFacts, R, A, blocks

-----------------------------------------------------------------------------
(* What the output of a merge holds.                                       *)

\* Entry e of the output o is what entry was of a member of M became.
MovedFrom(M, o, e, was) ==
  /\ e \in EntrySet
  /\ IF IsHole(was) THEN e = was
     ELSE /\ ~IsHole(e) /\ e.num = o.num /\ e.pos \in DOMAIN o.data
          /\ o.data[e.pos] = Stored(M, was)

\* A moved entry points at the copy of its block in the output; what does not move stays.
LEMMA MovedIs ==
  ASSUME NEW M, NEW o, o.num \in Nat, NEW A, NEW copies \in Seq(EntrySet),
         o.data = [k \in DOMAIN copies |-> Stored(M, copies[k])],
         NEW e \in EntrySet, IsHole(e) \/ (Moves(e, A) /\ e \in Range(copies))
  PROVE  MovedFrom(M, o, Moved(e, copies, A, o.num), e)
  <1>1. CASE IsHole(e)
    BY <1>1 DEF MovedFrom, Moved, Moves
  <1>2. CASE ~IsHole(e)
    <2> DEFINE at == CHOOSE k \in DOMAIN copies : copies[k] = e
    <2>1. at \in DOMAIN copies /\ copies[at] = e
      <3>1. \E k \in DOMAIN copies : copies[k] = e
        BY <1>2 DEF Range
      <3> QED BY <3>1
    <2>2. Moved(e, copies, A, o.num) = Entry(o.num, at)
      BY <1>2 DEF Moved
    <2> HIDE DEF at
    <2>3. at \in Nat
      BY <2>1
    <2>4. o.data[at] = Stored(M, e) /\ at \in DOMAIN o.data
      BY <2>1
    <2> QED BY <1>2, <2>2, <2>3, <2>4 DEF MovedFrom, Entry, IsHole, EntrySet
  <1> QED BY <1>1, <1>2

\* The index of the output.
OutputFacts(M, o, to, blocks) ==
  /\ o.blocks \in BlockMaps(Positions, EntrySet) /\ DOMAIN o.blocks = DOMAIN blocks
  /\ \A p \in DOMAIN blocks : MovedFrom(M, o, o.blocks[p], blocks[p])
  /\ o.reserved \in Seq(EntrySet) /\ Len(o.reserved) = 1
  /\ MovedFrom(M, o, o.reserved[1], to.reserved[1])

\* So it is for the reserved sectors and for every block of the output.
LEMMA OutputEntries ==
  ASSUME NEW D, NEW n, NEW i, NEW from, NEW to, Merging(D, n, i, from, to), EntriesOK(D, n),
         NEW M, M = Members(D, to), NEW o, o = Output(M, from, to)
  PROVE  OutputFacts(M, o, to, PlannedBlocks(M, from, to))
  <1> DEFINE R == InRange(M, from, to)
             A == Absorbed(M, from, to)
             blocks == PlannedBlocks(M, from, to)
             copies == CopyList(to.reserved, blocks, A)
  <1>1. RangeFacts(M, R, A, from, to) /\ PlanFacts(M, R, A, from, blocks)
    BY RangeIs, PlanIs
  <1>2. /\ to \in D /\ to \in M /\ ~to.split /\ Shape(D, n, i)
    BY MembersAre, NewestIsTo DEF Merging, Found, Discoverable
  <1>3. /\ to.reserved \in Seq(EntrySet) /\ Len(to.reserved) = 1
        /\ ~IsHole(to.reserved[1]) /\ to.reserved[1].num = to.num
    BY <1>2 DEF EntriesOK, Shape, FileOK
  <1>4. o.num \in Nat /\ o.num = from.num
    <2>1. from \in D
      BY DEF Merging, Members
    <2>2. o.num = from.num
      BY DEF Output
    <2> QED BY <1>2, <2>1, <2>2 DEF Shape, FileOK
  <1>5. /\ o.reserved = [k \in DOMAIN to.reserved |-> Moved(to.reserved[k], copies, A, o.num)]
        /\ o.blocks = [at \in DOMAIN blocks |-> Moved(blocks[at], copies, A, o.num)]
        /\ o.data = [k \in DOMAIN copies |-> Stored(M, copies[k])]
    BY DEF Output
  <1> HIDE DEF R, A, blocks
  <1>6. /\ DOMAIN blocks \in SUBSET (0 .. Positions) /\ Positions \in Nat
        /\ DOMAIN blocks \subseteq Places
        /\ \A p \in DOMAIN blocks : blocks[p] \in EntrySet
    BY <1>1, SizeAssumption DEF PlanFacts, BlockMaps, Places
  <1>7. /\ copies \in Seq(EntrySet)
        /\ Range(copies) = {e \in Range(to.reserved) \cup Range(blocks) : Moves(e, A)}
    BY <1>3, <1>6, CopyListIs
  <1> HIDE DEF copies
  <1>12. \A e \in EntrySet : IsHole(e) \/ (Moves(e, A) /\ e \in Range(copies))
            => MovedFrom(M, o, Moved(e, copies, A, o.num), e)
    BY <1>4, <1>5, <1>7, MovedIs
  <1>8. ASSUME NEW p \in DOMAIN blocks PROVE MovedFrom(M, o, o.blocks[p], blocks[p])
    <2>1. blocks[p] \in EntrySet /\ (IsHole(blocks[p]) \/ Moves(blocks[p], A))
      BY <1>1, <1>6 DEF PlanFacts
    <2>2. blocks[p] \in Range(blocks)
      BY DEF Range
    <2>3. IsHole(blocks[p]) \/ (Moves(blocks[p], A) /\ blocks[p] \in Range(copies))
      BY <1>7, <2>1, <2>2
    <2>4. o.blocks[p] = Moved(blocks[p], copies, A, o.num)
      BY <1>5
    <2> QED BY <1>12, <2>1, <2>3, <2>4
  <1>9. o.blocks \in BlockMaps(Positions, EntrySet) /\ DOMAIN o.blocks = DOMAIN blocks
    <2>1. DOMAIN o.blocks = DOMAIN blocks /\ o.blocks \in [DOMAIN blocks -> EntrySet]
      BY <1>5, <1>8 DEF MovedFrom
    <2> QED BY <1>6, <2>1 DEF BlockMaps, Places
  <1>10. MovedFrom(M, o, o.reserved[1], to.reserved[1])
    <2>1. to.reserved[1] \in EntrySet /\ 1 \in DOMAIN to.reserved
      BY <1>3
    <2>2. Moves(to.reserved[1], A) /\ to.reserved[1] \in Range(to.reserved)
      BY <1>1, <1>3, <2>1 DEF RangeFacts, Moves, Range
    <2>3. to.reserved[1] \in Range(copies)
      BY <1>7, <2>2
    <2>4. o.reserved[1] = Moved(to.reserved[1], copies, A, o.num)
      BY <1>5, <2>1
    <2> QED BY <1>12, <2>1, <2>2, <2>3, <2>4
  <1>11. o.reserved \in Seq(EntrySet) /\ Len(o.reserved) = 1
    <2>1. DOMAIN to.reserved = 1 .. 1
      BY <1>3
    <2>2. o.reserved = [k \in 1 .. 1 |-> Moved(to.reserved[k], copies, A, o.num)]
      BY <1>5, <2>1
    <2>3. o.reserved = <<o.reserved[1]>>
      BY <2>2
    <2>4. o.reserved[1] \in EntrySet
      BY <1>10 DEF MovedFrom
    <2>5. \A e \in EntrySet : <<e>> \in Seq(EntrySet) /\ Len(<<e>>) = 1
      OBVIOUS
    <2> QED BY <2>3, <2>4, <2>5
  <1> QED BY <1>8, <1>9, <1>10, <1>11 DEF OutputFacts, blocks

-----------------------------------------------------------------------------
(* A merge keeps the shape of the directory.                               *)

\* What is known of each file of a directory.
FileFacts(g, n, i) ==
  /\ FileOK(g, n, i) /\ n \in Nat /\ i \in Nat
  /\ g.num \in Nat /\ g.inc \in Nat /\ g.inc <= i
  /\ Moment(g) \in Nat /\ g.num <= Moment(g) /\ Moment(g) <= n
  /\ g.num \in Owned(g) /\ Moment(g) \in Owned(g)
  /\ \A k \in Owned(g) : k \in g.num .. Moment(g)

\* Every file of a directory with a shape is so.
LEMMA FilesAre ==
  ASSUME NEW D, NEW n, NEW i, Shape(D, n, i), NEW g \in D
  PROVE  FileFacts(g, n, i)
  <1>1. FileOK(g, n, i) /\ n \in Nat /\ i \in Nat
    BY DEF Shape
  <1>2. g.inc \in Nat /\ g.inc <= i
    BY <1>1 DEF FileOK
  <1> QED BY <1>1, <1>2, MomentIs DEF FileFacts

\* The output is a file of the range's numbers, and the directory keeps its shape.
LEMMA MergeShape ==
  ASSUME NEW D, NEW n, NEW i, NEW from, NEW to, Merging(D, n, i, from, to), EntriesOK(D, n),
         NEW M, M = Members(D, to), NEW o, o = Output(M, from, to)
  PROVE  /\ Shape(D \cup {o}, n, i) /\ HasFull(D \cup {o})
         /\ Redundant(M, from, to) \subseteq D
         /\ JobCovered(D \cup {o}, Redundant(M, from, to))
  <1> DEFINE R == InRange(M, from, to)
             A == Absorbed(M, from, to)
             P == D \cup {o}
  <1>1. /\ o.num = from.num /\ o.inc = from.inc /\ Owned(o) = A /\ Moment(o) = Moment(to)
        /\ o.delta \in BOOLEAN /\ o.split = FALSE /\ o.diff = FALSE
        /\ o.settings = to.settings /\ (IsFullIndex(o) <=> IsFullIndex(from))
    <2>1. HeaderFacts(o, A, from, to)
      BY OutputIs
    <2> HIDE DEF A
    <2> QED BY <2>1 DEF HeaderFacts
  <1>2. RangeFacts(M, R, A, from, to)
    BY RangeIs
  <1>3. /\ OneOwnerEach(M) /\ Shape(M, n, i) /\ from \in M /\ to \in M /\ M \subseteq D
        /\ Shape(D, n, i) /\ HasFull(D)
    BY MembersAre DEF Merging, Found, Discoverable
  <1>4. \A g \in D : FileFacts(g, n, i)
    BY <1>3, FilesAre
  <1>5. \A g \in D : g \in M <=> g.inc <= to.inc
    BY DEF Members
  <1>6. OutputFacts(M, o, to, PlannedBlocks(M, from, to))
    BY OutputEntries
  <1> HIDE DEF R, A
  <1>7. FileOK(o, n, i)
    <2>1. o.num \in Nat /\ o.inc \in 0 .. i
      BY <1>1, <1>3, <1>4 DEF FileFacts, FileOK
    <2>2. Owned(o) \subseteq o.num .. n
      <3>1. A \subseteq from.num .. Moment(to) /\ Moment(to) \in Nat /\ Moment(to) <= n
            /\ from.num \in Nat /\ n \in Nat
        BY <1>2, <1>3, <1>4 DEF RangeFacts, FileFacts
      <3> QED BY <1>1, <3>1
    <2>3. o.delta \in BOOLEAN /\ o.split \in BOOLEAN /\ o.diff \in BOOLEAN
          /\ ~(o.delta /\ o.split) /\ (o.split => o.merged = {} /\ o.blocks = <<>>)
      BY <1>1
    <2>4. o.num = 0 => IsFullIndex(o) /\ ~o.diff /\ o.inc = 0
      BY <1>1, <1>3, <1>4 DEF FileFacts, FileOK
    <2>5. IsFullIndex(o) /\ ~o.diff => o.num = 0
      BY <1>1, <1>2 DEF RangeFacts
    <2>6. o.blocks \in BlockMaps(Positions, EntrySet) /\ o.reserved \in Seq(EntrySet)
          /\ Len(o.reserved) = IF o.split THEN 0 ELSE 1
      BY <1>1, <1>6 DEF OutputFacts
    <2>7. o.settings \in Settings
      BY <1>1, <1>3, <1>4 DEF FileFacts, FileOK
    <2> QED BY <2>1, <2>2, <2>3, <2>4, <2>5, <2>6, <2>7 DEF FileOK
  <1>8. ~from.split
    BY <1>2 DEF RangeFacts
  <1>9. Order(P)
    BY <1>1, <1>3, <1>4, <1>8 DEF Order, Shape, FileFacts
  <1>10. ASSUME NEW g \in D, from.num < g.num, g.num <= Moment(to) PROVE Owned(g) \subseteq A
    <2>1. CASE g \in M
      BY <1>2, <1>3, <1>4, <1>10, <2>1 DEF RangeFacts, FileFacts
    <2>2. CASE g \notin M
      <3>1. to.num < g.num
        <4>1. to.inc < g.inc
          BY <1>3, <1>4, <1>5, <2>2 DEF FileFacts
        <4>2. g.num < to.num => g.inc <= to.inc
          BY <1>3 DEF Shape, Order
        <4>3. g.num = to.num => g.inc = to.inc
          BY <1>3 DEF Shape, Order
        <4> QED BY <1>3, <1>4, <4>1, <4>2, <4>3 DEF FileFacts
      <3>2. Owned(g) \subseteq Owned(to)
        BY <1>3, <1>10, <3>1 DEF Shape, Laminar
      <3> QED BY <1>2, <3>2 DEF RangeFacts
    <2> QED BY <2>1, <2>2
  <1>11. ASSUME NEW f \in D, f.num < from.num PROVE Moment(f) < from.num
    <2>1. f \in M
      <3>1. f.inc <= from.inc
        BY <1>3, <1>11 DEF Shape, Order
      <3> QED BY <1>3, <1>4, <1>5, <3>1 DEF FileFacts
    <2> QED BY <1>3, <1>11, <2>1, OneAfterTheOther
  <1>12. Laminar(P)
    <2> SUFFICES ASSUME NEW f \in P, NEW g \in P, f.num < g.num, g.num <= Moment(f)
                 PROVE  Owned(g) \subseteq Owned(f)
      BY DEF Laminar
    <2>1. CASE f \in D /\ g \in D
      BY <1>3, <2>1 DEF Shape, Laminar
    <2>2. CASE f = o
      <3>1. g \in D
        BY <1>1, <1>3, <1>4, <2>2 DEF FileFacts
      <3> QED BY <1>1, <1>10, <2>2, <3>1
    <2>3. CASE f \in D /\ g = o
      BY <1>1, <1>3, <1>4, <1>11, <2>3 DEF FileFacts
    <2> QED BY <2>1, <2>2, <2>3
  <1>13. SplitAlone(P)
    <2> SUFFICES ASSUME NEW c \in D, c.split, c.num \in A PROVE FALSE
      BY <1>1, <1>3 DEF SplitAlone, Shape
    <2>1. PICK h \in R : c.num \in Owned(h)
      BY <1>2 DEF RangeFacts
    <2>2. h \in D /\ ~h.split
      BY <1>2, <1>3 DEF RangeFacts
    <2> QED BY <1>3, <2>1, <2>2 DEF Shape, SplitAlone
  <1>14. FullsOver(P)
    <2> SUFFICES ASSUME NEW f \in P, NEW g \in P, IsFullIndex(f), f.num \in Owned(g), g # f
                 PROVE  g.num = 0
      BY DEF FullsOver
    <2>1. CASE f \in D /\ g \in D
      BY <1>3, <2>1 DEF Shape, FullsOver
    <2>2. CASE f = o
      <3>1. f.num = 0 /\ g \in D
        BY <1>1, <1>2, <2>2 DEF RangeFacts
      <3> QED BY <1>4, <3>1 DEF FileFacts
    <2>3. CASE f \in D /\ g = o
      <3>1. CASE IsFullIndex(from)
        BY <1>1, <1>2, <2>3, <3>1 DEF RangeFacts
      <3>2. CASE ~IsFullIndex(from)
        <4>1. PICK h \in R : f.num \in Owned(h)
          BY <1>1, <1>2, <2>3 DEF RangeFacts
        <4>2. h \in M /\ h \in D /\ ~IsFullIndex(h) /\ from.num <= h.num /\ from.num # 0
          BY <1>2, <1>3, <3>2 DEF RangeFacts
        <4>3. h.num = 0
          BY <1>3, <2>3, <4>1, <4>2 DEF Shape, FullsOver
        <4> QED BY <1>3, <1>4, <4>2, <4>3 DEF FileFacts
      <3> QED BY <3>1, <3>2
    <2> QED BY <2>1, <2>2, <2>3
  <1>15. Shape(P, n, i)
    <2>1. IsFiniteSet(P)
      BY <1>3, FS_AddElement DEF Shape
    <2>2. \A f \in P : FileOK(f, n, i)
      BY <1>3, <1>7 DEF Shape
    <2> QED BY <1>3, <1>9, <1>12, <1>13, <1>14, <2>1, <2>2 DEF Shape
  <1>16. Redundant(M, from, to) \subseteq R
    <2> SUFFICES ASSUME NEW k \in A PROVE Owner(M, k) \in R
      BY DEF Redundant, A
    <2>1. PICK h \in R : k \in Owned(h)
      BY <1>2 DEF RangeFacts
    <2>2. h \in M
      BY <1>2 DEF RangeFacts
    <2>3. Owner(M, k) = h
      BY <1>3, <2>1, <2>2, OwnerIsIt
    <2> QED BY <2>3
  <1>17. o \notin M
    <2> SUFFICES ASSUME o \in M PROVE FALSE
      OBVIOUS
    <2>1. o = from
      BY <1>1, <1>3, OneAfterTheOther
    <2>2. to.num \in Owned(from) /\ to.num \in Owned(to) /\ from # to
      BY <1>1, <1>2, <1>3, <1>4, <2>1 DEF RangeFacts, FileFacts
    <2> QED BY <1>3, <2>2 DEF OneOwnerEach
  <1>18. JobCovered(P, Redundant(M, from, to))
    <2>1. o \in P \ Redundant(M, from, to)
      BY <1>2, <1>16, <1>17 DEF RangeFacts
    <2>2. \A f \in Redundant(M, from, to) : Owned(f) \subseteq Owned(o)
      BY <1>1, <1>2, <1>16 DEF RangeFacts
    <2> HIDE DEF P
    <2> QED BY <2>1, <2>2 DEF JobCovered
  <1>19. HasFull(P)
    BY <1>3 DEF HasFull
  <1>20. Redundant(M, from, to) \subseteq D
    BY <1>2, <1>3, <1>16 DEF RangeFacts
  <1> QED BY <1>15, <1>18, <1>19, <1>20

-----------------------------------------------------------------------------
(* It skips no number and leaves no entry without its file.                *)

\* An output skips no number, but for a Full's over what retention took.
LEMMA MergeIntervals ==
  ASSUME NEW D, NEW n, NEW i, NEW from, NEW to, Merging(D, n, i, from, to),
         NEW M, M = Members(D, to), NEW o, o = Output(M, from, to),
         NEW gap \in BOOLEAN, Intervals(D, gap), NEW later \in BOOLEAN, gap => later,
         ~later /\ IsFullIndex(from) => from.num .. to.num \subseteq UNION {Owned(f) : f \in M}
  PROVE  Intervals(D \cup {o}, later)
  <1> DEFINE R == InRange(M, from, to)
             A == Absorbed(M, from, to)
  <1>1. /\ o.num = from.num /\ Owned(o) = A /\ Moment(o) = Moment(to)
        /\ (o.delta <=> ~IsFullIndex(from)) /\ o.delta \in BOOLEAN
    <2>1. HeaderFacts(o, A, from, to)
      BY OutputIs
    <2> HIDE DEF A
    <2> QED BY <2>1 DEF HeaderFacts
  <1>2. RangeFacts(M, R, A, from, to)
    BY RangeIs
  <1>3. /\ OneOwnerEach(M) /\ Shape(M, n, i) /\ from \in M /\ to \in M /\ M \subseteq D
        /\ Found(D, n, i, to) /\ WellFormed(M, n, Positions, EntrySet)
    BY MembersAre DEF Merging, Found, Discoverable
  <1>4. \A g \in M : FileFacts(g, n, i)
    BY <1>3, FilesAre
  <1> HIDE DEF R, A
  <1>5. ASSUME NEW h \in M, NEW k \in Owned(h), from.num <= k PROVE k \in A
    <2>1. ~(h.num < from.num)
      <3> SUFFICES ASSUME h.num < from.num PROVE FALSE
        OBVIOUS
      <3>1. Moment(h) < from.num
        BY <1>3, OneAfterTheOther
      <3> QED BY <1>3, <1>4, <1>5, <3>1 DEF FileFacts
    <2>2. h \in R
      BY <1>2, <1>3, <1>4, <2>1 DEF RangeFacts, FileFacts
    <2> QED BY <1>2, <2>2 DEF RangeFacts
  <1>6. to.delta
    <2>1. ~to.split /\ to.num # 0 /\ ~to.diff
      BY <1>2, <1>3, <1>4, NewestIsTo DEF RangeFacts, FileFacts, Merging, Mergeable, PairRules
    <2> QED BY <1>3, <1>4, <2>1 DEF FileFacts, FileOK, IsFullIndex
  <1>7. to.num .. Moment(to) \subseteq A
    <2>1. to.num .. Moment(to) \subseteq Owned(to)
      BY <1>3, <1>6 DEF Intervals
    <2> QED BY <1>2, <2>1 DEF RangeFacts
  <1>8. ASSUME o.delta \/ ~later PROVE from.num .. to.num \subseteq A
    <2> SUFFICES ASSUME NEW k \in from.num .. to.num PROVE k \in A
      OBVIOUS
    <2>1. from.num \in Nat /\ to.num \in Nat
      BY <1>3, <1>4 DEF FileFacts
    <2>2. PICK h \in M : k \in Owned(h)
      <3>1. CASE IsFullIndex(from)
        BY <1>1, <1>8, <3>1
      <3>2. CASE ~IsFullIndex(from)
        <4>1. Base(M) \in M /\ Base(M).num \in Nat /\ Base(M).num < from.num
          BY <1>2, <1>3, <1>4, <3>2, BaseIsNewestFull DEF RangeFacts, FileFacts
        <4>2. Newest(M) = to
          BY <1>3, NewestIsTo
        <4>3. k \in Needed(M)
          BY <2>1, <4>1, <4>2 DEF Needed
        <4>4. Missing(M) = {}
          BY <1>3 DEF Found, Discoverable
        <4> QED BY <4>3, <4>4 DEF Missing
      <3> QED BY <3>1, <3>2
    <2> QED BY <1>5, <2>1, <2>2
  <1>9. ASSUME o.delta \/ (o.num = 0 /\ ~later) PROVE o.num .. Moment(o) \subseteq Owned(o)
    <2> SUFFICES ASSUME NEW k \in from.num .. Moment(to) PROVE k \in A
      BY <1>1
    <2>1. from.num \in Nat /\ to.num \in Nat /\ Moment(to) \in Nat
      BY <1>3, <1>4 DEF FileFacts
    <2>2. k \in from.num .. to.num \/ k \in to.num .. Moment(to)
      BY <2>1
    <2> QED BY <1>7, <1>8, <1>9, <2>2
  <1> QED BY <1>9 DEF Intervals

\* It leaves no number below it that a later file still needs.
LEMMA MergeAccounted ==
  ASSUME NEW D, NEW n, NEW i, NEW from, NEW to, Merging(D, n, i, from, to), Accounted(D, n),
         NEW M, M = Members(D, to), NEW o, o = Output(M, from, to)
  PROVE  Accounted(D \cup {o}, n)
  <1> DEFINE P == D \cup {o}
  <1>1. o.num = from.num /\ from \in D
    BY DEF Output, Merging, Members
  <1>2. {t.num : t \in P} = {t.num : t \in D}
    BY <1>1
  <1> HIDE DEF P
  <1>3. D \subseteq P
    BY DEF P
  <1> SUFFICES ASSUME NEW k \in 0 .. n, \A g \in P : k \notin Owned(g),
                      NEW top \in {t.num : t \in P} \cup {n + 1}, k < top
               PROVE  \E d \in P : IsFullIndex(d) /\ k < d.num /\ d.num <= top
    BY DEF Accounted, P
  <1>4. PICK d \in D : IsFullIndex(d) /\ k < d.num /\ d.num <= top
    BY <1>2, <1>3 DEF Accounted
  <1> QED BY <1>3, <1>4

\* Each entry of it is where it says.
LEMMA MergeEntries ==
  ASSUME NEW D, NEW n, NEW i, NEW from, NEW to, Merging(D, n, i, from, to), EntriesOK(D, n),
         NEW M, M = Members(D, to), NEW o, o = Output(M, from, to)
  PROVE  EntriesOK(D \cup {o}, n)
  <1> DEFINE P == D \cup {o}
             blocks == PlannedBlocks(M, from, to)
             R == InRange(M, from, to)
             A == Absorbed(M, from, to)
  <1>1. OutputFacts(M, o, to, blocks)
    BY OutputEntries
  <1>2. PlanFacts(M, R, A, from, blocks)
    BY PlanIs
  <1>3. /\ Shape(M, n, i) /\ from \in M /\ to \in D /\ M \subseteq D
        /\ Found(D, n, i, to) /\ WellFormed(M, n, Positions, EntrySet)
    BY MembersAre DEF Merging, Found, Discoverable
  <1>4. o.num = from.num /\ o.num \in 0 .. n
    <2>1. FileFacts(from, n, i) /\ o.num = from.num
      BY <1>3, FilesAre DEF Output
    <2> QED BY <2>1 DEF FileFacts
  <1>5. ASSUME NEW e, NEW was, MovedFrom(M, o, e, was), was.num \in 0 .. n
        PROVE  e.num \in 0 .. n /\ EntryOK(o, e, P)
    BY <1>4, <1>5 DEF MovedFrom, EntryOK
  <1> HIDE DEF blocks, R, A
  <1>6. ASSUME NEW e \in Range(o.blocks) PROVE e.num \in 0 .. n /\ EntryOK(o, e, P)
    <2>1. PICK p \in DOMAIN blocks : e = o.blocks[p]
      BY <1>1 DEF OutputFacts, Range
    <2>2. MovedFrom(M, o, e, blocks[p])
      BY <1>1, <2>1 DEF OutputFacts
    <2>3. blocks[p].num \in 0 .. n
      <3>1. blocks[p] = LastWriter(M, p)
        BY <1>2 DEF PlanFacts
      <3>2. CASE LastWriter(M, p) = Hole
        BY <1>3, <3>1, <3>2 DEF Hole, WellFormed
      <3>3. CASE \E w \in M : Writes(M, w, p) /\ LastWriter(M, p) = w.blocks[p]
        <4>1. PICK w \in M : Writes(M, w, p) /\ LastWriter(M, p) = w.blocks[p]
          BY <3>3
        <4>2. blocks[p] \in EntriesOf(w) /\ w \in D
          BY <1>3, <3>1, <4>1 DEF Writes, EntriesOf, Range
        <4> QED BY <4>2 DEF EntriesOK
      <3> QED BY <1>3, <3>2, <3>3, LastWriterIs
    <2> QED BY <1>5, <2>2, <2>3
  <1>7. to.reserved[1] \in EntriesOf(to) /\ ~IsHole(to.reserved[1])
    <2>1. ~to.split
      BY <1>3, NewestIsTo
    <2>2. to.reserved[1] \in EntriesOf(to)
      <3>1. FileOK(to, n, i)
        BY <1>3 DEF Found, Shape
      <3> QED BY <2>1, <3>1 DEF FileOK, EntriesOf, Range
    <2> QED BY <1>3, <2>1, <2>2 DEF EntriesOK
  <1>8. /\ o.reserved[1].num \in 0 .. n /\ EntryOK(o, o.reserved[1], P)
        /\ ~IsHole(o.reserved[1]) /\ o.reserved[1].num = o.num
    <2>1. MovedFrom(M, o, o.reserved[1], to.reserved[1])
      BY <1>1 DEF OutputFacts
    <2>2. to.reserved[1].num \in 0 .. n
      BY <1>3, <1>7 DEF EntriesOK
    <2>3. ~IsHole(o.reserved[1]) /\ o.reserved[1].num = o.num
      BY <1>7, <2>1 DEF MovedFrom
    <2> QED BY <1>5, <2>1, <2>2, <2>3
  <1>9. \A e \in Range(o.reserved) : e = o.reserved[1]
    BY <1>1 DEF OutputFacts, Range
  <1>10. ASSUME NEW g \in D, NEW e, EntryOK(g, e, D) PROVE EntryOK(g, e, P)
    BY <1>10 DEF EntryOK
  <1>11. /\ \A e \in EntriesOf(o) : e.num \in 0 .. n /\ EntryOK(o, e, P)
         /\ ~o.split => ~IsHole(o.reserved[1]) /\ o.reserved[1].num = o.num
    <2> HIDE DEF P
    <2> QED BY <1>6, <1>8, <1>9 DEF EntriesOf
  <1>12. ASSUME NEW g \in D
         PROVE  /\ \A e \in EntriesOf(g) : e.num \in 0 .. n /\ EntryOK(g, e, P)
                /\ ~g.split => ~IsHole(g.reserved[1]) /\ g.reserved[1].num = g.num
    BY <1>10 DEF EntriesOK
  <1> QED BY <1>11, <1>12 DEF EntriesOK

-----------------------------------------------------------------------------
(* Every file gives what it gave before the merge.                         *)

\* The output gives back the disk of the To file's moment.
LEMMA OutputValues ==
  ASSUME NEW D, NEW n, NEW i, NEW from, NEW to, Merging(D, n, i, from, to), EntriesOK(D, n),
         NEW M, M = Members(D, to), NEW o, o = Output(M, from, to),
         NEW im, \A f \in D : Values(f, D, im)
  PROVE  Values(o, D \cup {o}, im)
  <1> DEFINE P == D \cup {o}
             blocks == PlannedBlocks(M, from, to)
             R == InRange(M, from, to)
             A == Absorbed(M, from, to)
  <1>1. /\ o.num = from.num /\ Owned(o) = A /\ Moment(o) = Moment(to) /\ o.split = FALSE
        /\ o.settings = to.settings /\ (IsFullIndex(o) <=> IsFullIndex(from))
        /\ (o.delta <=> ~IsFullIndex(from)) /\ o.delta \in BOOLEAN
    <2>1. HeaderFacts(o, A, from, to)
      BY OutputIs
    <2> HIDE DEF A
    <2> QED BY <2>1 DEF HeaderFacts
  <1>2. OutputFacts(M, o, to, blocks) /\ PlanFacts(M, R, A, from, blocks)
    BY OutputEntries, PlanIs
  <1>3. RangeFacts(M, R, A, from, to)
    BY RangeIs
  <1>4. /\ OneOwnerEach(M) /\ Shape(M, n, i) /\ from \in M /\ to \in M /\ M \subseteq D
        /\ Found(D, n, i, to) /\ \A f \in M : f.settings = to.settings
    BY MembersAre DEF Merging, Mergeable, SameSettings, Found, Discoverable
  <1>5. \A g \in M : FileFacts(g, n, i)
    BY <1>4, FilesAre
  <1> HIDE DEF P, blocks, R, A
  <1>6. \A h \in P : h.num = o.num /\ (h = o \/ Owned(o) \cap Owned(h) = {}) => h = o
    BY DEF Owned
  <1>7. ASSUME NEW e, NEW was, NEW v, MovedFrom(M, o, e, was), Good(M, was, v)
        PROVE  Gives(o, e, v, P)
    <2>1. CASE IsHole(was)
      BY <1>7, <2>1 DEF MovedFrom, Good, Gives
    <2>2. CASE ~IsHole(was)
      <3>1. v \in Nat \X Nat /\ \E h \in M : Stored(M, was) = Append(v, h.settings)
        BY <1>4, <1>7, <2>2, GoodIsDecoded
      <3>2. Stored(M, was) = Append(v, o.settings)
        BY <1>1, <1>4, <3>1
      <3>3. Holds(o, e, v)
        BY <1>7, <2>2, <3>1, <3>2 DEF MovedFrom, Holds
      <3>4. ~IsHole(e) /\ e.num = o.num
        BY <1>7, <2>2 DEF MovedFrom
      <3> QED BY <1>6, <3>3, <3>4 DEF Gives
    <2> QED BY <2>1, <2>2
  <1>8. ASSUME NEW p \in DOMAIN o.blocks PROVE Gives(o, o.blocks[p], im[Moment(o)][p], P)
    <2>1. p \in DOMAIN blocks /\ MovedFrom(M, o, o.blocks[p], blocks[p])
      BY <1>2 DEF OutputFacts
    <2>2. p \in Places /\ blocks[p] = LastWriter(M, p)
      BY <1>2, <2>1 DEF PlanFacts
    <2>3. Good(M, LastWriter(M, p), im[Moment(to)][p])
      BY <1>4, <2>2, LastWriterIsGood
    <2>4. Good(M, blocks[p], im[Moment(o)][p])
      BY <1>1, <2>2, <2>3
    <2> QED BY <1>7, <2>1, <2>4
  <1>9. Gives(o, o.reserved[1], im[Moment(o)][ReservedAt], P)
    <2>1. MovedFrom(M, o, o.reserved[1], to.reserved[1])
      BY <1>2 DEF OutputFacts
    <2>2. Good(M, to.reserved[1], im[Moment(to)][ReservedAt])
      BY <1>4, ReservedIsGood
    <2> QED BY <1>1, <1>7, <2>1, <2>2
  <1>10. ASSUME o.delta, NEW p \in Places \ DOMAIN o.blocks
         PROVE  im[Moment(o)][p] = im[o.num - 1][p]
    <2>1. /\ ~IsFullIndex(from) /\ Base(M).num < from.num
          /\ \A g \in R : g.delta /\ ~IsFullIndex(g)
      BY <1>1, <1>3, <1>10 DEF RangeFacts
    <2>2. PICK g \in M : Moment(g) = from.num - 1 /\ g.num < from.num /\ Base(M).num <= g.num
      BY <1>4, <2>1, StepDown
    <2>3. \A f \in R : p \notin DOMAIN f.blocks
      BY <1>2, <2>1 DEF OutputFacts, PlanFacts
    <2>4. ASSUME NEW f \in M, g.num < f.num PROVE Unchanged(f, p, im)
      <3>1. Moment(g) < f.num
        BY <1>4, <2>2, <2>4, OneAfterTheOther
      <3>2. f \in R
        BY <1>3, <1>4, <1>5, <2>2, <3>1 DEF RangeFacts, FileFacts
      <3>3. FileOK(f, n, i) /\ n \in Nat /\ f \in D
        BY <1>4, <1>5 DEF FileFacts
      <3>4. ~IsFullIndex(f) /\ p \notin DOMAIN f.blocks
        BY <2>1, <2>3, <3>2
      <3> QED BY <3>3, <3>4, UnnamedIsUnchanged
    <2>5. g.num <= to.num
      BY <1>4, <1>5, <2>2, NewestIsTo DEF FileFacts
    <2>6. im[Moment(to)][p] = im[Moment(g)][p]
      BY <1>4, <2>2, <2>4, <2>5, ChainUnchanged
    <2> QED BY <1>1, <2>2, <2>6
  <1>11. ASSUME IsFullIndex(o), NEW p \in Places \ DOMAIN o.blocks
         PROVE  im[Moment(o)][p] = Nothing
    <2>1. LastWriter(M, p) = Hole
      BY <1>1, <1>2, <1>11 DEF OutputFacts, PlanFacts
    <2>2. Good(M, LastWriter(M, p), im[Moment(to)][p])
      BY <1>4, LastWriterIsGood
    <2> QED BY <1>1, <2>1, <2>2 DEF Good, Hole, IsHole
  <1> QED BY <1>1, <1>8, <1>9, <1>10, <1>11 DEF Values, P

\* No other file reads its block from the output, unless it is stranded.
LEMMA MergeValues ==
  ASSUME NEW D, NEW n, NEW i, NEW from, NEW to, Merging(D, n, i, from, to), EntriesOK(D, n),
         NEW M, M = Members(D, to), NEW o, o = Output(M, from, to),
         NEW im, \A f \in D : Values(f, D, im),
         \A g \in D \ M : IsFullIndex(g) =>
           \A e \in EntriesOf(g) : ~Moves(e, Absorbed(M, from, to))
  PROVE  \A f \in D \cup {o} : Values(f, D \cup {o}, im)
  <1> DEFINE P == D \cup {o}
             R == InRange(M, from, to)
             A == Absorbed(M, from, to)
  <1>1. o.num = from.num /\ Owned(o) = A
    <2>1. HeaderFacts(o, A, from, to)
      BY OutputIs
    <2> HIDE DEF A
    <2> QED BY <2>1 DEF HeaderFacts
  <1>2. RangeFacts(M, R, A, from, to)
    BY RangeIs
  <1>3. Shape(D, n, i) /\ from \in D /\ from \in M /\ M \subseteq D
    BY MembersAre DEF Merging, Found, Discoverable
  <1>4. \A g \in D : FileFacts(g, n, i)
    BY <1>3, FilesAre
  <1>5. Values(o, P, im)
    BY OutputValues
  <1> HIDE DEF P, R, A
  <1>6. ASSUME NEW f \in D, f # o, NEW e \in EntriesOf(f), ~IsHole(e), e.num = from.num,
               Owned(f) \cap A = {}
        PROVE  FALSE
    <2>1. EntryOK(f, e, D)
      BY DEF EntriesOK
    <2>2. from.num \in A /\ ~from.split
      BY <1>2 DEF RangeFacts
    <2>3. CASE e.num = f.num
      BY <1>4, <1>6, <2>2, <2>3 DEF FileFacts
    <2>4. CASE \E c \in D : c.split /\ c.num = e.num
      <3>1. PICK c \in D : c.split /\ c.num = from.num
        BY <1>6, <2>4
      <3>2. c.num \in Owned(from)
        BY <1>3, <1>4, <3>1 DEF FileFacts
      <3> QED BY <1>3, <2>2, <3>1, <3>2 DEF Shape, SplitAlone
    <2>5. CASE IsFullIndex(f) /\ e.num = 0
      <3>1. f \notin M
        <4> SUFFICES ASSUME f \in M PROVE FALSE
          OBVIOUS
        <4>1. IsFullIndex(from)
          BY <1>3, <1>4, <1>6, <2>5 DEF FileFacts, FileOK
        <4>2. Owned(f) \subseteq A
          BY <1>2, <4>1 DEF RangeFacts
        <4> QED BY <1>4, <1>6, <4>2 DEF FileFacts
      <3>2. Moves(e, A)
        BY <1>6, <2>2 DEF Moves
      <3> QED BY <2>5, <3>1, <3>2 DEF A
    <2> QED BY <1>6, <2>1, <2>3, <2>4, <2>5 DEF EntryOK
  <1>7. ASSUME NEW f \in D, NEW e \in EntriesOf(f), NEW v, Gives(f, e, v, D), f # o
        PROVE  Gives(f, e, v, P)
    <2>1. ~IsHole(e) /\ e.num = o.num => Owned(f) \cap Owned(o) # {}
      BY <1>1, <1>6, <1>7
    <2> QED BY <1>7, <2>1 DEF Gives, P
  <1>8. ASSUME NEW f \in D, f # o PROVE Values(f, P, im)
    <2>1. Values(f, D, im) /\ FileOK(f, n, i)
      BY <1>4 DEF FileFacts
    <2>2. \A p \in DOMAIN f.blocks : f.blocks[p] \in EntriesOf(f)
      BY DEF EntriesOf, Range
    <2>3. ~f.split => f.reserved[1] \in EntriesOf(f)
      BY <2>1 DEF FileOK, EntriesOf, Range
    <2>4. \A p \in DOMAIN f.blocks : Gives(f, f.blocks[p], im[Moment(f)][p], P)
      BY <1>7, <1>8, <2>1, <2>2 DEF Values
    <2>5. ~f.split => Gives(f, f.reserved[1], im[Moment(f)][ReservedAt], P)
      BY <1>7, <1>8, <2>1, <2>3 DEF Values
    <2> QED BY <2>1, <2>4, <2>5 DEF Values
  <1> QED BY <1>5, <1>8 DEF P

-----------------------------------------------------------------------------
(* A backup adds files on top of the others.                               *)

\* What the disk may hold.
Disks == [Spots -> {Nothing} \cup (Nat \X Nat)]

\* The places a backup writes, and those it frees.
Touched(news, empty) == news \in SUBSET Places /\ empty \in SUBSET (Places \ news)

\* A file of Reflect's stores each block of news and the reserved sectors.
BackupFacts(f, num, now, s, news, empty, rest) ==
  /\ f.num = num /\ f.merged = {} /\ f.split = FALSE /\ f.settings = s
  /\ f.blocks = [p \in DOMAIN f.blocks |-> f.blocks[p]]
  /\ f.reserved = <<Entry(num, 1)>>
  /\ f.data \in Seq(Range(f.data)) /\ Len(f.data) >= 1
  /\ f.data[1] = Append(now[ReservedAt], s)
  /\ DOMAIN f.blocks = news \cup empty \cup DOMAIN rest
  /\ \A p \in news : /\ f.blocks[p] \in [num : {num}, pos : 2 .. Len(f.data), len : {1}]
                     /\ f.data[f.blocks[p].pos] = Append(now[p], s)
  /\ \A p \in empty : f.blocks[p] = Hole
  /\ \A p \in DOMAIN rest \ (news \cup empty) : f.blocks[p] = rest[p]

\* Reflect's files are such files.
LEMMA BackupFileIs ==
  ASSUME NEW num \in Nat, NEW inc, NEW delta, NEW diff, NEW s, NEW now,
         NEW news, NEW empty, Touched(news, empty), NEW rest,
         NEW f, f = BackupFile(num, inc, delta, diff, s, now, news, empty, rest)
  PROVE  BackupFacts(f, num, now, s, news, empty, rest)
  <1> DEFINE at == SetToSeq(news)
             list == <<ReservedAt>> \o at
             EntryAt(p) == IF p \in news THEN Entry(num, 1 + CHOOSE k \in DOMAIN at : at[k] = p)
                           ELSE IF p \in empty THEN Hole ELSE rest[p]
  <1> USE DEF Touched
  <1>1. IsFiniteSet(news)
    <2>1. IsFiniteSet(Places)
      BY FS_Interval, SizeAssumption DEF Places
    <2> QED BY <2>1, FS_Subset
  <1>2. at \in Seq(news) /\ Range(at) = news
    BY <1>1, SetToSeqLists
  <1>3. /\ f.reserved = <<Entry(num, 1)>> /\ f.settings = s
        /\ f.blocks = [p \in news \cup empty \cup DOMAIN rest |-> EntryAt(p)]
        /\ f.data = [k \in 1 .. 1 + Len(at) |-> Append(now[list[k]], s)]
    BY DEF BackupFile
  <1> HIDE DEF at
  <1>4. Len(at) \in Nat /\ DOMAIN at = 1 .. Len(at)
    BY <1>2
  <1>5. list[1] = ReservedAt /\ \A k \in DOMAIN at : list[k + 1] = at[k]
    <2> DEFINE X == Places \cup {ReservedAt}
    <2>1. at \in Seq(X) /\ ReservedAt \in X
      BY <1>2
    <2> HIDE DEF X
    <2> QED BY <2>1
  <1> HIDE DEF list
  <1>6. Len(f.data) = 1 + Len(at) /\ DOMAIN f.data = 1 .. 1 + Len(at)
    BY <1>3, <1>4
  <1>7. f.data \in Seq(Range(f.data))
    <2>1. f.data \in [1 .. 1 + Len(at) -> Range(f.data)]
      <3>1. f.data = [k \in 1 .. 1 + Len(at) |-> f.data[k]]
        BY <1>3
      <3>2. \A k \in 1 .. 1 + Len(at) : f.data[k] \in Range(f.data)
        BY <1>6 DEF Range
      <3> QED BY <3>1, <3>2
    <2> DEFINE X == Range(f.data)
               m == 1 + Len(at)
    <2>2. m \in Nat /\ f.data \in [1 .. m -> X]
      BY <1>4, <2>1
    <2> HIDE DEF X, m
    <2>3. f.data \in Seq(X)
      BY <2>2
    <2> QED BY <2>3 DEF X
  <1>8. f.data[1] = Append(now[ReservedAt], s)
    BY <1>3, <1>4, <1>5
  <1>9. ASSUME NEW p \in news
        PROVE  /\ f.blocks[p] \in [num : {num}, pos : 2 .. Len(f.data), len : {1}]
               /\ f.data[f.blocks[p].pos] = Append(now[p], s)
    <2> DEFINE j == CHOOSE k \in DOMAIN at : at[k] = p
    <2>1. j \in DOMAIN at /\ at[j] = p
      <3>1. \E k \in DOMAIN at : at[k] = p
        BY <1>2 DEF Range
      <3> QED BY <3>1
    <2>2. f.blocks[p] = Entry(num, 1 + j)
      BY <1>3
    <2> HIDE DEF j
    <2>3. 1 + j \in 2 .. Len(f.data) /\ 1 + j \in 1 .. 1 + Len(at) /\ 1 + j = j + 1
      BY <1>4, <1>6, <2>1
    <2>4. f.data[1 + j] = Append(now[p], s)
      BY <1>3, <1>5, <2>1, <2>3
    <2> QED BY <2>2, <2>3, <2>4 DEF Entry
  <1>10. DOMAIN f.blocks = news \cup empty \cup DOMAIN rest
    BY <1>3
  <1>11. /\ \A p \in empty : f.blocks[p] = Hole
         /\ \A p \in DOMAIN rest \ (news \cup empty) : f.blocks[p] = rest[p]
    BY <1>3
  <1>12. Len(f.data) >= 1
    BY <1>4, <1>6
  <1>13. /\ f.num = num /\ f.merged = {} /\ f.split = FALSE /\ f.settings = s
         /\ f.blocks = [p \in DOMAIN f.blocks |-> f.blocks[p]]
         /\ f.reserved = <<Entry(num, 1)>>
    BY DEF BackupFile
  <1> QED BY <1>7, <1>8, <1>9, <1>10, <1>11, <1>12, <1>13 DEF BackupFacts

\* Entry p of f leads to v, written as backup num.
NewsHeld(f, p, num, v, s) ==
  /\ f.blocks[p].num = num /\ ~IsHole(f.blocks[p])
  /\ f.blocks[p].pos \in 2 .. Len(f.data)
  /\ f.data[f.blocks[p].pos] = Append(v, s)
  /\ v \in Nat \X Nat => Holds(f, f.blocks[p], v)

\* Its entry of a new block leads to what was written there.
LEMMA BackupHoldsNews ==
  ASSUME NEW f, NEW num, NEW now, NEW s, NEW news, NEW empty, NEW rest,
         BackupFacts(f, num, now, s, news, empty, rest), NEW p \in news
  PROVE  NewsHeld(f, p, num, now[p], s)
  <1>1. PICK e : e = f.blocks[p]
    OBVIOUS
  <1>2. e \in [num : {num}, pos : 2 .. Len(f.data), len : {1}]
    BY <1>1 DEF BackupFacts
  <1>3. e.num = num /\ e.pos \in 2 .. Len(f.data) /\ e.len = 1
    BY ONLY <1>2
  <1>4. f.data[e.pos] = Append(now[p], s) /\ f.settings = s
    BY <1>1 DEF BackupFacts
  <1>5. f.data \in Seq(Range(f.data))
    BY DEF BackupFacts
  <1>6. e.pos \in DOMAIN f.data
    BY ONLY <1>3, <1>5
  <1>7. ~IsHole(e)
    BY ONLY <1>3 DEF IsHole
  <1>8. now[p] \in Nat \X Nat => Holds(f, e, now[p])
    BY ONLY <1>4, <1>6, Zenon DEF Holds
  <1>9. /\ e.num = num /\ ~IsHole(e) /\ e.pos \in 2 .. Len(f.data)
        /\ f.data[e.pos] = Append(now[p], s)
        /\ now[p] \in Nat \X Nat => Holds(f, e, now[p])
    BY ONLY <1>3, <1>4, <1>7, <1>8
  <1> QED BY ONLY <1>1, <1>9, Zenon DEF NewsHeld

\* And so does its entry of the reserved sectors.
LEMMA BackupHoldsReserved ==
  ASSUME NEW f, NEW num, NEW now, NEW s, NEW news, NEW empty, NEW rest,
         BackupFacts(f, num, now, s, news, empty, rest), now[ReservedAt] \in Nat \X Nat
  PROVE  f.reserved[1] = Entry(num, 1) /\ Holds(f, f.reserved[1], now[ReservedAt])
  <1>1. f.data[1] = Append(now[ReservedAt], s) /\ f.settings = s
    BY DEF BackupFacts
  <1>2. f.data \in Seq(Range(f.data)) /\ Len(f.data) >= 1
    BY DEF BackupFacts
  <1>3. 1 \in DOMAIN f.data
    BY ONLY <1>2
  <1>4. f.reserved[1] = Entry(num, 1)
    BY DEF BackupFacts
  <1>5. Entry(num, 1).pos = 1
    BY DEF Entry
  <1> QED BY ONLY <1>1, <1>3, <1>4, <1>5, now[ReservedAt] \in Nat \X Nat DEF Holds

\* Where nothing was written it says so, and elsewhere it has the entries of another file.
LEMMA BackupKeepsTheRest ==
  ASSUME NEW f, NEW num, NEW now, NEW s, NEW news, NEW empty, NEW rest,
         BackupFacts(f, num, now, s, news, empty, rest)
  PROVE  /\ DOMAIN f.blocks = news \cup empty \cup DOMAIN rest
         /\ \A p \in empty : IsHole(f.blocks[p])
         /\ \A p \in DOMAIN rest \ (news \cup empty) : f.blocks[p] = rest[p]
  <1>1. IsHole(Hole)
    BY DEF IsHole, Hole
  <1> QED BY <1>1, Zenon DEF BackupFacts

\* A file that has merged nothing stands for its own moment.
LEMMA MomentOfOne ==
  ASSUME NEW f, f.num \in Nat, f.merged = {}
  PROVE  Owned(f) = {f.num} /\ Moment(f) = f.num
  <1>1. Owned(f) = {f.num}
    BY DEF Owned
  <1>2. Max({f.num}) = f.num
    BY DEF Max
  <1> QED BY <1>1, <1>2 DEF Moment

\* New files: the numbers after n up to m, with the next increment, and what they store.
NewFiles(F, n, m, i, P) ==
  /\ IsFiniteSet(F) /\ m \in Nat /\ n < m
  /\ \A g \in F : /\ FileOK(g, m, i + 1) /\ g.merged = {} /\ g.inc = i + 1
                  /\ g.num \in n + 1 .. m
                  /\ \A e \in EntriesOf(g) : e.num \in 0 .. m /\ EntryOK(g, e, P)
                  /\ ~g.split => ~IsHole(g.reserved[1]) /\ g.reserved[1].num = g.num
  /\ \A f, g \in F : (f.num = g.num => f = g) /\ (f.num < g.num => g.split)
  /\ \A k \in n + 1 .. m : \E g \in F : g.num = k

\* New files on top keep everything the invariant says of the directory.
LEMMA AddFiles ==
  ASSUME NEW D, NEW n, NEW i, Shape(D, n, i), HasFull(D), NEW gap \in BOOLEAN,
         Intervals(D, gap), ~gap => Accounted(D, n), EntriesOK(D, n),
         NEW F, NEW m, NEW P, P = D \cup F, NewFiles(F, n, m, i, P)
  PROVE  /\ Shape(P, m, i + 1) /\ HasFull(P) /\ Intervals(P, gap)
         /\ (~gap => Accounted(P, m)) /\ EntriesOK(P, m)
  <1>1. \A g \in D : FileFacts(g, n, i)
    BY FilesAre
  <1>2. n \in Nat /\ i \in Nat /\ m \in Nat /\ n < m
    BY DEF Shape, NewFiles
  <1>3. \A g \in F : /\ FileOK(g, m, i + 1) /\ g.inc = i + 1 /\ g.num \in Nat /\ n < g.num
                     /\ g.num <= m /\ Owned(g) = {g.num} /\ Moment(g) = g.num
    <2> TAKE g \in F
    <2>1. FileOK(g, m, i + 1) /\ g.merged = {} /\ g.inc = i + 1 /\ g.num \in n + 1 .. m
      BY DEF NewFiles
    <2>2. g.num \in Nat /\ n < g.num /\ g.num <= m
      BY <1>2, <2>1
    <2> QED BY <2>1, <2>2, MomentOfOne
  <1>4. \A g \in D : FileOK(g, m, i + 1)
    <2> TAKE g \in D
    <2>1. FileOK(g, n, i) /\ g.inc \in 0 .. i + 1 /\ Owned(g) \subseteq g.num .. m
      BY <1>1, <1>2 DEF FileFacts, FileOK
    <2> QED BY <2>1 DEF FileOK
  <1>5. ASSUME NEW f \in P, NEW g \in P, g.num \in Owned(f), g \in F \/ f \in F PROVE g = f
    <2>1. CASE f \in F
      <3>1. g.num = f.num
        BY <1>3, <1>5, <2>1
      <3>2. g \in F
        BY <1>1, <1>3, <2>1, <3>1 DEF FileFacts
      <3> QED BY <2>1, <3>1, <3>2 DEF NewFiles
    <2>2. CASE f \in D /\ g \in F
      BY <1>1, <1>2, <1>3, <1>5, <2>2 DEF FileFacts
    <2> QED BY <1>5, <2>1, <2>2
  <1>6. Shape(P, m, i + 1)
    <2>1. IsFiniteSet(P)
      BY FS_Union DEF Shape, NewFiles
    <2>2. Order(P)
      BY <1>1, <1>2, <1>3 DEF Shape, Order, FileFacts, NewFiles
    <2>3. Laminar(P)
      <3> SUFFICES ASSUME NEW f \in P, NEW g \in P, f.num < g.num, g.num <= Moment(f)
                   PROVE  Owned(g) \subseteq Owned(f)
        BY DEF Laminar
      <3>1. f \in D /\ g \in D
        BY <1>1, <1>2, <1>3 DEF FileFacts
      <3> QED BY <3>1 DEF Shape, Laminar
    <2>4. SplitAlone(P)
      BY <1>5 DEF Shape, SplitAlone
    <2>5. FullsOver(P)
      BY <1>5 DEF Shape, FullsOver
    <2>6. \A g \in P : FileOK(g, m, i + 1)
      BY <1>3, <1>4
    <2> QED BY <1>2, <2>1, <2>2, <2>3, <2>4, <2>5, <2>6 DEF Shape
  <1>7. HasFull(P)
    BY DEF HasFull
  <1>8. Intervals(P, gap)
    BY <1>3 DEF Intervals
  <1>9. ASSUME ~gap PROVE Accounted(P, m)
    <2> SUFFICES ASSUME NEW k \in 0 .. m, \A g \in P : k \notin Owned(g),
                        NEW top \in {t.num : t \in P} \cup {m + 1}, k < top
                 PROVE  \E d \in P : IsFullIndex(d) /\ k < d.num /\ d.num <= top
      BY DEF Accounted
    <2>1. k \in 0 .. n
      <3> SUFFICES ASSUME k \in n + 1 .. m PROVE FALSE
        BY <1>2
      <3>1. PICK g \in F : g.num = k
        BY DEF NewFiles
      <3> QED BY <1>3, <3>1
    <2>2. \A g \in D : k \notin Owned(g)
      OBVIOUS
    <2>3. CASE top \in {t.num : t \in D}
      BY <1>9, <2>1, <2>2, <2>3 DEF Accounted
    <2>4. CASE top \notin {t.num : t \in D}
      <3>1. n + 1 <= top /\ k < n + 1 /\ top \in Nat
        BY <1>2, <1>3, <2>1, <2>4
      <3>2. PICK d \in D : IsFullIndex(d) /\ k < d.num /\ d.num <= n + 1
        BY <1>9, <2>1, <2>2, <3>1 DEF Accounted
      <3> QED BY <1>1, <1>2, <3>1, <3>2 DEF FileFacts
    <2> QED BY <2>3, <2>4
  <1>10. EntriesOK(P, m)
    <2>1. ASSUME NEW g \in D, NEW e, EntryOK(g, e, D) PROVE EntryOK(g, e, P)
      BY <2>1 DEF EntryOK
    <2>2. \A k \in 0 .. n : k \in 0 .. m
      BY <1>2
    <2>3. ASSUME NEW g \in D
          PROVE  /\ \A e \in EntriesOf(g) : e.num \in 0 .. m /\ EntryOK(g, e, P)
                 /\ ~g.split => ~IsHole(g.reserved[1]) /\ g.reserved[1].num = g.num
      BY <2>1, <2>2 DEF EntriesOK
    <2>4. ASSUME NEW g \in F
          PROVE  /\ \A e \in EntriesOf(g) : e.num \in 0 .. m /\ EntryOK(g, e, P)
                 /\ ~g.split => ~IsHole(g.reserved[1]) /\ g.reserved[1].num = g.num
      BY DEF NewFiles
    <2> QED BY <2>3, <2>4 DEF EntriesOK
  <1> QED BY <1>6, <1>7, <1>8, <1>9, <1>10

\* What the older files give back stays.
LEMMA OlderValues ==
  ASSUME NEW D, NEW n, NEW i, Shape(D, n, i), EntriesOK(D, n),
         NEW F, NEW m, NEW P, P = D \cup F, NewFiles(F, n, m, i, P),
         NEW im, NEW later, \A k \in 0 .. n : later[k] = im[k],
         NEW f \in D, Values(f, D, im)
  PROVE  Values(f, P, later)
  <1>1. FileFacts(f, n, i) /\ (f.delta \/ f.split => f.num # 0)
    <2>1. FileFacts(f, n, i)
      BY FilesAre
    <2> QED BY <2>1, Kinds3 DEF FileFacts
  <1>2. Moment(f) \in 0 .. n /\ f.num \in 0 .. n
    BY <1>1 DEF FileFacts
  <1>3. f.delta \/ f.split => f.num - 1 \in 0 .. n
    BY <1>1, <1>2 DEF FileFacts
  <1>4. \A g \in F : ~(g.num \in 0 .. n)
    <2> SUFFICES ASSUME NEW g \in F, g.num \in 0 .. n PROVE FALSE
      OBVIOUS
    <2>1. g.num \in n + 1 .. m /\ n \in Nat /\ m \in Nat
      BY DEF NewFiles, Shape
    <2> QED BY <2>1
  <1>5. ASSUME NEW e \in EntriesOf(f), NEW v, Gives(f, e, v, D) PROVE Gives(f, e, v, P)
    <2>1. e.num \in 0 .. n
      BY DEF EntriesOK
    <2> QED BY <1>4, <1>5, <2>1 DEF Gives
  <1>6. \A p \in DOMAIN f.blocks : Gives(f, f.blocks[p], later[Moment(f)][p], P)
    <2> TAKE p \in DOMAIN f.blocks
    <2>1. f.blocks[p] \in EntriesOf(f) /\ Gives(f, f.blocks[p], im[Moment(f)][p], D)
      BY DEF Values, EntriesOf, Range
    <2> QED BY <1>2, <1>5, <2>1
  <1>7. ~f.split => Gives(f, f.reserved[1], later[Moment(f)][ReservedAt], P)
    <2> HAVE ~f.split
    <2>1. f.reserved[1] \in EntriesOf(f)
      BY <1>1 DEF FileFacts, FileOK, EntriesOf, Range
    <2> QED BY <1>2, <1>5, <2>1 DEF Values
  <1> QED BY <1>2, <1>3, <1>6, <1>7 DEF Values

-----------------------------------------------------------------------------
(* An Incremental.                                                         *)

\* The disk once a file has been written.
WrittenFacts(now, news, empty) ==
  /\ now \in Disks
  /\ \A p \in news \cup {ReservedAt} : now[p] \in Nat \X Nat
  /\ \A p \in empty : now[p] = Nothing
  /\ \A p \in Places \ (news \cup empty) : now[p] = disk[p]

\* What Reflect writes to the disk changes it there and nowhere else.
LEMMA WrittenIs ==
  ASSUME disk \in Disks, NEW num \in Nat, NEW news, NEW empty, Touched(news, empty)
  PROVE  WrittenFacts(Written(num, news, empty), news, empty)
  <1> DEFINE now == Written(num, news, empty)
  <1> USE DEF Touched
  <1>1. /\ Positions \in Nat /\ Places \subseteq Nat
        /\ ReservedAt \in Nat /\ ReservedAt \notin Places
    BY SizeAssumption DEF Places, ReservedAt
  <1>2. now = [p \in Spots |-> IF p \in news \cup {ReservedAt} THEN <<num, p>>
                               ELSE IF p \in empty THEN Nothing ELSE disk[p]]
    BY DEF Written, Spots
  <1> HIDE DEF now
  <1>3. \A p \in news \cup {ReservedAt} : now[p] \in Nat \X Nat /\ p \in Spots
    BY <1>1, <1>2 DEF Spots
  <1>4. \A p \in empty : now[p] = Nothing
    BY <1>1, <1>2 DEF Spots
  <1>5. \A p \in Places \ (news \cup empty) : now[p] = disk[p]
    BY <1>1, <1>2 DEF Spots
  <1>6. now \in Disks
    <2>1. ASSUME NEW p \in Spots PROVE now[p] \in {Nothing} \cup (Nat \X Nat)
      <3>1. CASE p \in news \cup {ReservedAt}
        BY <1>3, <3>1
      <3>2. CASE p \in empty
        BY <1>4, <3>2
      <3>3. CASE p \in Places \ (news \cup empty)
        BY <1>5, <3>3 DEF Disks, Spots
      <3> QED BY <3>1, <3>2, <3>3 DEF Spots
    <2> QED BY <1>2, <2>1 DEF Disks
  <1> QED BY <1>3, <1>4, <1>5, <1>6 DEF now, WrittenFacts

\* The entries of such a file.
EntryFacts(f, num, news, empty, rest) ==
  /\ \A p \in DOMAIN f.blocks : f.blocks[p] \in EntrySet
  /\ DOMAIN f.blocks \subseteq Places /\ f.blocks \in BlockMaps(Positions, EntrySet)
  /\ f.reserved \in Seq(EntrySet) /\ Len(f.reserved) = 1
  /\ ~IsHole(f.reserved[1]) /\ f.reserved[1].num = num
  /\ f.reserved[1].pos \in DOMAIN f.data
  /\ \A e \in EntriesOf(f) :
       \/ e = Hole
       \/ e.num = num /\ e.pos \in DOMAIN f.data
       \/ \E p \in DOMAIN rest \ (news \cup empty) : e = rest[p]

\* The entries of a backup are its own, holes, or the older ones of rest.
LEMMA BackupEntries ==
  ASSUME NEW f, NEW num \in Nat, NEW now, NEW s, NEW news, NEW empty, Touched(news, empty),
         NEW rest \in BlockMaps(Positions, EntrySet),
         BackupFacts(f, num, now, s, news, empty, rest)
  PROVE  EntryFacts(f, num, news, empty, rest)
  <1>1. /\ DOMAIN rest \subseteq Places /\ \A p \in DOMAIN rest : rest[p] \in EntrySet
    BY DEF BlockMaps, Places
  <1>2. Hole \in EntrySet /\ Entry(num, 1) \in EntrySet /\ ~IsHole(Entry(num, 1))
    BY DEF Hole, Entry, EntrySet, IsHole
  <1>3. Len(f.data) \in Nat /\ DOMAIN f.data = 1 .. Len(f.data) /\ Len(f.data) >= 1
    <2>1. f.data \in Seq(Range(f.data)) /\ Len(f.data) >= 1
      BY DEF BackupFacts
    <2> QED BY ONLY <2>1, LenProperties
  <1>4. \A p \in news : /\ f.blocks[p] \in EntrySet /\ f.blocks[p].num = num
                        /\ f.blocks[p].pos \in DOMAIN f.data
    <2> TAKE p \in news
    <2>1. PICK e : e = f.blocks[p]
      OBVIOUS
    <2>2. e \in [num : {num}, pos : 2 .. Len(f.data), len : {1}]
      BY <2>1 DEF BackupFacts
    <2>3. PICK z \in Nat : z = Len(f.data)
      BY ONLY <1>3
    <2>4. PICK at \in 2 .. z : e = [num |-> num, pos |-> at, len |-> 1]
      BY ONLY <2>2, <2>3
    <2>5. at \in DOMAIN f.data /\ at \in Nat /\ num \in Nat
      BY ONLY <1>3, <2>3, num \in Nat
    <2>6. e \in EntrySet
      BY ONLY <2>4, <2>5 DEF EntrySet
    <2>7. e.num = num /\ e.pos = at
      BY ONLY <2>4
    <2> QED BY ONLY <2>1, <2>5, <2>6, <2>7
  <1>5. /\ DOMAIN f.blocks = news \cup empty \cup DOMAIN rest
        /\ \A p \in empty : f.blocks[p] = Hole
        /\ \A p \in DOMAIN rest \ (news \cup empty) : f.blocks[p] = rest[p]
        /\ f.reserved = <<Entry(num, 1)>>
    BY DEF BackupFacts
  <1>6. f.reserved \in Seq(EntrySet) /\ Len(f.reserved) = 1 /\ f.reserved[1] = Entry(num, 1)
        /\ Range(f.reserved) = {Entry(num, 1)}
    BY <1>2, <1>5 DEF Range
  <1>7. Entry(num, 1).num = num /\ Entry(num, 1).pos = 1 /\ 1 \in DOMAIN f.data
    BY <1>3 DEF Entry
  <1>8. ASSUME NEW e \in EntriesOf(f)
        PROVE  \/ e = Hole
               \/ e.num = num /\ e.pos \in DOMAIN f.data
               \/ \E p \in DOMAIN rest \ (news \cup empty) : e = rest[p]
    <2>1. CASE e \in Range(f.reserved)
      BY <1>6, <1>7, <2>1
    <2>2. CASE e \in Range(f.blocks)
      BY <1>4, <1>5, <2>2 DEF Range
    <2> QED BY <2>1, <2>2 DEF EntriesOf
  <1>9. /\ \A p \in DOMAIN f.blocks : f.blocks[p] \in EntrySet
        /\ DOMAIN f.blocks \subseteq Places
    BY <1>1, <1>2, <1>4, <1>5 DEF Touched
  <1>10. f.blocks \in BlockMaps(Positions, EntrySet)
    <2>1. f.blocks \in [DOMAIN f.blocks -> EntrySet]
      BY <1>9 DEF BackupFacts
    <2> QED BY <1>9, <2>1 DEF BlockMaps, Places
  <1> QED BY <1>2, <1>6, <1>7, <1>8, <1>9, <1>10 DEF EntryFacts

\* A backup may have no older entries.
LEMMA EmptyRest == <<>> \in BlockMaps(Positions, EntrySet) /\ DOMAIN <<>> = {}
  <1>1. DOMAIN <<>> = {} /\ <<>> = [p \in {} |-> Hole]
    OBVIOUS
  <1>2. <<>> \in [{} -> EntrySet]
    BY <1>1
  <1> QED BY <1>1, <1>2 DEF BlockMaps

\* f is an Incremental of Reflect's.
NewDelta(D, n, i, news, empty, s, k, j, now, rest, f, P, later) ==
  /\ Touched(news, empty) /\ s \in Settings /\ k = n + 1 /\ j = i + 1
  /\ now = Written(k, news, empty)
  /\ rest \in BlockMaps(Positions, EntrySet) /\ DOMAIN rest = {}
  /\ BackupFacts(f, k, now, s, news, empty, rest)
  /\ f.inc = j /\ f.delta = TRUE /\ f.diff = FALSE
  /\ P = D \cup {f}
  /\ later[n] = disk /\ later[k] = now

\* What it says is right.
LEMMA IncrementalAdds ==
  ASSUME NEW D, NEW n, NEW i, Shape(D, n, i), disk \in Disks,
         NEW news, NEW empty, NEW s, NEW k, NEW j, NEW now, NEW rest, NEW f, NEW P, NEW later,
         NewDelta(D, n, i, news, empty, s, k, j, now, rest, f, P, later)
  PROVE  NewFiles({f}, n, k, i, P) /\ Values(f, P, later)
  <1>0. /\ Touched(news, empty) /\ s \in Settings /\ k = n + 1 /\ j = i + 1
        /\ now = Written(k, news, empty)
        /\ rest \in BlockMaps(Positions, EntrySet) /\ DOMAIN rest = {}
        /\ BackupFacts(f, k, now, s, news, empty, rest)
        /\ f.inc = j /\ f.delta = TRUE /\ f.diff = FALSE
        /\ P = D \cup {f}
        /\ later[n] = disk /\ later[k] = now
    BY DEF NewDelta
  <1> USE <1>0
  <1>1. n \in Nat /\ i \in Nat /\ k \in Nat /\ j \in Nat /\ k > n
        /\ \A g \in D : g.num <= n /\ g.num \in Nat
    <2>1. \A g \in D : FileFacts(g, n, i)
      BY FilesAre
    <2> QED BY <2>1 DEF FileFacts, Shape
  <1>2. /\ f.num = k /\ f.inc = j /\ f.merged = {} /\ f.delta = TRUE /\ f.split = FALSE
        /\ f.diff = FALSE /\ f.settings = s
    BY DEF BackupFacts
  <1>3. BackupFacts(f, k, now, s, news, empty, rest)
    OBVIOUS
  <1>4. /\ \A p \in DOMAIN f.blocks : f.blocks[p] \in EntrySet
        /\ DOMAIN f.blocks \subseteq Places
        /\ f.reserved \in Seq(EntrySet) /\ Len(f.reserved) = 1
        /\ ~IsHole(f.reserved[1]) /\ f.reserved[1].num = k
        /\ f.reserved[1].pos \in DOMAIN f.data
        /\ f.blocks \in BlockMaps(Positions, EntrySet)
        /\ \A e \in EntriesOf(f) : e = Hole \/ (e.num = k /\ e.pos \in DOMAIN f.data)
    <2>1. EntryFacts(f, k, news, empty, rest)
      BY <1>1, <1>3, BackupEntries
    <2> QED BY <2>1 DEF EntryFacts
  <1>7. Owned(f) = {k} /\ Moment(f) = k /\ ~IsFullIndex(f)
    BY <1>1, <1>2, MomentOfOne DEF IsFullIndex
  <1>8. FileOK(f, k, j)
    <2>1. f.num \in Nat /\ f.inc \in 0 .. j /\ Owned(f) \subseteq f.num .. k /\ f.num # 0
      BY <1>1, <1>2, <1>7
    <2>2. f.delta \in BOOLEAN /\ f.split \in BOOLEAN /\ f.diff \in BOOLEAN /\ ~f.split
      BY <1>2
    <2>3. Len(f.reserved) = IF f.split THEN 0 ELSE 1
      BY <1>4, <2>2
    <2> QED BY <1>2, <1>4, <1>7, <2>1, <2>2, <2>3 DEF FileOK
  <1>9. \A e \in EntriesOf(f) : e.num \in 0 .. k /\ EntryOK(f, e, P)
    BY <1>1, <1>2, <1>4 DEF EntryOK, Hole, IsHole
  <1>10. NewFiles({f}, n, k, i, P)
    <2>1. IsFiniteSet({f})
      BY FS_Singleton
    <2>2. f.num \in k .. k /\ \A l \in k .. k : f.num = l
      BY <1>1, <1>2
    <2>3. ~IsHole(f.reserved[1]) /\ f.reserved[1].num = f.num
      BY <1>2, <1>4
    <2>4. FileOK(f, k, i + 1) /\ f.inc = i + 1 /\ n < k
      BY <1>1, <1>2, <1>8
    <2>5. ~(f.num < f.num)
      BY <1>1, <1>2
    <2> QED BY <1>1, <1>2, <1>9, <2>1, <2>2, <2>3, <2>4, <2>5 DEF NewFiles
  <1>11. \A h \in P : h.num = k => h = f
    BY <1>1
  <1>12. /\ \A p \in news \cup {ReservedAt} : now[p] \in Nat \X Nat
         /\ \A p \in empty : now[p] = Nothing
         /\ \A p \in Places \ (news \cup empty) : now[p] = disk[p]
    <2>1. WrittenFacts(now, news, empty)
      BY <1>1, WrittenIs
    <2> QED BY <2>1 DEF WrittenFacts
  <1>13a. DOMAIN f.blocks = news \cup empty
    <2>1. DOMAIN f.blocks = news \cup empty \cup DOMAIN rest
      BY ONLY <1>3, BackupKeepsTheRest
    <2> QED BY <2>1
  <1>13. \A p \in DOMAIN f.blocks : Gives(f, f.blocks[p], now[p], P)
    <2> TAKE p \in DOMAIN f.blocks
    <2>1. CASE p \in news
      <3>1. now[p] \in Nat \X Nat
        BY <1>12, <2>1
      <3>2. NewsHeld(f, p, k, now[p], s)
        BY ONLY <1>3, <2>1, BackupHoldsNews
      <3>3. /\ Holds(f, f.blocks[p], now[p]) /\ f.blocks[p].num = k
            /\ ~IsHole(f.blocks[p])
        BY ONLY <3>1, <3>2 DEF NewsHeld
      <3> QED BY ONLY <1>11, <3>3 DEF Gives
    <2>2. CASE p \in empty
      <3>1. IsHole(f.blocks[p])
        BY ONLY <1>3, <2>2, BackupKeepsTheRest
      <3>2. now[p] = Nothing
        BY <1>12, <2>2
      <3> QED BY ONLY <3>1, <3>2 DEF Gives
    <2>3. DOMAIN f.blocks = news \cup empty
      BY <1>13a
    <2> QED BY <2>1, <2>2, <2>3
  <1>14. Gives(f, f.reserved[1], now[ReservedAt], P)
    <2>1. now[ReservedAt] \in Nat \X Nat
      BY <1>12
    <2>2. Holds(f, f.reserved[1], now[ReservedAt])
      BY ONLY <1>3, <2>1, BackupHoldsReserved
    <2> QED BY <1>4, <1>11, <2>2 DEF Gives
  <1>15. \A p \in Places \ DOMAIN f.blocks : now[p] = disk[p]
    BY <1>3, <1>12 DEF BackupFacts
  <1>16. f.num - 1 = n
    BY <1>1, <1>2
  <1>17. Values(f, P, later)
    <2>1. ~f.split /\ f.delta
      BY <1>2
    <2>2. later[Moment(f)] = now /\ later[f.num - 1] = disk
      BY <1>7, <1>16
    <2> QED BY <1>7, <1>13, <1>14, <1>15, <2>1, <2>2 DEF Values
  <1> QED BY <1>10, <1>17

-----------------------------------------------------------------------------
(* A Differential.                                                         *)

\* f is a Differential of Reflect's.
NewDifferential(D, n, i, full, k, j, now, was, empty, news, s, f, P, later, im) ==
  /\ full \in D /\ full.num = 0 /\ IsFullIndex(full) /\ s \in Settings
  /\ k = n + 1 /\ j = i + 1 /\ now \in Disks /\ now[ReservedAt] \in Nat \X Nat
  /\ empty = {p \in Places : now[p] = Nothing}
  /\ news = {p \in Places \ empty : now[p] # was[p]}
  /\ BackupFacts(f, k, now, s, news, empty, full.blocks)
  /\ f.inc = j /\ f.delta = FALSE /\ f.diff = TRUE
  /\ P = D \cup {f}
  /\ later[k] = now /\ was = im[Moment(full)]

\* What it says is right, as long as the Full's entries are.
LEMMA DifferentialAdds ==
  ASSUME NEW D, NEW n, NEW i, Shape(D, n, i), OneOwnerEach(D), EntriesOK(D, n),
         NEW full, NEW k, NEW j, NEW now, NEW was, NEW empty, NEW news, NEW s, NEW f, NEW P,
         NEW later, NEW im,
         NewDifferential(D, n, i, full, k, j, now, was, empty, news, s, f, P, later, im)
  PROVE  NewFiles({f}, n, k, i, P) /\ (Values(full, D, im) => Values(f, P, later))
  <1>0. /\ full \in D /\ full.num = 0 /\ IsFullIndex(full) /\ s \in Settings
        /\ k = n + 1 /\ j = i + 1 /\ now \in Disks /\ now[ReservedAt] \in Nat \X Nat
        /\ empty = {p \in Places : now[p] = Nothing}
        /\ news = {p \in Places \ empty : now[p] # was[p]}
        /\ BackupFacts(f, k, now, s, news, empty, full.blocks)
        /\ f.inc = j /\ f.delta = FALSE /\ f.diff = TRUE
        /\ P = D \cup {f}
        /\ later[k] = now /\ was = im[Moment(full)]
    BY DEF NewDifferential
  <1> USE <1>0
  <1>1. n \in Nat /\ i \in Nat /\ k \in Nat /\ j \in Nat /\ k > n /\ k # 0
        /\ \A g \in D : g.num <= n /\ g.num \in Nat /\ g.num \in Owned(g)
    <2>1. \A g \in D : FileFacts(g, n, i)
      BY FilesAre
    <2> QED BY <2>1 DEF FileFacts, Shape
  <1>2. /\ f.num = k /\ f.inc = j /\ f.merged = {} /\ f.delta = FALSE /\ f.split = FALSE
        /\ f.diff = TRUE /\ f.settings = s
    BY DEF BackupFacts
  <1>3. BackupFacts(f, k, now, s, news, empty, full.blocks)
    OBVIOUS
  <1>4. full.blocks \in BlockMaps(Positions, EntrySet) /\ DOMAIN full.blocks \subseteq Places
        /\ ~full.delta
    BY DEF Shape, FileOK, BlockMaps, Places, IsFullIndex
  <1>5. Touched(news, empty)
    BY DEF Touched
  <1>6. EntryFacts(f, k, news, empty, full.blocks)
    BY <1>1, <1>3, <1>4, <1>5, BackupEntries
  <1>7. Owned(f) = {k} /\ Moment(f) = k /\ IsFullIndex(f)
    BY <1>1, <1>2, MomentOfOne DEF IsFullIndex
  <1>8. FileOK(f, k, j)
    <2>1. f.num \in Nat /\ f.inc \in 0 .. j /\ Owned(f) \subseteq f.num .. k /\ f.num # 0
      BY <1>1, <1>2, <1>7
    <2>2. /\ f.delta \in BOOLEAN /\ f.split \in BOOLEAN /\ f.diff \in BOOLEAN
          /\ ~f.split /\ ~f.delta /\ f.diff
      BY <1>2
    <2>3. Len(f.reserved) = IF f.split THEN 0 ELSE 1
      BY <1>6, <2>2 DEF EntryFacts
    <2>4. f.blocks \in BlockMaps(Positions, EntrySet) /\ f.reserved \in Seq(EntrySet)
      BY <1>6 DEF EntryFacts
    <2> QED BY <1>2, <1>7, <2>1, <2>2, <2>3, <2>4 DEF FileOK
  <1>9. \A p \in DOMAIN full.blocks : /\ full.blocks[p] \in EntriesOf(full)
                                      /\ full.blocks[p].num \in 0 .. n
                                      /\ ~IsHole(full.blocks[p]) => full.blocks[p].num = 0
    <2> TAKE p \in DOMAIN full.blocks
    <2>1. full.blocks[p] \in EntriesOf(full)
      BY DEF EntriesOf, Range
    <2>2. full.blocks[p].num \in 0 .. n /\ EntryOK(full, full.blocks[p], D)
      BY <2>1 DEF EntriesOK
    <2> QED BY <1>4, <2>1, <2>2 DEF EntryOK
  <1>10. \A e \in EntriesOf(f) : e.num \in 0 .. k /\ EntryOK(f, e, P)
    <2> TAKE e \in EntriesOf(f)
    <2>1. CASE e = Hole
      BY <1>1, <2>1 DEF EntryOK, Hole, IsHole
    <2>2. CASE e.num = k /\ e.pos \in DOMAIN f.data
      BY <1>1, <1>2, <2>2 DEF EntryOK
    <2>3. CASE \E p \in DOMAIN full.blocks : e = full.blocks[p]
      BY <1>1, <1>2, <1>7, <1>9, <2>3 DEF EntryOK
    <2> QED BY <1>6, <2>1, <2>2, <2>3 DEF EntryFacts
  <1>11. NewFiles({f}, n, k, i, P)
    <2>1. IsFiniteSet({f})
      BY FS_Singleton
    <2>2. f.num \in n + 1 .. k /\ \A l \in n + 1 .. k : f.num = l
      BY <1>1, <1>2
    <2>3. ~IsHole(f.reserved[1]) /\ f.reserved[1].num = f.num
      BY <1>2, <1>6 DEF EntryFacts
    <2>4. FileOK(f, k, i + 1) /\ f.inc = i + 1 /\ n < k
      BY <1>1, <1>2, <1>8
    <2>5. ~(f.num < f.num)
      BY <1>1, <1>2
    <2> QED BY <1>1, <1>2, <1>10, <2>1, <2>2, <2>3, <2>4, <2>5 DEF NewFiles
  <1>12. \A h \in P : h.num = k => h = f
    BY <1>1
  <1>13. ASSUME NEW p \in DOMAIN f.blocks, Values(full, D, im)
         PROVE  Gives(f, f.blocks[p], now[p], P)
    <2>1. CASE p \in news
      <3>1. now[p] \in Nat \X Nat
        BY <2>1 DEF Disks, Spots
      <3>2. NewsHeld(f, p, k, now[p], s)
        BY ONLY <1>3, <2>1, BackupHoldsNews
      <3>3. Holds(f, f.blocks[p], now[p]) /\ f.blocks[p].num = k /\ ~IsHole(f.blocks[p])
        BY ONLY <3>1, <3>2 DEF NewsHeld
      <3> QED BY ONLY <1>12, <3>3 DEF Gives
    <2>2. CASE p \in empty
      <3>1. IsHole(f.blocks[p])
        BY ONLY <1>3, <2>2, BackupKeepsTheRest
      <3>2. now[p] = Nothing
        BY <2>2
      <3> QED BY ONLY <3>1, <3>2 DEF Gives
    <2>3. CASE p \in DOMAIN full.blocks \ (news \cup empty)
      <3>0. f.blocks[p] = full.blocks[p]
        BY ONLY <1>3, <2>3, BackupKeepsTheRest
      <3>1. f.blocks[p] = full.blocks[p] /\ now[p] = was[p]
        BY <1>4, <2>3, <3>0
      <3>2. Gives(full, full.blocks[p], now[p], D)
        BY <1>13, <2>3, <3>1 DEF Values
      <3>3. CASE IsHole(full.blocks[p])
        BY <3>1, <3>2, <3>3 DEF Gives
      <3>4. CASE ~IsHole(full.blocks[p])
        <4>1. full.blocks[p].num = 0
          BY <1>9, <2>3, <3>4
        <4>2. \A h \in P : h.num = 0 => h = full
          BY <1>1, <1>2 DEF OneOwnerEach
        <4>3. Holds(full, full.blocks[p], now[p])
          BY <3>2, <3>4, <4>1 DEF Gives
        <4> QED BY <3>1, <3>4, <4>1, <4>2, <4>3 DEF Gives
      <3> QED BY <3>3, <3>4
    <2> QED BY <1>3, <2>1, <2>2, <2>3 DEF BackupFacts
  <1>14. Gives(f, f.reserved[1], now[ReservedAt], P)
    <2>1. ~IsHole(f.reserved[1]) /\ f.reserved[1].num = k
      BY <1>6 DEF EntryFacts
    <2>2. Holds(f, f.reserved[1], now[ReservedAt])
      BY <1>3, BackupHoldsReserved
    <2> QED BY <1>12, <2>1, <2>2 DEF Gives
  <1>15. ASSUME Values(full, D, im), NEW p \in Places \ DOMAIN f.blocks PROVE now[p] = Nothing
    <2>1. p \notin news /\ p \notin empty /\ p \notin DOMAIN full.blocks
      BY <1>3 DEF BackupFacts
    <2>2. was[p] = Nothing
      BY <1>15, <2>1 DEF Values
    <2> QED BY <2>1, <2>2
  <1>16. ASSUME Values(full, D, im) PROVE Values(f, P, later)
    <2>1. ~f.split /\ ~f.delta
      BY <1>2
    <2>2. later[Moment(f)] = now
      BY <1>7
    <2> QED BY <1>13, <1>14, <1>15, <1>16, <2>1, <2>2 DEF Values
  <1> QED BY <1>11, <1>16

-----------------------------------------------------------------------------
(* An Incremental in two files.                                            *)

\* A backup cut in two.
CutFacts(f, a, b) ==
  /\ a.num = f.num /\ a.inc = f.inc /\ a.merged = f.merged /\ a.delta = f.delta
  /\ a.split = f.split /\ a.diff = f.diff /\ a.settings = f.settings
  /\ a.reserved = f.reserved /\ a.data = SubSeq(f.data, 1, 1)
  /\ a.blocks = [p \in DOMAIN f.blocks |->
                   IF IsHole(f.blocks[p]) THEN Hole ELSE Entry(f.num + 1, f.blocks[p].pos - 1)]
  /\ b.num = f.num + 1 /\ b.inc = f.inc /\ b.merged = f.merged /\ b.delta = FALSE
  /\ b.split = TRUE /\ b.diff = f.diff /\ b.settings = f.settings
  /\ b.reserved = <<>> /\ b.blocks = <<>> /\ b.data = Tail(f.data)

\* The two parts of an Incremental share its entries and its blocks.
LEMMA CutIs ==
  ASSUME NEW num, NEW inc, NEW delta, NEW diff, NEW s, NEW now, NEW news, NEW empty, NEW rest,
         NEW f, f = BackupFile(num, inc, delta, diff, s, now, news, empty, rest)
  PROVE  CutFacts(f, Parent(f), Continuation(f))
  <1>1. f = [num |-> f.num, inc |-> f.inc, merged |-> f.merged, delta |-> f.delta,
             split |-> f.split, diff |-> f.diff, settings |-> f.settings,
             reserved |-> f.reserved, blocks |-> f.blocks, data |-> f.data]
    BY DEF BackupFile
  <1> QED BY <1>1 DEF CutFacts, Parent, Continuation

\* a and b are an Incremental of Reflect's in two files.
NewPair(D, n, i, news, empty, s, k, l, j, now, rest, f, a, b, P, later) ==
  /\ Touched(news, empty) /\ empty = {} /\ s \in Settings
  /\ k = n + 1 /\ l = n + 2 /\ j = i + 1
  /\ now = Written(k, news, empty)
  /\ rest \in BlockMaps(Positions, EntrySet) /\ DOMAIN rest = {}
  /\ BackupFacts(f, k, now, s, news, empty, rest)
  /\ f.inc = j /\ f.delta = TRUE /\ f.diff = FALSE
  /\ CutFacts(f, a, b) /\ P = D \cup {a, b}
  /\ later[n] = disk /\ later[k] = now /\ later[l] = now

\* What they say is right.
LEMMA SplitAdds ==
  ASSUME NEW D, NEW n, NEW i, Shape(D, n, i), disk \in Disks,
         NEW news, NEW empty, NEW s, NEW k, NEW l, NEW j, NEW now, NEW rest,
         NEW f, NEW a, NEW b, NEW P, NEW later,
         NewPair(D, n, i, news, empty, s, k, l, j, now, rest, f, a, b, P, later)
  PROVE  NewFiles({a, b}, n, l, i, P) /\ Values(a, P, later) /\ Values(b, P, later)
  <1>0. /\ Touched(news, empty) /\ empty = {} /\ s \in Settings
        /\ k = n + 1 /\ l = n + 2 /\ j = i + 1
        /\ now = Written(k, news, empty)
        /\ rest \in BlockMaps(Positions, EntrySet) /\ DOMAIN rest = {}
        /\ BackupFacts(f, k, now, s, news, empty, rest)
        /\ f.inc = j /\ f.delta = TRUE /\ f.diff = FALSE
        /\ CutFacts(f, a, b) /\ P = D \cup {a, b}
        /\ later[n] = disk /\ later[k] = now /\ later[l] = now
    BY DEF NewPair
  <1> USE <1>0
  <1>1. n \in Nat /\ i \in Nat /\ k \in Nat /\ j \in Nat /\ l \in Nat
        /\ \A g \in D : g.num <= n /\ g.num \in Nat
    <2>1. \A g \in D : FileFacts(g, n, i)
      BY FilesAre
    <2> QED BY <2>1 DEF FileFacts, Shape
  <1>2. /\ f.num = k /\ f.merged = {} /\ f.split = FALSE /\ f.settings = s
        /\ DOMAIN f.blocks = news /\ f.reserved = <<Entry(k, 1)>>
        /\ Len(f.data) \in Nat /\ Len(f.data) >= 1 /\ f.data \in Seq(Range(f.data))
        /\ f.data[1] = Append(now[ReservedAt], s)
    <2>1. BackupFacts(f, k, now, s, news, empty, rest) /\ empty = {} /\ DOMAIN rest = {}
      OBVIOUS
    <2>2. DOMAIN f.blocks = news \cup empty \cup DOMAIN rest
      BY ONLY <2>1, Zenon DEF BackupFacts
    <2>3. DOMAIN f.blocks = news
      BY ONLY <2>1, <2>2
    <2>4. /\ f.num = k /\ f.merged = {} /\ f.split = FALSE /\ f.settings = s
          /\ f.reserved = <<Entry(k, 1)>>
          /\ Len(f.data) >= 1 /\ f.data \in Seq(Range(f.data))
          /\ f.data[1] = Append(now[ReservedAt], s)
      BY ONLY <2>1, Zenon DEF BackupFacts
    <2> QED BY ONLY <2>3, <2>4, LenProperties
  <1>3. /\ a.num = k /\ a.inc = j /\ a.merged = {} /\ a.delta = TRUE /\ a.split = FALSE
        /\ a.diff = FALSE /\ a.settings = s
    BY <1>2 DEF CutFacts
  <1>4. /\ b.num = l /\ b.inc = j /\ b.merged = {} /\ b.delta = FALSE /\ b.split = TRUE
        /\ b.diff = FALSE /\ b.settings = s /\ b.reserved = <<>> /\ b.blocks = <<>>
    BY <1>1, <1>2 DEF CutFacts
  <1>5. /\ Len(a.data) = 1 /\ DOMAIN a.data = 1 .. 1 /\ a.data[1] = f.data[1]
        /\ DOMAIN b.data = 1 .. Len(f.data) - 1
        /\ \A at \in 2 .. Len(f.data) : b.data[at - 1] = f.data[at]
    <2> DEFINE X == Range(f.data)
    <2>1. f.data \in Seq(X) /\ Len(f.data) >= 1
      BY <1>2
    <2>2. a.data = SubSeq(f.data, 1, 1) /\ b.data = Tail(f.data)
      BY DEF CutFacts
    <2> HIDE DEF X
    <2> QED BY <2>1, <2>2
  <1>6. ASSUME NEW p \in news
        PROVE  /\ a.blocks[p] \in EntrySet /\ a.blocks[p].num = l /\ ~IsHole(a.blocks[p])
               /\ a.blocks[p].pos \in DOMAIN b.data
               /\ b.data[a.blocks[p].pos] = Append(now[p], s)
    <2>1. /\ f.blocks[p].pos \in 2 .. Len(f.data) /\ ~IsHole(f.blocks[p])
          /\ f.data[f.blocks[p].pos] = Append(now[p], s)
      <3>1. BackupFacts(f, k, now, s, news, empty, rest)
        OBVIOUS
      <3>2. p \in news
        OBVIOUS
      <3>3. NewsHeld(f, p, k, now[p], s)
        BY ONLY <3>1, <3>2, BackupHoldsNews
      <3> QED BY ONLY <3>3 DEF NewsHeld
    <2>2. a.blocks[p] = Entry(l, f.blocks[p].pos - 1)
      <3>1. p \in DOMAIN f.blocks /\ f.num + 1 = l
        BY <1>1, <1>2
      <3>2. a.blocks = [q \in DOMAIN f.blocks |-> IF IsHole(f.blocks[q]) THEN Hole
                                                 ELSE Entry(f.num + 1, f.blocks[q].pos - 1)]
        BY DEF CutFacts
      <3> QED BY ONLY <2>1, <3>1, <3>2
    <2>3. f.blocks[p].pos - 1 \in Nat /\ f.blocks[p].pos - 1 \in DOMAIN b.data
      <3>1. PICK t : t = f.blocks[p].pos
        OBVIOUS
      <3>2. PICK z \in Nat : z = Len(f.data)
        BY ONLY <1>2
      <3>3. t \in 2 .. z /\ DOMAIN b.data = 1 .. z - 1
        BY ONLY <1>5, <2>1, <3>1, <3>2
      <3>4. t - 1 \in Nat /\ t - 1 \in 1 .. z - 1
        BY ONLY <3>2, <3>3
      <3> QED BY ONLY <3>1, <3>3, <3>4
    <2>4. b.data[f.blocks[p].pos - 1] = Append(now[p], s)
      BY <1>5, <2>1
    <2> DEFINE at == f.blocks[p].pos - 1
    <2>5. at \in Nat /\ at \in DOMAIN b.data /\ b.data[at] = Append(now[p], s)
      BY <2>3, <2>4
    <2>6. a.blocks[p] = Entry(l, at)
      BY <2>2
    <2> HIDE DEF at
    <2>7. /\ Entry(l, at) \in EntrySet /\ Entry(l, at).num = l /\ ~IsHole(Entry(l, at))
          /\ Entry(l, at).pos = at
      BY <1>1, <2>5 DEF Entry, EntrySet, IsHole
    <2> QED BY <2>5, <2>6, <2>7
  <1>7. /\ DOMAIN a.blocks = news /\ a.blocks = [p \in news |-> a.blocks[p]]
        /\ news \subseteq Places
    BY <1>2 DEF CutFacts, Touched
  <1>8. /\ a.blocks \in BlockMaps(Positions, EntrySet)
        /\ b.blocks \in BlockMaps(Positions, EntrySet)
    <2>1. a.blocks \in [news -> EntrySet]
      BY <1>6, <1>7
    <2> QED BY <1>4, <1>7, <2>1, EmptyRest DEF BlockMaps, Places
  <1>9. /\ a.reserved = <<Entry(k, 1)>> /\ a.reserved \in Seq(EntrySet) /\ Len(a.reserved) = 1
        /\ Entry(k, 1) \in EntrySet /\ ~IsHole(Entry(k, 1)) /\ Entry(k, 1).num = k
        /\ Entry(k, 1).pos = 1 /\ a.reserved[1] = Entry(k, 1)
        /\ Range(a.reserved) = {Entry(k, 1)}
    <2>1. Entry(k, 1) \in EntrySet /\ ~IsHole(Entry(k, 1)) /\ Entry(k, 1).num = k
          /\ Entry(k, 1).pos = 1
      BY <1>1 DEF Entry, EntrySet, IsHole
    <2>2. a.reserved = <<Entry(k, 1)>>
      BY <1>2 DEF CutFacts
    <2> QED BY <2>1, <2>2 DEF Range
  <1>10. b.reserved \in Seq(EntrySet) /\ Len(b.reserved) = 0 /\ EntriesOf(b) = {}
    BY <1>4 DEF EntriesOf, Range
  <1>11. /\ Owned(a) = {k} /\ Moment(a) = k /\ ~IsFullIndex(a)
         /\ Owned(b) = {l} /\ Moment(b) = l /\ ~IsFullIndex(b)
    BY <1>1, <1>3, <1>4, MomentOfOne DEF IsFullIndex
  <1>12. FileOK(a, l, j)
    <2>1. a.num \in Nat /\ a.inc \in 0 .. j /\ Owned(a) \subseteq a.num .. l /\ a.num # 0
      BY <1>1, <1>3, <1>11
    <2>2. a.delta \in BOOLEAN /\ a.split \in BOOLEAN /\ a.diff \in BOOLEAN /\ ~a.split
      BY <1>3
    <2>3. Len(a.reserved) = IF a.split THEN 0 ELSE 1
      BY <1>9, <2>2
    <2> QED BY <1>3, <1>8, <1>9, <1>11, <2>1, <2>2, <2>3 DEF FileOK
  <1>13. FileOK(b, l, j)
    <2>1. b.num \in Nat /\ b.inc \in 0 .. j /\ Owned(b) \subseteq b.num .. l /\ b.num # 0
      BY <1>1, <1>4, <1>11
    <2>2. b.delta \in BOOLEAN /\ b.split \in BOOLEAN /\ b.diff \in BOOLEAN /\ ~b.delta
      BY <1>4
    <2>3. Len(b.reserved) = IF b.split THEN 0 ELSE 1
      BY <1>4, <1>10
    <2> QED BY <1>4, <1>8, <1>10, <1>11, <2>1, <2>2, <2>3 DEF FileOK
  <1>14. \A e \in EntriesOf(a) : e.num \in 0 .. l /\ EntryOK(a, e, P)
    <2> TAKE e \in EntriesOf(a)
    <2>1. CASE e \in Range(a.reserved)
      <3>1. e.num = k /\ e.pos \in DOMAIN a.data /\ k \in 0 .. l
        BY <1>1, <1>5, <1>9, <2>1
      <3> QED BY <1>3, <3>1 DEF EntryOK
    <2>2. CASE e \in Range(a.blocks)
      <3>1. PICK p \in news : e = a.blocks[p]
        BY ONLY <1>7, <2>2 DEF Range
      <3>2. e.num = l
        BY ONLY <1>6, <3>1
      <3>4. l \in 0 .. l
        BY ONLY <1>1
      <3>3. a.delta /\ b \in P /\ b.split /\ b.num = e.num /\ b.inc = a.inc
        BY <1>3, <1>4, <3>2
      <3> QED BY <3>2, <3>3, <3>4 DEF EntryOK
    <2> QED BY <2>1, <2>2 DEF EntriesOf
  <1>15. NewFiles({a, b}, n, l, i, P)
    <2>1. IsFiniteSet({a, b})
      <3>1. IsFiniteSet({a}) /\ IsFiniteSet({b})
        BY FS_Singleton
      <3>2. IsFiniteSet({a} \cup {b})
        BY <3>1, FS_Union
      <3>3. {a} \cup {b} = {a, b}
        OBVIOUS
      <3> QED BY <3>2, <3>3
    <2>2. /\ a.num \in n + 1 .. l /\ b.num \in n + 1 .. l /\ n < l /\ a.num < b.num
          /\ ~(b.num < a.num) /\ a.num # b.num /\ ~(a.num < a.num) /\ ~(b.num < b.num)
          /\ \A x \in n + 1 .. l : a.num = x \/ b.num = x
      BY <1>1, <1>3, <1>4
    <2>3. ~IsHole(a.reserved[1]) /\ a.reserved[1].num = a.num
      BY <1>3, <1>9
    <2>4. /\ FileOK(a, l, i + 1) /\ a.inc = i + 1 /\ a.merged = {}
          /\ FileOK(b, l, i + 1) /\ b.inc = i + 1 /\ b.merged = {} /\ b.split
      BY <1>3, <1>4, <1>12, <1>13
    <2> QED BY <1>1, <1>10, <1>14, <2>1, <2>2, <2>3, <2>4 DEF NewFiles
  <1>16. /\ \A h \in P : h.num = k => h = a
         /\ \A h \in P : h.num = l => h = b
    BY <1>1, <1>3, <1>4
  <1>17. /\ \A p \in news \cup {ReservedAt} : now[p] \in Nat \X Nat
         /\ \A p \in Places \ news : now[p] = disk[p]
    <2>1. WrittenFacts(now, news, empty)
      BY <1>1, WrittenIs
    <2> QED BY <2>1 DEF WrittenFacts
  <1>18. ASSUME NEW p \in news PROVE Gives(a, a.blocks[p], now[p], P)
    <2>1. now[p] \in Nat \X Nat /\ a.blocks[p].pos \in DOMAIN b.data
          /\ b.data[a.blocks[p].pos] = Append(now[p], s) /\ b.settings = s
      BY <1>4, <1>6, <1>17
    <2>2. Holds(b, a.blocks[p], now[p])
      BY ONLY <2>1 DEF Holds
    <2> QED BY <1>6, <1>16, <2>2 DEF Gives
  <1>19. Gives(a, a.reserved[1], now[ReservedAt], P)
    <2>1. /\ now[ReservedAt] \in Nat \X Nat /\ Entry(k, 1).pos \in DOMAIN a.data
          /\ a.data[Entry(k, 1).pos] = Append(now[ReservedAt], s) /\ a.settings = s
      <3>1. now[ReservedAt] \in Nat \X Nat
        BY <1>17
      <3>2. Entry(k, 1).pos = 1
        BY <1>9
      <3> QED BY ONLY <1>2, <1>3, <1>5, <3>1, <3>2
    <2>2. Holds(a, Entry(k, 1), now[ReservedAt])
      BY ONLY <2>1 DEF Holds
    <2> QED BY <1>9, <1>16, <2>2 DEF Gives
  <1>20. Values(a, P, later)
    <2>1. ~a.split /\ a.delta /\ a.num - 1 = n
      BY <1>1, <1>3
    <2>2. later[Moment(a)] = now /\ later[a.num - 1] = disk
      BY <1>11, <2>1
    <2> QED BY <1>7, <1>11, <1>17, <1>18, <1>19, <2>1, <2>2 DEF Values
  <1>21. Values(b, P, later)
    <2>1. b.split /\ ~b.delta /\ b.num - 1 = k /\ DOMAIN b.blocks = {}
      BY <1>1, <1>4
    <2>2. later[b.num] = now /\ later[b.num - 1] = now
      BY <1>4, <2>1
    <2> QED BY <1>11, <2>1, <2>2 DEF Values
  <1> QED BY <1>15, <1>20, <1>21

-----------------------------------------------------------------------------
(* The first state.                                                        *)

\* The disk before the Full has blocks where the Full covers it, and nothing elsewhere.
LEMMA FirstDiskIs ==
  /\ FirstDisk \in Disks /\ FirstDisk[ReservedAt] \in Nat \X Nat
  /\ \A p \in 0 .. FullLength - 1 : FirstDisk[p] \in Nat \X Nat
  /\ \A p \in Places \ (0 .. FullLength - 1) : FirstDisk[p] = Nothing
  /\ 0 .. FullLength - 1 \subseteq Places
  <1>1. /\ Positions \in Nat /\ FullLength \in Nat /\ FullLength <= Positions
        /\ Places \subseteq Nat /\ ReservedAt \in Nat /\ ReservedAt \notin Places
        /\ 0 .. FullLength - 1 \subseteq Places
    BY SizeAssumption DEF Places, ReservedAt
  <1>2. FirstDisk = [p \in Spots |-> IF p < FullLength \/ p = ReservedAt THEN <<0, p>>
                                     ELSE Nothing]
    BY DEF FirstDisk, Spots
  <1> USE DEF Spots
  <1>3. \A p \in Spots : p \in Nat
    BY <1>1
  <1>4. ASSUME NEW p \in Spots PROVE FirstDisk[p] \in {Nothing} \cup (Nat \X Nat)
    BY <1>2, <1>3
  <1>5. FirstDisk \in Disks
    BY <1>2, <1>4 DEF Disks
  <1>6. FirstDisk[ReservedAt] \in Nat \X Nat
    BY <1>1, <1>2
  <1>7. ASSUME NEW p \in 0 .. FullLength - 1 PROVE FirstDisk[p] \in Nat \X Nat
    <2>1. p \in Spots /\ p < FullLength /\ p \in Nat
      BY <1>1
    <2> QED BY <1>2, <2>1
  <1>8. ASSUME NEW p \in Places \ (0 .. FullLength - 1) PROVE FirstDisk[p] = Nothing
    <2>1. p \in Spots /\ ~(p < FullLength) /\ p # ReservedAt
      BY <1>1
    <2> QED BY <1>2, <2>1
  <1> QED BY <1>1, <1>5, <1>6, <1>7, <1>8

\* A Full alone is right.
LEMMA FullIs ==
  ASSUME NEW s \in Settings, NEW news, news = 0 .. FullLength - 1, NEW empty, empty = {},
         NEW rest \in BlockMaps(Positions, EntrySet), DOMAIN rest = {},
         NEW f, BackupFacts(f, 0, FirstDisk, s, news, empty, rest),
         f.inc = 0, f.delta = FALSE, f.diff = FALSE,
         NEW im, im[0] = FirstDisk, NEW P, P = {f}
  PROVE  /\ Shape(P, 0, 0) /\ HasFull(P) /\ Intervals(P, FALSE) /\ Accounted(P, 0)
         /\ EntriesOK(P, 0) /\ Values(f, P, im)
  <1>1. /\ f.num = 0 /\ f.merged = {} /\ f.split = FALSE /\ f.settings = s
        /\ DOMAIN f.blocks = news /\ f.reserved = <<Entry(0, 1)>>
    BY DEF BackupFacts
  <1>2. Touched(news, empty)
    BY FirstDiskIs DEF Touched
  <1>3. EntryFacts(f, 0, news, empty, rest)
    BY <1>2, BackupEntries
  <1>4. Owned(f) = {0} /\ Moment(f) = 0 /\ IsFullIndex(f)
    BY <1>1, MomentOfOne DEF IsFullIndex
  <1>5. FileOK(f, 0, 0)
    <2>1. f.num \in Nat /\ f.inc \in 0 .. 0 /\ Owned(f) \subseteq f.num .. 0 /\ f.num = 0
      BY <1>1, <1>4
    <2>2. /\ f.delta \in BOOLEAN /\ f.split \in BOOLEAN /\ f.diff \in BOOLEAN
          /\ ~f.split /\ ~f.delta /\ ~f.diff
      BY <1>1
    <2>3. Len(f.reserved) = IF f.split THEN 0 ELSE 1
      BY <1>3, <2>2 DEF EntryFacts
    <2>4. f.blocks \in BlockMaps(Positions, EntrySet) /\ f.reserved \in Seq(EntrySet)
      BY <1>3 DEF EntryFacts
    <2> QED BY <1>1, <1>4, <2>1, <2>2, <2>3, <2>4 DEF FileOK
  <1>6. Shape(P, 0, 0)
    <2>1. IsFiniteSet(P)
      BY FS_Singleton
    <2>2. ~(f.num < f.num)
      BY <1>1
    <2> QED BY <1>5, <2>1, <2>2 DEF Shape, Order, Laminar, SplitAlone, FullsOver
  <1>7. HasFull(P) /\ Intervals(P, FALSE) /\ Accounted(P, 0)
    BY <1>1, <1>4 DEF HasFull, Intervals, Accounted
  <1>8. EntriesOK(P, 0)
    <2>1. ASSUME NEW e \in EntriesOf(f) PROVE e.num \in 0 .. 0 /\ EntryOK(f, e, P)
      <3>1. e = Hole \/ (e.num = 0 /\ e.pos \in DOMAIN f.data)
        BY <1>3 DEF EntryFacts
      <3> QED BY <1>1, <3>1 DEF EntryOK, Hole, IsHole
    <2> QED BY <1>1, <1>3, <2>1 DEF EntriesOK, EntryFacts
  <1>9. \A p \in news : Gives(f, f.blocks[p], FirstDisk[p], P)
    <2> TAKE p \in news
    <2>1. f.blocks[p].num = 0 /\ ~IsHole(f.blocks[p]) /\ Holds(f, f.blocks[p], FirstDisk[p])
      <3>1. FirstDisk[p] \in Nat \X Nat
        BY FirstDiskIs
      <3>2. BackupFacts(f, 0, FirstDisk, s, news, empty, rest)
        OBVIOUS
      <3>3. p \in news
        OBVIOUS
      <3>4. NewsHeld(f, p, 0, FirstDisk[p], s)
        BY ONLY <3>2, <3>3, BackupHoldsNews
      <3> QED BY ONLY <3>1, <3>4 DEF NewsHeld
    <2> QED BY ONLY <1>1, <2>1, P = {f} DEF Gives
  <1>10. Gives(f, f.reserved[1], FirstDisk[ReservedAt], P)
    <2>1. f.reserved[1] = Entry(0, 1) /\ f.reserved[1].pos \in DOMAIN f.data
          /\ ~IsHole(f.reserved[1])
      BY <1>1, <1>3 DEF EntryFacts
    <2>2. Holds(f, f.reserved[1], FirstDisk[ReservedAt])
      <3>1. FirstDisk[ReservedAt] \in Nat \X Nat
        BY FirstDiskIs
      <3>2. BackupFacts(f, 0, FirstDisk, s, news, empty, rest)
        OBVIOUS
      <3> QED BY ONLY <3>1, <3>2, BackupHoldsReserved
    <2> QED BY <2>1, <2>2 DEF Gives
  <1>11. \A p \in Places \ DOMAIN f.blocks : FirstDisk[p] = Nothing
    BY <1>1, FirstDiskIs
  <1>12. Values(f, P, im)
    <2>1. ~f.split /\ ~f.delta /\ im[Moment(f)] = FirstDisk
      BY <1>1, <1>4
    <2> QED BY <1>1, <1>9, <1>10, <1>11, <2>1 DEF Values
  <1> QED BY <1>6, <1>7, <1>8, <1>12

\* The invariant holds when the Full is all there is.
LEMMA InitInv == Init => Inv
  <1> SUFFICES ASSUME Init PROVE Inv
    OBVIOUS
  <1>1. PICK s \in Settings : dir = {Full(s)}
    BY DEF Init
  <1> DEFINE f == Full(s)
             news == 0 .. FullLength - 1
  <1>2. BackupFacts(f, 0, FirstDisk, s, news, {}, <<>>)
    <2>1. Touched(news, {})
      BY FirstDiskIs DEF Touched
    <2> HIDE DEF news
    <2>2. f = BackupFile(0, 0, FALSE, FALSE, s, FirstDisk, news, {}, <<>>)
      BY DEF Full, news
    <2> HIDE DEF f
    <2> QED BY <2>1, <2>2, BackupFileIs
  <1>3. f.inc = 0 /\ f.delta = FALSE /\ f.diff = FALSE
    BY DEF Full, BackupFile
  <1>4. image[0] = FirstDisk /\ dir = {f}
    BY <1>1 DEF Init
  <1> HIDE DEF f, news
  <1>5. /\ Shape(dir, 0, 0) /\ HasFull(dir) /\ Intervals(dir, FALSE) /\ Accounted(dir, 0)
        /\ EntriesOK(dir, 0) /\ Values(f, dir, image)
    <2>1. \E news2, empty, rest : /\ news2 = 0 .. FullLength - 1 /\ empty = {}
                                  /\ rest \in BlockMaps(Positions, EntrySet) /\ DOMAIN rest = {}
                                  /\ BackupFacts(f, 0, FirstDisk, s, news2, empty, rest)
      BY <1>2, EmptyRest DEF news
    <2> QED BY <1>3, <1>4, <2>1, FullIs
  <1>6. last.num = 0 /\ last.inc = 0 /\ job = {} /\ flaws = {} /\ disk = FirstDisk
    BY DEF Init
  <1>7. Images
    <2>1. DOMAIN image = {0} /\ 0 .. last.num = {0}
      BY <1>6 DEF Init
    <2> QED BY <1>4, <1>6, <2>1, FirstDiskIs DEF Images, Disks
  <1>8. MaxNumber \in Nat
    BY SizeAssumption
  <1>9. Intervals(dir, "gap" \in flaws)
    BY <1>5, <1>6 DEF Intervals
  <1>10. job \subseteq dir /\ JobCovered(dir, job) /\ flaws \subseteq {"stranded", "gap"}
    BY <1>6 DEF JobCovered
  <1>11. last.num \in 0 .. MaxNumber /\ last.inc \in 0 .. last.num
    BY <1>6, <1>8
  <1>12. Shape(dir, last.num, last.inc) /\ EntriesOK(dir, last.num)
    BY <1>5, <1>6
  <1>13. "gap" \notin flaws => Accounted(dir, last.num)
    BY <1>5, <1>6
  <1>14. \A g \in dir : Values(g, dir, image)
    BY <1>4, <1>5
  <1> QED BY <1>5, <1>7, <1>9, <1>10, <1>11, <1>12, <1>13, <1>14 DEF Inv

-----------------------------------------------------------------------------
(* Every action keeps the invariant: what Reflect does.                    *)

\* A backup adds the files F, and remembers what the disk holds now.
LEMMA BackupStep ==
  ASSUME Inv, NEW F, NEW now \in Disks, NEW m \in Nat, Backup(F, now),
         {f.num : f \in F} = last.num + 1 .. m,
         NewFiles(F, last.num, m, last.inc, dir \cup F),
         "stranded" \notin flaws => \A f \in F : Values(f, dir \cup F, image')
  PROVE  Inv'
  <1> DEFINE n == last.num
             i == last.inc
             numbers == {f.num : f \in F}
             P == dir \cup F
             gap == "gap" \in flaws
  <1>1. /\ Shape(dir, n, i) /\ HasFull(dir) /\ EntriesOK(dir, n) /\ Intervals(dir, gap)
        /\ (~gap => Accounted(dir, n)) /\ Images
        /\ n \in 0 .. MaxNumber /\ i \in 0 .. n
        /\ flaws \subseteq {"stranded", "gap"}
        /\ "stranded" \notin flaws => \A f \in dir : Values(f, dir, image)
    BY DEF Inv
  <1>2. n \in Nat /\ i \in Nat /\ n < m /\ MaxNumber \in Nat
    BY <1>1, SizeAssumption DEF NewFiles
  <1>3. Max(numbers) = m
    <2> DEFINE S == n + 1 .. m
    <2>1. S \in SUBSET Int /\ m \in S /\ \A x \in S : x <= m
      BY <1>2
    <2> HIDE DEF S
    <2>2. Max(S) \in S /\ \A x \in S : x <= Max(S)
      BY <2>1, MaxIsMember
    <2>3. Max(S) = m
      <3>1. Max(S) \in Int /\ Max(S) <= m /\ m <= Max(S)
        BY <2>1, <2>2
      <3> QED BY <3>1
    <2> QED BY <2>3 DEF S
  <1>4. /\ job = {} /\ m <= MaxNumber /\ dir' = P /\ disk' = now
        /\ last' = [num |-> m, inc |-> i + 1] /\ job' = job /\ flaws' = flaws
        /\ image' = [k \in DOMAIN image \cup numbers |->
                       IF k \in numbers THEN now ELSE image[k]]
    BY <1>3 DEF Backup, Settled
  <1>5. /\ DOMAIN image' = 0 .. m
        /\ \A k \in 0 .. n : image'[k] = image[k]
        /\ \A k \in n + 1 .. m : image'[k] = now
    <2>1. DOMAIN image = 0 .. n /\ numbers = n + 1 .. m
      BY <1>1 DEF Images
    <2> HIDE DEF numbers, n
    <2>2. 0 .. n \cup n + 1 .. m = 0 .. m /\ \A k \in 0 .. n : k \notin n + 1 .. m
      BY <1>2
    <2> QED BY <1>4, <2>1, <2>2
  <1> HIDE DEF numbers
  <1>6. /\ Shape(P, m, i + 1) /\ HasFull(P) /\ Intervals(P, gap)
        /\ (~gap => Accounted(P, m)) /\ EntriesOK(P, m)
    <2>1. gap \in BOOLEAN
      OBVIOUS
    <2> HIDE DEF gap, n, i
    <2> QED BY <1>1, <2>1, AddFiles DEF n, i
  <1>7. ASSUME "stranded" \notin flaws, NEW f \in P PROVE Values(f, P, image')
    <2>1. CASE f \in F
      BY <1>7, <2>1
    <2>2. CASE f \in dir
      <3> DEFINE later == image'
      <3>1. Values(f, dir, image) /\ \A k \in 0 .. n : later[k] = image[k]
        BY <1>1, <1>5, <1>7, <2>2
      <3> HIDE DEF later, n, i
      <3>2. Values(f, P, later)
        BY <1>1, <2>2, <3>1, OlderValues DEF n, i
      <3> QED BY <3>2 DEF later
    <2> QED BY <2>1, <2>2
  <1> HIDE DEF n, i, P
  <1>8. last'.num = m /\ last'.inc = i + 1
    BY <1>4
  <1>9. Images'
    <2>1. \A k \in 0 .. m : image'[k] \in Disks
      <3> TAKE k \in 0 .. m
      <3>1. CASE k \in 0 .. n
        BY <1>1, <1>5, <3>1 DEF Images, Disks, n
      <3>2. CASE k \in n + 1 .. m
        BY <1>5, <3>2
      <3> QED BY <1>2, <3>1, <3>2
    <2>2. image'[m] = now
      BY <1>2, <1>5
    <2> QED BY <1>4, <1>5, <1>8, <2>1, <2>2 DEF Images, Disks
  <1>10. last'.num \in 0 .. MaxNumber /\ last'.inc \in 0 .. last'.num
    BY <1>1, <1>2, <1>4, <1>8
  <1>11. job' \subseteq dir' /\ JobCovered(dir', job')
    BY <1>4 DEF JobCovered
  <1>12. Intervals(dir', "gap" \in flaws')
    BY <1>4, <1>6 DEF Intervals
  <1>13. "gap" \notin flaws' => Accounted(dir', last'.num)
    BY <1>4, <1>6, <1>8
  <1>14. Shape(dir', last'.num, last'.inc) /\ HasFull(dir') /\ EntriesOK(dir', last'.num)
    BY <1>4, <1>6, <1>8
  <1>15. "stranded" \notin flaws' => \A f \in dir' : Values(f, dir', image')
    BY <1>4, <1>7
  <1>16. flaws' \subseteq {"stranded", "gap"}
    BY <1>1, <1>4
  <1> QED BY <1>9, <1>10, <1>11, <1>12, <1>13, <1>14, <1>15, <1>16 DEF Inv

\* An Incremental keeps the invariant.
LEMMA IncrementalStep == ASSUME Inv, Incremental PROVE Inv'
  <1> DEFINE n == last.num
             k == n + 1
             j == last.inc + 1
  <1>0. PICK news \in SUBSET Places :
          \E empty \in SUBSET (Places \ news), s \in Settings :
            Backup({BackupFile(k, j, TRUE, FALSE, s, Written(k, news, empty), news, empty, <<>>)},
                   Written(k, news, empty))
    BY DEF Incremental
  <1>1. PICK empty \in SUBSET (Places \ news), s \in Settings :
          Backup({BackupFile(k, j, TRUE, FALSE, s, Written(k, news, empty), news, empty, <<>>)},
                 Written(k, news, empty))
    BY <1>0
  <1> DEFINE now == Written(k, news, empty)
             f   == BackupFile(k, j, TRUE, FALSE, s, now, news, empty, <<>>)
             F   == {f}
             P   == dir \cup F
  <1>2. Backup(F, now)
    BY <1>1
  <1>3. /\ Touched(news, empty) /\ Shape(dir, n, last.inc) /\ n \in Nat /\ k \in Nat
        /\ disk \in Disks /\ image[n] = disk
    BY DEF Inv, Images, Disks, Touched
  <1>4. f.inc = j /\ f.delta = TRUE /\ f.diff = FALSE /\ f.num = k
    BY DEF BackupFile
  <1>5. BackupFacts(f, k, now, s, news, empty, <<>>)
    <2> DEFINE delta == TRUE
               diff == FALSE
               rest == <<>>
    <2>1. f = BackupFile(k, j, delta, diff, s, now, news, empty, rest)
      OBVIOUS
    <2> HIDE DEF k, j, now, f, delta, diff, rest
    <2>2. BackupFacts(f, k, now, s, news, empty, rest)
      BY <1>3, <2>1, BackupFileIs
    <2> QED BY <2>2 DEF rest
  <1> HIDE DEF f
  <1>6. now \in Disks
    <2>1. WrittenFacts(now, news, empty)
      <3> HIDE DEF k
      <3> QED BY <1>3, WrittenIs
    <2> QED BY <2>1 DEF WrittenFacts
  <1>7. image'[n] = disk /\ image'[k] = now
    <2>1. image' = [x \in DOMAIN image \cup {k} |-> IF x \in {k} THEN now ELSE image[x]]
      <3>1. {g.num : g \in F} = {k}
        BY <1>4
      <3> QED BY <1>2, <3>1 DEF Backup
    <2>2. n \in DOMAIN image /\ n # k
      BY <1>3 DEF Inv, Images
    <2> HIDE DEF now, k, n
    <2> QED BY <1>3, <2>1, <2>2
  <1>8. NewFiles(F, n, k, last.inc, P) /\ Values(f, P, image')
    <2> DEFINE rest == <<>>
               later == image'
               i == last.inc
    <2>1. rest \in BlockMaps(Positions, EntrySet) /\ DOMAIN rest = {}
      BY EmptyRest
    <2>2. BackupFacts(f, k, now, s, news, empty, rest)
      BY <1>5
    <2>3. k = n + 1 /\ j = i + 1 /\ now = Written(k, news, empty)
          /\ F = {f} /\ P = dir \cup {f} /\ later[n] = disk /\ later[k] = now
      BY <1>7
    <2>4. Shape(dir, n, i)
      BY <1>3
    <2> HIDE DEF now, k, j, n, rest, later, i, F, P
    <2>5. NewDelta(dir, n, i, news, empty, s, k, j, now, rest, f, P, later)
      BY <1>3, <1>4, <2>1, <2>2, <2>3 DEF NewDelta
    <2>6. NewFiles({f}, n, k, i, P) /\ Values(f, P, later)
      BY <1>3, <2>4, <2>5, IncrementalAdds
    <2> QED BY <2>3, <2>6 DEF later, i
  <1>9. {g.num : g \in F} = n + 1 .. k
    <2>1. n + 1 .. k = {k}
      BY <1>3
    <2> QED BY <1>4, <2>1
  <1> HIDE DEF F, now, k
  <1> QED BY <1>2, <1>3, <1>6, <1>8, <1>9, BackupStep DEF F

\* So does one cut in two,
LEMMA SplitStep == ASSUME Inv, SplitIncremental PROVE Inv'
  <1> DEFINE n == last.num
             k == n + 1
             l == n + 2
             j == last.inc + 1
             File(news, s) ==
               BackupFile(k, j, TRUE, FALSE, s, Written(k, news, {}), news, {}, <<>>)
  <1>1. PICK news \in SUBSET Places, s \in Settings :
          Backup({Parent(File(news, s)), Continuation(File(news, s))}, Written(k, news, {}))
    BY DEF SplitIncremental
  <1> DEFINE now == Written(k, news, {})
             f   == BackupFile(k, j, TRUE, FALSE, s, now, news, {}, <<>>)
             a   == Parent(f)
             b   == Continuation(f)
             F   == {a, b}
             P   == dir \cup F
  <1>2. Backup(F, now)
    BY <1>1
  <1> HIDE DEF File
  <1>3. /\ Touched(news, {}) /\ Shape(dir, n, last.inc) /\ n \in Nat /\ k \in Nat /\ l \in Nat
        /\ disk \in Disks /\ image[n] = disk /\ s \in Settings
    BY DEF Inv, Images, Disks, Touched
  <1>4. f.inc = j /\ f.delta = TRUE /\ f.diff = FALSE /\ f.num = k
    BY DEF BackupFile
  <1> DEFINE empty == {}
             rest  == <<>>
  <1>5. BackupFacts(f, k, now, s, news, empty, rest) /\ CutFacts(f, a, b)
    <2> DEFINE delta == TRUE
               diff  == FALSE
    <2>1. f = BackupFile(k, j, delta, diff, s, now, news, empty, rest) /\ Touched(news, empty)
      BY <1>3
    <2> HIDE DEF k, j, now, f, delta, diff, rest, empty
    <2>2. BackupFacts(f, k, now, s, news, empty, rest)
      BY <1>3, <2>1, BackupFileIs
    <2>3. CutFacts(f, Parent(f), Continuation(f))
      BY <2>1, CutIs
    <2> QED BY <2>2, <2>3
  <1> HIDE DEF f
  <1>6. now \in Disks
    <2>1. WrittenFacts(now, news, empty)
      <3>1. now = Written(k, news, empty) /\ Touched(news, empty)
        BY <1>3
      <3> HIDE DEF k, empty, now
      <3> QED BY <1>3, <3>1, WrittenIs
    <2> QED BY <2>1 DEF WrittenFacts
  <1> HIDE DEF a, b
  <1>7. a.num = k /\ b.num = l
    <2>1. a.num = k /\ b.num = k + 1
      BY <1>4, <1>5 DEF CutFacts
    <2> QED BY <1>3, <2>1
  <1>8. {g.num : g \in F} = {k, l}
    BY <1>7
  <1>9. image'[n] = disk /\ image'[k] = now /\ image'[l] = now
    <2>1. image' = [x \in DOMAIN image \cup {k, l} |-> IF x \in {k, l} THEN now ELSE image[x]]
      BY <1>2, <1>8 DEF Backup
    <2>2. n \in DOMAIN image /\ n # k /\ n # l
      BY <1>3 DEF Inv, Images
    <2> HIDE DEF now, k, l, n
    <2> QED BY <1>3, <2>1, <2>2
  <1>10. /\ NewFiles(F, n, l, last.inc, P)
         /\ Values(a, P, image') /\ Values(b, P, image')
    <2> DEFINE later == image'
               i     == last.inc
    <2>1. rest \in BlockMaps(Positions, EntrySet) /\ DOMAIN rest = {}
      BY EmptyRest
    <2>2. BackupFacts(f, k, now, s, news, empty, rest) /\ CutFacts(f, a, b)
      BY <1>5
    <2>3. k = n + 1 /\ l = n + 2 /\ j = i + 1 /\ now = Written(k, news, empty)
          /\ empty = {} /\ F = {a, b} /\ P = dir \cup {a, b}
          /\ later[n] = disk /\ later[k] = now /\ later[l] = now
      BY <1>9
    <2>4. Shape(dir, n, i) /\ Touched(news, empty)
      BY <1>3
    <2> HIDE DEF now, k, l, j, n, rest, later, i, F, P, empty
    <2>5. NewPair(dir, n, i, news, empty, s, k, l, j, now, rest, f, a, b, P, later)
      BY <1>3, <1>4, <2>1, <2>2, <2>3, <2>4 DEF NewPair
    <2>6. NewFiles({a, b}, n, l, i, P) /\ Values(a, P, later) /\ Values(b, P, later)
      BY <1>3, <2>4, <2>5, SplitAdds
    <2> QED BY <2>3, <2>6 DEF later, i
  <1>11. {g.num : g \in F} = n + 1 .. l
    <2>1. n + 1 .. l = {k, l}
      BY <1>3
    <2> QED BY <1>8, <2>1
  <1>12. \A g \in F : Values(g, P, image')
    BY <1>10
  <1> HIDE DEF F, now, k, l
  <1> QED BY <1>2, <1>3, <1>6, <1>10, <1>11, <1>12, BackupStep

\* and a Differential over any Full, merged or not.
LEMMA DifferentialStep == ASSUME Inv, Differential PROVE Inv'
  <1> DEFINE n == last.num
             k == n + 1
             j == last.inc + 1
             Was(full) == image[Max(Owned(full))]
             Empty(now) == {p \in Places : now[p] = Nothing}
             News(now, was) == {p \in Places \ Empty(now) : now[p] # was[p]}
             File(full, now, s) ==
               BackupFile(k, j, FALSE, TRUE, s, now, News(now, Was(full)), Empty(now),
                          full.blocks)
  <1>1. PICK full \in dir, touched \in SUBSET Places, s \in Settings :
          /\ full.num = 0 /\ IsFullIndex(full)
          /\ Backup({File(full, Written(k, touched, {}), s)}, Written(k, touched, {}))
    BY DEF Differential
  <1> DEFINE now == Written(k, touched, {})
             was == Was(full)
             empty == Empty(now)
             news == News(now, was)
             f == BackupFile(k, j, FALSE, TRUE, s, now, news, empty, full.blocks)
             F == {f}
             P == dir \cup F
  <1>2. Backup(F, now) /\ full.num = 0 /\ IsFullIndex(full)
    BY <1>1
  <1>3. /\ Shape(dir, n, last.inc) /\ n \in Nat /\ k \in Nat /\ EntriesOK(dir, n)
        /\ disk \in Disks /\ image[n] = disk /\ s \in Settings /\ full \in dir
        /\ ("stranded" \notin flaws => Values(full, dir, image))
    BY DEF Inv, Images, Disks
  <1>4. f.inc = j /\ f.delta = FALSE /\ f.diff = TRUE /\ f.num = k
    BY DEF BackupFile
  <1>5. now \in Disks /\ now[ReservedAt] \in Nat \X Nat
    <2> DEFINE none == {}
    <2>1. now = Written(k, touched, none) /\ Touched(touched, none)
      BY DEF Touched
    <2> HIDE DEF now, k, none
    <2>2. WrittenFacts(now, touched, none)
      BY <1>3, <2>1, WrittenIs
    <2> QED BY <2>2 DEF WrittenFacts
  <1>6. /\ empty = {p \in Places : now[p] = Nothing}
        /\ news = {p \in Places \ empty : now[p] # was[p]}
        /\ was = image[Moment(full)]
    BY DEF Moment
  <1>7. BackupFacts(f, k, now, s, news, empty, full.blocks)
    <2> DEFINE delta == FALSE
               diff  == TRUE
    <2>1. f = BackupFile(k, j, delta, diff, s, now, news, empty, full.blocks)
      OBVIOUS
    <2>2. Touched(news, empty)
      BY DEF Touched
    <2> HIDE DEF k, j, now, f, delta, diff, news, empty
    <2> QED BY <1>3, <2>1, <2>2, BackupFileIs
  <1> HIDE DEF f, news, empty, was, Was, Empty, News, File
  <1>8. {g.num : g \in F} = {k}
    BY <1>4
  <1>9. image'[k] = now
    <2>1. image' = [x \in DOMAIN image \cup {k} |-> IF x \in {k} THEN now ELSE image[x]]
      BY <1>2, <1>8 DEF Backup
    <2> HIDE DEF now, k
    <2> QED BY <2>1
  <1>10. NewFiles(F, n, k, last.inc, P) /\ (Values(full, dir, image) => Values(f, P, image'))
    <2> DEFINE later == image'
               i == last.inc
               im == image
    <2>1. k = n + 1 /\ j = i + 1 /\ F = {f} /\ P = dir \cup {f} /\ later[k] = now
          /\ was = im[Moment(full)]
      BY <1>6, <1>9
    <2>2. Shape(dir, n, i) /\ OneOwnerEach(dir)
      BY <1>2, <1>3 DEF Backup, Settled
    <2> HIDE DEF now, k, j, n, later, i, F, P, im
    <2>3. NewDifferential(dir, n, i, full, k, j, now, was, empty, news, s, f, P, later, im)
      BY <1>2, <1>3, <1>4, <1>5, <1>6, <1>7, <2>1 DEF NewDifferential
    <2>4. NewFiles({f}, n, k, i, P) /\ (Values(full, dir, im) => Values(f, P, later))
      BY <1>3, <2>2, <2>3, DifferentialAdds
    <2> QED BY <2>1, <2>4 DEF later, i, im
  <1>11. {g.num : g \in F} = n + 1 .. k
    <2>1. n + 1 .. k = {k}
      BY <1>3
    <2> QED BY <1>8, <2>1
  <1>12. "stranded" \notin flaws => \A g \in F : Values(g, P, image')
    BY <1>3, <1>10
  <1> HIDE DEF F, now, k
  <1> QED BY <1>2, <1>3, <1>5, <1>10, <1>11, <1>12, BackupStep

-----------------------------------------------------------------------------
(* Every action keeps the invariant: what the program and a person do.     *)

\* Files may go as long as what is left is a set like before.
LEMMA Removal ==
  ASSUME Inv, NEW P \in SUBSET dir, dir' = P, UNCHANGED <<disk, last, image, flaws>>,
         Shape(P, last.num, last.inc), HasFull(P), EntriesOK(P, last.num),
         Intervals(P, "gap" \in flaws), "gap" \notin flaws => Accounted(P, last.num),
         job' \subseteq P, JobCovered(P, job')
  PROVE  Inv'
  <1>1. "stranded" \notin flaws => \A f \in P : Values(f, P, image)
    <2> SUFFICES ASSUME "stranded" \notin flaws, NEW f \in P PROVE Values(f, P, image)
      OBVIOUS
    <2>1. Values(f, dir, image)
      BY DEF Inv
    <2> QED BY <2>1, ValuesOfPart
  <1>2. Images'
    BY DEF Inv, Images
  <1>3. Intervals(dir', "gap" \in flaws')
    BY DEF Intervals
  <1>4. "gap" \notin flaws' => Accounted(dir', last'.num)
    OBVIOUS
  <1>5. "stranded" \notin flaws' => \A f \in dir' : Values(f, dir', image')
    BY <1>1
  <1>6. /\ last'.num \in 0 .. MaxNumber /\ last'.inc \in 0 .. last'.num
        /\ flaws' \subseteq {"stranded", "gap"}
    BY DEF Inv
  <1> QED BY <1>2, <1>3, <1>4, <1>5, <1>6 DEF Inv

\* One covered file may go.
LEMMA CoveredGoes ==
  ASSUME Inv, NEW f \in dir, NEW o \in dir, o # f, Owned(f) \subseteq Owned(o),
         dir' = dir \ {f}, UNCHANGED <<disk, last, image, flaws>>,
         job' \subseteq dir \ {f}, JobCovered(dir \ {f}, job')
  PROVE  Inv'
  <1> DEFINE gap == "gap" \in flaws
             P == dir \ {f}
             n == last.num
             i == last.inc
  <1>1. /\ Shape(dir, n, i) /\ HasFull(dir) /\ EntriesOK(dir, n) /\ gap \in BOOLEAN
        /\ Intervals(dir, gap) /\ (~gap => Accounted(dir, n))
    BY DEF Inv
  <1>2. /\ Shape(P, n, i) /\ HasFull(P) /\ EntriesOK(P, n)
        /\ Intervals(P, gap) /\ (~gap => Accounted(P, n))
    <2> HIDE DEF gap, n, i
    <2> QED BY <1>1, RemoveCovered
  <1> QED BY <1>2, Removal

\* A deletion takes a file that the output covers, and leaves the rest so.
LEMMA DeleteIs ==
  ASSUME Inv, Delete
  PROVE  \E f \in dir, o \in dir :
           /\ o # f /\ Owned(f) \subseteq Owned(o) /\ dir' = dir \ {f}
           /\ job' \subseteq dir \ {f} /\ JobCovered(dir \ {f}, job')
  <1> DEFINE First(g) == g \in job /\ \A h \in job : Min(Owned(g)) <= Min(Owned(h))
             f == CHOOSE g \in job : \A h \in job : Min(Owned(g)) <= Min(Owned(h))
  <1>1. /\ job # {} /\ dir' = dir \ {f} /\ job' = job \ {f}
        /\ UNCHANGED <<disk, last, image, flaws>>
    BY DEF Delete
  <1>2. job \subseteq dir /\ Shape(dir, last.num, last.inc) /\ JobCovered(dir, job)
    BY DEF Inv
  <1>3. \A g \in dir : FileFacts(g, last.num, last.inc)
    BY <1>2, FilesAre
  <1>4. \A g \in job : Min(Owned(g)) = g.num
    <2> TAKE g \in job
    <2>1. FileFacts(g, last.num, last.inc)
      BY <1>2, <1>3
    <2>2. /\ Owned(g) \in SUBSET Nat /\ Owned(g) # {} /\ g.num \in Owned(g) /\ g.num \in Nat
          /\ \A k \in Owned(g) : g.num <= k
      BY <2>1 DEF FileFacts
    <2>3. Min(Owned(g)) \in Owned(g) /\ \A k \in Owned(g) : Min(Owned(g)) <= k
      BY <2>2, MinIsMember
    <2>4. Min(Owned(g)) \in Nat /\ Min(Owned(g)) <= g.num /\ g.num <= Min(Owned(g))
      BY <2>2, <2>3
    <2> QED BY <2>2, <2>4
  <1>5. f \in job
    <2> DEFINE S == {g.num : g \in job}
    <2>1. S \in SUBSET Nat /\ S # {}
      BY <1>1, <1>2, <1>3 DEF FileFacts
    <2>2. PICK x \in S : \A y \in S : x <= y
      <3> HIDE DEF S
      <3> QED BY <2>1, LeastNatural
    <2>3. PICK g \in job : g.num = x
      OBVIOUS
    <2>4. \A h \in job : Min(Owned(g)) <= Min(Owned(h))
      BY <1>4, <2>2, <2>3
    <2> QED BY <2>4
  <1> HIDE DEF f
  <1>6. PICK o \in dir \ job : \A g \in job : Owned(g) \subseteq Owned(o)
    BY <1>1, <1>2 DEF JobCovered
  <1>7. o # f /\ f \in dir /\ Owned(f) \subseteq Owned(o)
    BY <1>2, <1>5, <1>6
  <1>8. job' \subseteq dir \ {f}
    BY <1>1, <1>2
  <1>9. JobCovered(dir \ {f}, job')
    BY <1>1, <1>6, <1>7 DEF JobCovered
  <1> QED BY <1>1, <1>6, <1>7, <1>8, <1>9

\* So does each deletion of a run.
LEMMA DeleteStep == ASSUME Inv, Delete PROVE Inv'
  BY DeleteIs, CoveredGoes DEF Delete

\* So does the deletion a person is told to make (set.rs, discover).
LEMMA TidyStep == ASSUME Inv, Tidy PROVE Inv'
  <1>1. PICK f \in dir, g \in dir : f # g /\ f.num \in Owned(g) /\ f.merged \subseteq g.merged
                                    /\ dir' = dir \ {f}
    BY DEF Tidy
  <1>2. Owned(f) \subseteq Owned(g)
    BY <1>1 DEF Owned
  <1>3. job' = {} /\ UNCHANGED <<disk, last, image, flaws>>
    BY DEF Tidy
  <1>4. job' \subseteq dir \ {f} /\ JobCovered(dir \ {f}, job')
    BY <1>3 DEF JobCovered
  <1> QED BY <1>1, <1>2, <1>3, <1>4, CoveredGoes

\* So does Reflect's retention.
LEMMA RetentionStep == ASSUME Inv, Retention PROVE Inv'
  <1>1. PICK f \in dir, d \in dir :
          /\ f.delta /\ IsFullIndex(d) /\ f.inc < d.inc
          /\ \A g \in dir : f.inc < g.inc /\ g.inc < d.inc => IsFullIndex(g)
          /\ dir' = {g \in dir : g.inc # f.inc}
    BY DEF Retention
  <1> DEFINE gap == "gap" \in flaws
             P == {g \in dir : g.inc # f.inc}
             n == last.num
             i == last.inc
  <1>2. /\ Shape(dir, n, i) /\ HasFull(dir) /\ EntriesOK(dir, n) /\ gap \in BOOLEAN
        /\ Intervals(dir, gap) /\ (~gap => Accounted(dir, n))
    BY DEF Inv
  <1>3. OneOwnerEach(dir) /\ job' = {} /\ UNCHANGED <<disk, last, image, flaws>>
    BY DEF Retention, Settled
  <1>4. /\ Shape(P, n, i) /\ HasFull(P) /\ EntriesOK(P, n)
        /\ Intervals(P, gap) /\ (~gap => Accounted(P, n))
    <2>1. P = {g \in dir : g.inc # f.inc}
      OBVIOUS
    <2> HIDE DEF gap, n, i, P
    <2> QED BY <1>1, <1>2, <1>3, <2>1, RemoveThinned
  <1>5. job' \subseteq P /\ JobCovered(P, job')
    BY <1>3 DEF JobCovered
  <1> QED BY <1>1, <1>3, <1>4, <1>5, Removal

\* A run may stop between any two deletions.
LEMMA StopStep == ASSUME Inv, Stop PROVE Inv'
  <1>1. job' = {} /\ UNCHANGED <<dir, disk, last, image, flaws>>
    BY DEF Stop
  <1>2. job' \subseteq dir /\ JobCovered(dir, job')
    BY <1>1 DEF JobCovered
  <1> QED BY <1>1, <1>2, Removal DEF Inv

\* A merge of any range the program accepts keeps the invariant.
LEMMA MergeStep == ASSUME Inv, Merge PROVE Inv'
  <1>1. PICK from \in dir, to \in dir :
          LET M == Members(dir, to)
          IN  /\ PairRules(from, to)
              /\ Discoverable(dir, to) /\ Resolvable(M)
              /\ from \in M /\ Mergeable(M, from, to)
              /\ dir' = dir \cup {Output(M, from, to)}
              /\ job' = Redundant(M, from, to)
              /\ flaws' = flaws
                   \cup {"stranded" : f \in {g \in dir \ M : IsFullIndex(g) /\
                           \E e \in EntriesOf(g) : Moves(e, Absorbed(M, from, to))}}
                   \cup {"gap" : n \in IF IsFullIndex(from)
                                       THEN (from.num .. to.num) \ UNION {Owned(f) : f \in M}
                                       ELSE {}}
    BY DEF Merge
  <1> DEFINE M == Members(dir, to)
             o == Output(M, from, to)
             J == Redundant(M, from, to)
             P == dir \cup {o}
             A == Absorbed(M, from, to)
             n == last.num
             i == last.inc
             gap == "gap" \in flaws
             later == "gap" \in flaws'
  <1>2. dir' = P /\ job' = J /\ UNCHANGED <<disk, last, image>>
    BY <1>1 DEF Merge
  <1>3. /\ Shape(dir, n, i) /\ HasFull(dir) /\ EntriesOK(dir, n) /\ gap \in BOOLEAN
        /\ Intervals(dir, gap) /\ (~gap => Accounted(dir, n))
        /\ ("stranded" \notin flaws => \A f \in dir : Values(f, dir, image))
    BY DEF Inv
  <1>4. Merging(dir, n, i, from, to)
    BY <1>1, <1>3 DEF Merging, Found
  <1>5. /\ gap => later
        /\ ~later /\ IsFullIndex(from) => from.num .. to.num \subseteq UNION {Owned(f) : f \in M}
    BY <1>1
  <1>6. /\ "stranded" \notin flaws' => "stranded" \notin flaws
        /\ "stranded" \notin flaws' => \A g \in dir \ M : IsFullIndex(g) =>
              \A e \in EntriesOf(g) : ~Moves(e, A)
        /\ flaws' \subseteq {"stranded", "gap"}
    BY <1>1 DEF Inv
  <1>7. M = Members(dir, to) /\ o = Output(M, from, to) /\ later \in BOOLEAN
    OBVIOUS
  <1> HIDE DEF M, o, n, i, gap, later
  <1>8. Shape(P, n, i) /\ HasFull(P) /\ JobCovered(P, J) /\ J \subseteq dir
    BY <1>3, <1>4, <1>7, MergeShape
  <1>9. Intervals(P, later)
    BY <1>3, <1>4, <1>5, <1>7, MergeIntervals
  <1>10. ~later => Accounted(P, n)
    BY <1>3, <1>4, <1>5, <1>7, MergeAccounted
  <1>11. EntriesOK(P, n)
    BY <1>3, <1>4, <1>7, MergeEntries
  <1>12. ASSUME "stranded" \notin flaws', NEW f \in P PROVE Values(f, P, image)
    <2> DEFINE im == image
    <2>1. \A g \in dir : Values(g, dir, im)
      BY <1>3, <1>6, <1>12
    <2>2. \A g \in dir \ M : IsFullIndex(g) =>
            \A e \in EntriesOf(g) : ~Moves(e, Absorbed(M, from, to))
      BY <1>6, <1>12
    <2> HIDE DEF im
    <2>3. Values(f, P, im)
      BY <1>3, <1>4, <1>7, <2>1, <2>2, MergeValues
    <2> QED BY <2>3 DEF im
  <1>13. Images'
    BY <1>2 DEF Inv, Images
  <1>14. last'.num = n /\ last'.inc = i /\ n \in 0 .. MaxNumber /\ i \in 0 .. n
    BY <1>2 DEF Inv, n, i
  <1>15. job' \subseteq dir'
    BY <1>2, <1>8
  <1> QED BY <1>2, <1>6, <1>8, <1>9, <1>10, <1>11, <1>12, <1>13, <1>14, <1>15 DEF Inv, later

-----------------------------------------------------------------------------
(* The invariant.                                                          *)

\* Every step of Reflect, of the program, of a killed run and of a person keeps the invariant.
LEMMA NextInv == Inv /\ [Next]_vars => Inv'
  <1> SUFFICES ASSUME Inv, [Next]_vars PROVE Inv'
    OBVIOUS
  <1>1. CASE Incremental
    BY <1>1, IncrementalStep
  <1>2. CASE SplitIncremental
    BY <1>2, SplitStep
  <1>3. CASE Differential
    BY <1>3, DifferentialStep
  <1>4. CASE Retention
    BY <1>4, RetentionStep
  <1>5. CASE Merge
    BY <1>5, MergeStep
  <1>6. CASE Delete
    BY <1>6, DeleteStep
  <1>7. CASE Stop
    BY <1>7, StopStep
  <1>8. CASE Tidy
    BY <1>8, TidyStep
  <1>9. CASE UNCHANGED vars
    BY <1>9 DEF vars, Inv, Images
  <1> QED BY <1>1, <1>2, <1>3, <1>4, <1>5, <1>6, <1>7, <1>8, <1>9 DEF Next

\* The invariant holds in every state.
THEOREM InvHolds == Spec => []Inv
  BY InitInv, NextInv, PTL DEF Spec

-----------------------------------------------------------------------------
(* The properties follow from the invariant.                               *)

\* The types follow: an entry with its file's own number is in that file.
LEMMA InvTypes == Inv => TypeOK
  <1> SUFFICES ASSUME Inv PROVE TypeOK
    OBVIOUS
  <1>1. /\ Shape(dir, last.num, last.inc) /\ EntriesOK(dir, last.num)
        /\ last.num \in 0 .. MaxNumber /\ MaxNumber \in Nat
    BY SizeAssumption DEF Inv
  <1> DEFINE n == last.num
  <1>2. ASSUME NEW f \in dir
        PROVE  /\ Owned(f) \subseteq 0 .. MaxNumber /\ f.inc \in 0 .. last.inc
               /\ \A e \in EntriesOf(f) : /\ e.num \in 0 .. MaxNumber
                                        /\ ~IsHole(e) /\ e.num = f.num => e.pos \in DOMAIN f.data
               /\ f.settings \in Settings
    <2>1. /\ f.num \in Nat /\ Owned(f) \subseteq f.num .. n /\ f.inc \in 0 .. last.inc
          /\ f.settings \in Settings /\ n \in 0 .. MaxNumber
      BY <1>1 DEF Shape, FileOK
    <2>2. Owned(f) \subseteq 0 .. MaxNumber
      BY <1>1, <2>1
    <2>3. ASSUME NEW e \in EntriesOf(f) PROVE e.num \in 0 .. MaxNumber
      <3>1. e.num \in 0 .. n
        BY <1>1 DEF EntriesOK
      <3> QED BY <1>1, <2>1, <3>1
    <2>4. ASSUME NEW e \in EntriesOf(f), ~IsHole(e), e.num = f.num PROVE e.pos \in DOMAIN f.data
      <3>1. EntryOK(f, e, dir)
        BY <1>1 DEF EntriesOK
      <3>2. \A c \in dir : c.split /\ c.num = f.num => c = f
        BY <1>1 DEF Shape, SplitAlone, Owned
      <3>3. ~(f.delta /\ f.split)
        BY <1>1 DEF Shape, FileOK
      <3> QED BY <2>4, <3>1, <3>2, <3>3 DEF EntryOK
    <2> QED BY <2>1, <2>2, <2>3, <2>4
  <1>3. job \subseteq dir /\ last.inc \in 0 .. last.num /\ flaws \subseteq {"stranded", "gap"}
        /\ DOMAIN image = 0 .. last.num
    BY DEF Inv, Images
  <1>4. \A f \in dir \cup job : f \in dir
    BY <1>3
  <1> QED BY <1>1, <1>2, <1>3, <1>4 DEF TypeOK

\* A file that a restore can start from.
LEMMA PointIsFound ==
  ASSUME Inv, NEW t \in Points
  PROVE  Found(dir, last.num, last.inc, t)
  BY DEF Inv, Points, Found

\* Replaying the delta lists is the last writer's entry, position by position.
LEMMA InvFlattens == Inv => FlattenIsLastWriter
  <1> SUFFICES ASSUME Inv, NEW t \in Points, NEW p \in Places
               PROVE  LastWriter(Members(dir, t), p) =
                        IF p \in DOMAIN Flatten(Members(dir, t))
                        THEN Flatten(Members(dir, t))[p] ELSE Hole
    BY DEF FlattenIsLastWriter
  <1>1. Found(dir, last.num, last.inc, t)
    BY PointIsFound
  <1>2. /\ OneOwnerEach(Members(dir, t))
        /\ WellFormed(Members(dir, t), last.num, Positions, EntrySet)
    BY <1>1, MembersAre DEF Found, Discoverable
  <1>3. p \in 0 .. Positions - 1
    BY DEF Places
  <1> QED BY <1>2, <1>3, FlattenIs DEF At

\* What every file gives by itself, a restore gives as a whole.
LEMMA InvRestores == Inv => RestoreCorrect
  <1> SUFFICES ASSUME Inv, "stranded" \notin flaws, NEW t \in Points PROVE RestoresRight(t)
    BY DEF RestoreCorrect
  <1>1. Found(dir, last.num, last.inc, t)
    BY PointIsFound
  <1>2. EntriesOK(dir, last.num) /\ \A f \in dir : Values(f, dir, image)
    BY DEF Inv
  <1>3. Moment(t) \in 0 .. last.num
    <2>1. FileOK(t, last.num, last.inc) /\ last.num \in Nat
      BY <1>1 DEF Found, Shape
    <2>2. t.num \in Nat /\ Moment(t) \in t.num .. last.num
      BY <2>1, MomentIs
    <2> QED BY <2>1, <2>2
  <1> DEFINE W == {Nothing} \cup (Nat \X Nat)
  <1>4. image[Moment(t)] \in [Spots -> W]
    BY <1>3 DEF Inv, Images
  <1> HIDE DEF W
  <1>5. Restore(Members(dir, t)) = image[Moment(t)]
    BY <1>1, <1>2, <1>4, RestoreIsImage
  <1> QED BY <1>5 DEF RestoresRight

\* A number a restore as of t reads is some member's: a later file begins above it, and a
\* full index that made it unnecessary would be the base.
LEMMA NoneMissing ==
  ASSUME NEW D, NEW n, NEW i, Shape(D, n, i), HasFull(D), EntriesOK(D, n), Accounted(D, n),
         OneOwnerEach(D), NEW t \in D
  PROVE  Discoverable(D, t)
  <1> DEFINE M == Members(D, t)
             b == Base(M)
             top == Newest(M)
  <1>1. n \in Nat
    BY DEF Shape
  <1>2. OneOwnerEach(M) /\ M \subseteq D
    BY DEF OneOwnerEach, Members
  <1>3. t \in M /\ Shape(M, n, i) /\ WellFormed(M, n, Positions, EntrySet)
    BY <1>1, <1>2, MembersAre
  <1>4. b \in M /\ IsFullIndex(b) /\ \A f \in M : IsFullIndex(f) => f.num <= b.num
    BY <1>3, BaseIsNewestFull
  <1>5. top \in M /\ \A g \in M : g.num <= top.num
    <2>1. M # {} /\ n \in Nat /\ \A f \in M : f.num \in 0 .. n
      BY <1>1, <1>3 DEF WellFormed, Numbered
    <2> HIDE DEF M
    <2> QED BY <2>1, NewestIsLast
  <1>6. \A g \in D : /\ g.num \in 0 .. n /\ g.inc \in Nat /\ g.num \in Owned(g)
                     /\ \A k \in Owned(g) : k \in Int /\ g.num <= k
                     /\ (g \in M <=> g.inc <= t.inc)
    BY <1>1 DEF Shape, FileOK, Owned, Members
  <1>7. \A g \in D : g.num <= top.num => g \in M
    BY <1>1, <1>2, <1>3, <1>5, <1>6 DEF Shape, Order
  <1>8. ASSUME NEW k \in b.num .. top.num PROVE \E f \in M : k \in Owned(f)
    <2> SUFFICES ASSUME \A f \in M : k \notin Owned(f) PROVE FALSE
      OBVIOUS
    <2> HIDE DEF M, b, top
    <2>1. k \in 0 .. n /\ k < top.num /\ top.num \in Int /\ b.num \in Int
      BY <1>1, <1>2, <1>4, <1>5, <1>6
    <2>2. \A f \in D : k \notin Owned(f)
      BY <1>6, <1>7, <2>1
    <2>3. top.num \in {g.num : g \in D} \cup {n + 1}
      BY <1>2, <1>5
    <2>4. PICK d \in D : IsFullIndex(d) /\ k < d.num /\ d.num <= top.num
      BY <1>1, <2>1, <2>2, <2>3 DEF Accounted
    <2>5. d \in M /\ d.num \in Int
      BY <1>6, <1>7, <2>4
    <2> QED BY <1>4, <2>1, <2>4, <2>5
  <1>9. ASSUME NEW e \in EntriesOf(b), ~IsHole(e) PROVE \E f \in M : e.num \in Owned(f)
    <2>1. PICK h \in M : h.num = e.num
      BY <1>1, <1>2, <1>4, <1>9, EntryHasOwner
    <2> QED BY <2>1 DEF Owned
  <1>10. Missing(M) = {}
    <2> HIDE DEF M
    <2> QED BY <1>8, <1>9 DEF Missing, Needed
  <1> QED BY <1>2, <1>4, <1>10 DEF Discoverable

\* So nothing is missing while no number has two owners.
LEMMA InvMissesNothing == Inv => NothingMissing
  BY NoneMissing DEF Inv, NothingMissing, Settled

\* Every variable stays in its set, and what a file says it holds itself is in it, for any size
\* of disk, any settings and any number of backups.
THEOREM TypesHold == Spec => []TypeOK
  BY InvHolds, InvTypes, PTL

\* In every state the index that flatten builds has at each position the entry of the newest
\* file that names it (set.rs, flatten).
THEOREM FlattenHolds == Spec => []FlattenIsLastWriter
  BY InvHolds, InvFlattens, PTL

\* A merge and its deletions, killed or not, never leave a file above them without one it needs,
\* as long as no merge from the Full goes over numbers that retention took (set.rs,
\* check_complete).
THEOREM NothingMissingHolds == Spec => []NothingMissing
  BY InvHolds, InvMissesNothing, PTL

\* Any file a restore can start from gives back the disk as it was then, whatever was merged,
\* re-merged, thinned out, killed half way or tidied up before, as long as no merge absorbed a
\* file that a Differential above it names (set.rs, flatten; plan.rs, build).
THEOREM RestoreHolds == Spec => []RestoreCorrect
  BY InvHolds, InvRestores, PTL

-----------------------------------------------------------------------------
(* How large a merge is, beside what the plan says of it.                  *)

\* The positions of h whose entries move, among those in s.
Movers(h, s, absorbed) == {k \in s : Moves(h[k], absorbed)}

\* The copying adds at most one block for each action that moves one.
LEMMA CopyingLength ==
  ASSUME NEW n \in Nat, NEW E, NEW h, DOMAIN h \in SUBSET (0 .. n),
         \A i \in DOMAIN h : h[i] \in E, NEW first \in Seq(E), NEW absorbed
  PROVE  /\ Copying(h, first, absorbed)[DOMAIN h] \in Seq(E)
         /\ Cardinality(Movers(h, DOMAIN h, absorbed)) \in Nat
         /\ Len(Copying(h, first, absorbed)[DOMAIN h])
              <= Len(first) + Cardinality(Movers(h, DOMAIN h, absorbed))
  <1> DEFINE D    == DOMAIN h
             it   == Copying(h, first, absorbed)
             rest == [s \in SUBSET D |-> s \ {Max(s)}]
             T    == {s \in SUBSET D :
                        /\ it[s] \in Seq(E)
                        /\ Len(it[s]) <= Len(first) + Cardinality(Movers(h, s, absorbed))}
  <1>1. \A s \in SUBSET D : s # {} => Max(s) \in s
    BY MaxOfPart
  <1>2. Shrinks(rest, D) /\ IsFiniteSet(D)
    <2>1. IsFiniteSet(0 .. n)
      BY FS_Interval
    <2>2. IsFiniteSet(D)
      BY <2>1, FS_Subset
    <2> QED BY <1>1, <2>2 DEF Shrinks
  <1>3. \A s \in SUBSET D : it[s] = IF s = {} THEN first
                                    ELSE Copied(it[s \ {Max(s)}], h[Max(s)], absorbed)
    <2>1. FoldsCopies(Copying(h, first, absorbed), h, first, absorbed)
      BY CopyingExists
    <2> HIDE DEF it
    <2>2. FoldsCopies(it, h, first, absorbed)
      BY <2>1 DEF it
    <2> QED BY <2>2 DEF FoldsCopies
  <1> HIDE DEF it
  <1>4. ASSUME NEW s \in SUBSET D
        PROVE  /\ IsFiniteSet(Movers(h, s, absorbed))
               /\ Cardinality(Movers(h, s, absorbed)) \in Nat
    <2>1. Movers(h, s, absorbed) \in SUBSET D
      BY DEF Movers
    <2> QED BY <1>2, <2>1, FS_Subset, FS_CardinalityType
  <1>5. {} \in T
    <2>1. it[{}] = first /\ first \in Seq(E) /\ Len(first) \in Nat
      <3>1. it[{}] = IF {} = {} THEN first ELSE Copied(it[{} \ {Max({})}], h[Max({})], absorbed)
        BY <1>3
      <3> QED BY <3>1
    <2>2. Cardinality(Movers(h, {}, absorbed)) \in Nat
      BY <1>4
    <2> QED BY <2>1, <2>2
  <1>6. ASSUME NEW s \in SUBSET D, s # {}, rest[s] \in T PROVE s \in T
    <2> DEFINE x == Max(s)
               r == s \ {x}
               q == it[r]
               e == h[x]
    <2>1. q \in Seq(E) /\ Len(q) <= Len(first) + Cardinality(Movers(h, r, absorbed))
      BY <1>6
    <2>2. x \in s /\ e \in E /\ it[s] = Copied(q, e, absorbed) /\ r \in SUBSET D
          /\ x \notin r /\ s = r \cup {x}
      BY <1>1, <1>3, <1>6
    <2> HIDE DEF x, r, q
    <2>3. PICK c \in Nat : c = Cardinality(Movers(h, r, absorbed))
      BY <1>4, <2>2
    <2>4. Len(q) \in Nat /\ Len(first) \in Nat
      BY <2>1
    <2>5. CASE Moves(e, absorbed)
      <3>1. Movers(h, s, absorbed) = Movers(h, r, absorbed) \cup {x}
            /\ x \notin Movers(h, r, absorbed)
        BY <2>2, <2>5 DEF Movers
      <3>2. Cardinality(Movers(h, s, absorbed)) = c + 1
        BY <1>4, <2>2, <2>3, <3>1, FS_AddElement
      <3>3. it[s] \in Seq(E) /\ Len(it[s]) <= Len(q) + 1
        BY <2>1, <2>2, <2>4 DEF Copied
      <3>4. Len(it[s]) \in Nat
        BY <3>3
      <3> QED BY <2>1, <2>3, <2>4, <3>2, <3>3, <3>4
    <2>6. CASE ~Moves(e, absorbed)
      <3>1. Movers(h, s, absorbed) = Movers(h, r, absorbed)
        BY <2>2, <2>6 DEF Movers
      <3>2. it[s] = q
        BY <2>2, <2>6 DEF Copied
      <3> QED BY <2>1, <3>1, <3>2
    <2> QED BY <2>5, <2>6
  <1>7. SUBSET D \subseteq T
    <2> HIDE DEF rest, T
    <2> QED BY <1>2, <1>5, <1>6, SubsetsClosed
  <1>8. D \in T
    BY <1>7
  <1> QED BY <1>4, <1>8 DEF it

\* So the output has at most the blocks the plan counts.
LEMMA CopyListLength ==
  ASSUME NEW n \in Nat, NEW E, NEW reserved \in Seq(E),
         NEW blocks, DOMAIN blocks \in SUBSET (0 .. n), \A i \in DOMAIN blocks : blocks[i] \in E,
         NEW absorbed
  PROVE  /\ CopyList(reserved, blocks, absorbed) \in Seq(E)
         /\ Cardinality(Movers(reserved, DOMAIN reserved, absorbed)) \in Nat
         /\ Cardinality(Movers(blocks, DOMAIN blocks, absorbed)) \in Nat
         /\ Len(CopyList(reserved, blocks, absorbed))
              <= Cardinality(Movers(reserved, DOMAIN reserved, absorbed))
                 + Cardinality(Movers(blocks, DOMAIN blocks, absorbed))
  <1> DEFINE none  == <<>>
             first == Copying(reserved, none, absorbed)[DOMAIN reserved]
             list  == CopyList(reserved, blocks, absorbed)
  <1>1. list = Copying(blocks, first, absorbed)[DOMAIN blocks]
    BY DEF CopyList, MapThenFoldSet, FoldLeft, Copying, Copied
  <1>2. /\ Len(reserved) \in Nat /\ DOMAIN reserved \in SUBSET (0 .. Len(reserved))
        /\ \A i \in DOMAIN reserved : reserved[i] \in E
        /\ none \in Seq(E) /\ Len(none) = 0
    OBVIOUS
  <1> HIDE DEF none
  <1>3. /\ first \in Seq(E) /\ Cardinality(Movers(reserved, DOMAIN reserved, absorbed)) \in Nat
        /\ Len(first) <= Len(none) + Cardinality(Movers(reserved, DOMAIN reserved, absorbed))
    BY <1>2, CopyingLength
  <1> HIDE DEF first, list
  <1>4. /\ list \in Seq(E) /\ Cardinality(Movers(blocks, DOMAIN blocks, absorbed)) \in Nat
        /\ Len(list) <= Len(first) + Cardinality(Movers(blocks, DOMAIN blocks, absorbed))
    BY <1>1, <1>3, CopyingLength
  <1>5. Len(first) \in Nat /\ Len(list) \in Nat
    BY <1>3, <1>4
  <1> QED BY <1>2, <1>3, <1>4, <1>5 DEF list

\* The output of a merge is no larger than what the plan projects (plan.rs, projected_size).
LEMMA OutputFits ==
  ASSUME NEW D, NEW n, NEW i, NEW from, NEW to, Merging(D, n, i, from, to), EntriesOK(D, n),
         NEW M, M = Members(D, to), NEW o, o = Output(M, from, to)
  PROVE  /\ Len(o.data) \in Nat /\ Size(o) \in Nat /\ ProjectedSize(M, from, to) \in Nat
         /\ Size(o) <= ProjectedSize(M, from, to)
  <1> DEFINE A == Absorbed(M, from, to)
             blocks == PlannedBlocks(M, from, to)
             copies == CopyList(to.reserved, blocks, A)
             moved == Movers(to.reserved, DOMAIN to.reserved, A)
             more == Movers(blocks, DOMAIN blocks, A)
  <1>1. PlanFacts(M, InRange(M, from, to), A, from, blocks)
    BY PlanIs
  <1>2. to \in D /\ Shape(D, n, i) /\ ~to.split
    BY NewestIsTo DEF Merging, Found
  <1>3. to.reserved \in Seq(EntrySet) /\ Len(to.reserved) = 1
    BY <1>2 DEF Shape, FileOK
  <1>4. /\ o.reserved = [k \in DOMAIN to.reserved |-> Moved(to.reserved[k], copies, A, from.num)]
        /\ o.blocks = [at \in DOMAIN blocks |-> Moved(blocks[at], copies, A, from.num)]
        /\ o.data = [k \in DOMAIN copies |-> Stored(M, copies[k])]
    BY DEF Output
  <1>5. BytesToCopy(M, from, to) = Cardinality(moved) + Cardinality(more)
    BY DEF BytesToCopy, Movers
  <1>6. Actions(M, from, to) = Len(to.reserved) + Cardinality(DOMAIN blocks)
    BY DEF Actions
  <1> HIDE DEF A, blocks
  <1>7. /\ DOMAIN blocks \in SUBSET (0 .. Positions) /\ Positions \in Nat
        /\ \A p \in DOMAIN blocks : blocks[p] \in EntrySet
    BY <1>1, SizeAssumption DEF PlanFacts, BlockMaps, Places
  <1>8. /\ copies \in Seq(EntrySet)
        /\ Cardinality(moved) \in Nat /\ Cardinality(more) \in Nat
        /\ Len(copies) <= Cardinality(moved) + Cardinality(more)
    BY <1>3, <1>7, CopyListLength
  <1> HIDE DEF copies, moved, more
  <1>9. Cardinality(DOMAIN blocks) \in Nat
    <2>1. IsFiniteSet(0 .. Positions)
      BY <1>7, FS_Interval
    <2> QED BY <1>7, <2>1, FS_Subset, FS_CardinalityType
  <1>10. Len(copies) \in Nat /\ DOMAIN copies = 1 .. Len(copies)
    BY <1>8
  <1>11. Len(o.data) = Len(copies)
    BY <1>4, <1>10
  <1>12. Len(o.reserved) = Len(to.reserved)
    <2>1. DOMAIN to.reserved = 1 .. Len(to.reserved) /\ Len(to.reserved) \in Nat
      BY <1>3
    <2> QED BY <1>4, <2>1
  <1>13. DOMAIN o.blocks = DOMAIN blocks
    BY <1>4
  <1>14. Size(o) = Len(copies) + Len(to.reserved) + Cardinality(DOMAIN blocks)
    BY <1>11, <1>12, <1>13 DEF Size
  <1>15. ProjectedSize(M, from, to)
           = Cardinality(moved) + Cardinality(more) + (Len(to.reserved) + Cardinality(DOMAIN blocks))
    BY <1>5, <1>6 DEF ProjectedSize
  <1> QED BY <1>3, <1>8, <1>9, <1>10, <1>11, <1>14, <1>15

-----------------------------------------------------------------------------
(* Every file has a size.                                                  *)

Stores(D) == \A f \in D : Len(f.data) \in Nat

\* Files of Reflect's have, whole or cut in two.
LEMMA BackupStores ==
  ASSUME NEW num \in Nat, NEW inc, NEW delta, NEW diff, NEW s, NEW now,
         NEW news, NEW empty, Touched(news, empty), NEW rest,
         NEW f, f = BackupFile(num, inc, delta, diff, s, now, news, empty, rest)
  PROVE  Stores({f, Parent(f), Continuation(f)})
  <1>1. f.data \in Seq(Range(f.data)) /\ Len(f.data) >= 1
    <2>1. BackupFacts(f, num, now, s, news, empty, rest)
      BY BackupFileIs
    <2> QED BY <2>1 DEF BackupFacts
  <1>2. Parent(f).data = SubSeq(f.data, 1, 1) /\ Continuation(f).data = Tail(f.data)
    <2>1. CutFacts(f, Parent(f), Continuation(f))
      BY CutIs
    <2> QED BY <2>1 DEF CutFacts
  <1> DEFINE X == Range(f.data)
             d == f.data
  <1>3. d \in Seq(X) /\ Len(d) >= 1
    BY <1>1
  <1> HIDE DEF X, d
  <1>4. Len(d) \in Nat /\ SubSeq(d, 1, 1) \in Seq(X) /\ Tail(d) \in Seq(X)
    BY <1>3
  <1>5. Len(SubSeq(d, 1, 1)) \in Nat /\ Len(Tail(d)) \in Nat
    BY <1>4
  <1> QED BY <1>2, <1>4, <1>5 DEF Stores, d

\* So every file there ever is has a size.
LEMMA NextStores == Inv /\ Stores(dir) /\ [Next]_vars => Stores(dir')
  <1> SUFFICES ASSUME Inv, Stores(dir), [Next]_vars PROVE Stores(dir')
    OBVIOUS
  <1>1. last.num + 1 \in Nat
    BY DEF Inv, Shape
  <1>2. ASSUME NEW F, Stores(F), NEW P, P \subseteq dir \cup F PROVE Stores(P)
    BY <1>2 DEF Stores
  <1>3. ASSUME NEW P, P \subseteq dir PROVE Stores(P)
    BY <1>3 DEF Stores
  <1>4. CASE Incremental
    <2>1. PICK news \in SUBSET Places :
            \E empty \in SUBSET (Places \ news), s \in Settings :
              LET now == Written(last.num + 1, news, empty)
              IN  Backup({BackupFile(last.num + 1, last.inc + 1, TRUE, FALSE, s, now, news,
                                     empty, <<>>)}, now)
      BY <1>4 DEF Incremental
    <2>2. PICK empty \in SUBSET (Places \ news), s \in Settings :
              LET now == Written(last.num + 1, news, empty)
              IN  Backup({BackupFile(last.num + 1, last.inc + 1, TRUE, FALSE, s, now, news,
                                     empty, <<>>)}, now)
      BY <2>1
    <2>3. PICK num, inc, delta, diff, now, rest, f :
            /\ num \in Nat /\ f = BackupFile(num, inc, delta, diff, s, now, news, empty, rest)
            /\ Backup({f}, now)
      BY <1>1, <2>2
    <2>4. Stores({f, Parent(f), Continuation(f)})
      BY <2>3, BackupStores DEF Touched
    <2>5. dir' \subseteq dir \cup {f, Parent(f), Continuation(f)}
      BY <2>3 DEF Backup
    <2> QED BY <1>2, <2>4, <2>5
  <1>5. CASE SplitIncremental
    <2>1. PICK news \in SUBSET Places, s \in Settings :
            LET now == Written(last.num + 1, news, {})
                f   == BackupFile(last.num + 1, last.inc + 1, TRUE, FALSE, s, now, news, {}, <<>>)
            IN  Backup({Parent(f), Continuation(f)}, now)
      BY <1>5 DEF SplitIncremental
    <2>2. PICK num, inc, delta, diff, now, empty, rest, f :
            /\ num \in Nat /\ f = BackupFile(num, inc, delta, diff, s, now, news, empty, rest)
            /\ empty = {} /\ Backup({Parent(f), Continuation(f)}, now)
      BY <1>1, <2>1
    <2>3. Stores({f, Parent(f), Continuation(f)})
      BY <2>2, BackupStores DEF Touched
    <2>4. dir' \subseteq dir \cup {f, Parent(f), Continuation(f)}
      BY <2>2 DEF Backup
    <2> QED BY <1>2, <2>3, <2>4
  <1>6. CASE Differential
    <2>1. PICK full \in dir, touched \in SUBSET Places, s \in Settings :
            LET now   == Written(last.num + 1, touched, {})
                was   == image[Max(Owned(full))]
                empty == {p \in Places : now[p] = Nothing}
                news  == {p \in Places \ empty : now[p] # was[p]}
            IN  Backup({BackupFile(last.num + 1, last.inc + 1, FALSE, TRUE, s, now, news, empty,
                                   full.blocks)}, now)
      BY <1>6 DEF Differential
    <2>2. PICK num, inc, delta, diff, now, news, empty, rest, f :
            /\ num \in Nat /\ f = BackupFile(num, inc, delta, diff, s, now, news, empty, rest)
            /\ Touched(news, empty) /\ Backup({f}, now)
      <3> DEFINE now   == Written(last.num + 1, touched, {})
                 was   == image[Max(Owned(full))]
                 empty == {p \in Places : now[p] = Nothing}
                 news  == {p \in Places \ empty : now[p] # was[p]}
      <3>1. Touched(news, empty)
        BY DEF Touched
      <3>2. Backup({BackupFile(last.num + 1, last.inc + 1, FALSE, TRUE, s, now, news, empty,
                               full.blocks)}, now)
        BY <2>1
      <3> HIDE DEF now, empty, news
      <3> QED BY <1>1, <3>1, <3>2
    <2>3. Stores({f, Parent(f), Continuation(f)})
      BY <2>2, BackupStores
    <2>4. dir' \subseteq dir \cup {f, Parent(f), Continuation(f)}
      BY <2>2 DEF Backup
    <2> QED BY <1>2, <2>3, <2>4
  <1>7. CASE Retention
    <2>1. dir' \subseteq dir
      BY <1>7 DEF Retention
    <2> QED BY <1>3, <2>1
  <1>8. CASE Merge
    <2>1. PICK from, to : /\ Merging(dir, last.num, last.inc, from, to)
                          /\ dir' = dir \cup {Output(Members(dir, to), from, to)}
      BY <1>8 DEF Merge, Merging, Found, Inv
    <2>2. PICK n, i, M, o : /\ n = last.num /\ i = last.inc
                            /\ M = Members(dir, to) /\ o = Output(M, from, to)
      OBVIOUS
    <2>3. Merging(dir, n, i, from, to) /\ EntriesOK(dir, n)
      BY <2>1, <2>2 DEF Inv
    <2>4. Len(o.data) \in Nat
      BY <2>2, <2>3, OutputFits
    <2>5. Stores({o}) /\ dir' \subseteq dir \cup {o}
      BY <2>1, <2>2, <2>4 DEF Stores
    <2> QED BY <1>2, <2>5
  <1>9. CASE Delete
    <2>1. dir' \subseteq dir
      BY <1>9 DEF Delete
    <2> QED BY <1>3, <2>1
  <1>10. CASE Stop \/ UNCHANGED vars
    <2>1. dir' \subseteq dir
      BY <1>10 DEF Stop, vars
    <2> QED BY <1>3, <2>1
  <1>11. CASE Tidy
    <2>1. dir' \subseteq dir
      BY <1>11 DEF Tidy
    <2> QED BY <1>3, <2>1
  <1> QED BY <1>4, <1>5, <1>6, <1>7, <1>8, <1>9, <1>10, <1>11 DEF Next

LEMMA InitStores == Init => Stores(dir)
  <1> SUFFICES ASSUME Init PROVE Stores(dir)
    OBVIOUS
  <1>1. PICK s \in Settings : dir = {Full(s)}
    BY DEF Init
  <1>2. Touched(0 .. FullLength - 1, {})
    BY FirstDiskIs DEF Touched
  <1>3. PICK num, inc, delta, diff, now, news, empty, rest, f :
          /\ num \in Nat /\ f = BackupFile(num, inc, delta, diff, s, now, news, empty, rest)
          /\ Touched(news, empty) /\ f = Full(s)
    BY <1>2 DEF Full
  <1>4. Stores({f, Parent(f), Continuation(f)})
    BY <1>3, BackupStores
  <1> QED BY <1>1, <1>3, <1>4 DEF Stores

-----------------------------------------------------------------------------
(* What a scan promises.                                                   *)

\* Every file has a size, and claims at least one number.
LEMMA SizeIs ==
  ASSUME NEW D, NEW n, NEW i, Shape(D, n, i), Stores(D), NEW f \in D
  PROVE  Size(f) \in Nat /\ IsFiniteSet(Owned(f)) /\ Owned(f) # {}
  <1>1. FileOK(f, n, i) /\ n \in Nat
    BY DEF Shape
  <1>2. IsFiniteSet(Owned(f))
    <2>1. Owned(f) \subseteq f.num .. n /\ f.num \in Int
      BY <1>1 DEF FileOK
    <2>2. IsFiniteSet(f.num .. n)
      BY <1>1, <2>1, FS_Interval
    <2> QED BY <2>1, <2>2, FS_Subset
  <1>3. Cardinality(DOMAIN f.blocks) \in Nat
    <2>1. DOMAIN f.blocks \in SUBSET (0 .. Positions - 1) /\ Positions - 1 \in Int
      <3>1. f.blocks \in BlockMaps(Positions, EntrySet)
        BY <1>1 DEF FileOK
      <3>2. PICK P \in SUBSET (0 .. Positions - 1) : f.blocks \in [P -> EntrySet]
        BY <3>1 DEF BlockMaps
      <3>3. DOMAIN f.blocks = P
        BY <3>2
      <3>4. Positions - 1 \in Int
        BY SizeAssumption
      <3> QED BY <3>3, <3>4
    <2>2. IsFiniteSet(0 .. Positions - 1)
      BY <2>1, FS_Interval
    <2> QED BY <2>1, <2>2, FS_Subset, FS_CardinalityType
  <1>4. Len(f.reserved) \in Nat
    BY <1>1 DEF FileOK
  <1>5. Len(f.data) \in Nat
    BY DEF Stores
  <1>6. Size(f) \in Nat
    <2>1. PICK a \in Nat, b \in Nat, c \in Nat :
            a = Len(f.data) /\ b = Len(f.reserved) /\ c = Cardinality(DOMAIN f.blocks)
      BY <1>3, <1>4, <1>5
    <2>2. Size(f) = a + b + c
      BY <2>1 DEF Size
    <2> QED BY <2>2
  <1>7. Owned(f) # {}
    BY DEF Owned
  <1> QED BY <1>2, <1>6, <1>7

\* The sizes of the owners of a range's numbers, and those of its files.
OwnersSize(M, from, to) ==
  SumOver(Absorbed(M, from, to), LAMBDA k : Size(Owner(M, k)))
FilesSize(M, from, to) == SumOver(Redundant(M, from, to), Size)

\* What is counted beyond once.
CountedAgain(M, from, to) ==
  SumOver(InRange(M, from, to), LAMBDA f : (Cardinality(Owned(f)) - 1) * Size(f))

\* Zeros add up to zero.
LEMMA SumOfZeros ==
  ASSUME NEW S, IsFiniteSet(S), NEW f, \A x \in S : f[x] = 0
  PROVE  SumFunctionOnSet(f, S) = 0
  <1>1. PICK s : s = SumFunctionOnSet(f, S)
    OBVIOUS
  <1>2. s \in Nat
    BY <1>1, SumIsNat
  <1>3. s = s + s
    BY <1>1, SumOfTwo
  <1>4. s = 0
    BY ONLY <1>2, <1>3
  <1> QED BY <1>1, <1>4

\* Adding up the owners of the numbers of a range counts each of its files once, and once more
\* for every number of its own but one (scan.rs, report).
LEMMA OwnersAddUp ==
  ASSUME NEW D, NEW n, NEW i, NEW from, NEW to, Merging(D, n, i, from, to), Stores(D),
         NEW M, M = Members(D, to)
  PROVE  /\ OwnersSize(M, from, to) = FilesSize(M, from, to) + CountedAgain(M, from, to)
         /\ FilesSize(M, from, to) \in Nat
         /\ CountedAgain(M, from, to) \in Nat
         /\ NoneMerged(M, from, to) => CountedAgain(M, from, to) = 0
  <1> DEFINE R == InRange(M, from, to)
             A == Absorbed(M, from, to)
             part == [f \in R |-> Owned(f)]
             size == [f \in R |-> Size(f)]
             more == [f \in R |-> (Cardinality(Owned(f)) - 1) * Size(f)]
             w == [k \in A |-> Size(Owner(M, k))]
  <1>1. RangeFacts(M, R, A, from, to)
    BY RangeIs
  <1>2. OneOwnerEach(M) /\ Shape(M, n, i) /\ M \subseteq D /\ IsFiniteSet(M) /\ R \subseteq M
    <2>1. OneOwnerEach(M) /\ Shape(M, n, i) /\ M \subseteq D
      BY MembersAre DEF Merging, Found, Discoverable
    <2> QED BY <1>1, <2>1 DEF Shape, RangeFacts
  <1>3. \A f \in R : \A k \in Owned(f) : k \in A /\ Owner(M, k) = f
    <2>1. \A f \in M : \A k \in Owned(f) : Owner(M, k) = f
      BY <1>2, OwnerIsIt
    <2> QED BY <1>1, <1>2, <2>1 DEF RangeFacts
  <1>4. A = UNION {part[f] : f \in R}
    BY DEF Absorbed
  <1>5. Redundant(M, from, to) = R
    <2>1. Redundant(M, from, to) = {Owner(M, k) : k \in A}
      BY DEF Redundant
    <2>2. \A k \in A : \E f \in R : k \in Owned(f)
      BY DEF Absorbed
    <2>3. \A f \in R : f.num \in Owned(f)
      BY DEF Owned
    <2> HIDE DEF R, A
    <2> QED BY <1>3, <2>1, <2>2, <2>3
  <1>6. IsFiniteSet(R)
    BY <1>2, FS_Subset
  <1>7. \A f \in R : Size(f) \in Nat /\ IsFiniteSet(Owned(f)) /\ Owned(f) # {}
    <2>1. Stores(M)
      BY <1>2 DEF Stores
    <2>2. \A f \in M : Size(f) \in Nat /\ IsFiniteSet(Owned(f)) /\ Owned(f) # {}
      BY <1>2, <2>1, SizeIs
    <2> QED BY <1>2, <2>2
  <1>8. \A f, g \in R : f # g => part[f] \cap part[g] = {}
    BY <1>2 DEF OneOwnerEach
  <1>9. OwnersSize(M, from, to) = SumFunctionOnSet(w, A)
    BY DEF OwnersSize, SumOver
  <1>10. FilesSize(M, from, to) = SumFunctionOnSet(size, R)
    BY <1>5 DEF FilesSize, SumOver
  <1>11. CountedAgain(M, from, to) = SumFunctionOnSet(more, R)
    BY DEF CountedAgain, SumOver
  <1>12. ASSUME NEW f \in R
         PROVE  /\ IsFiniteSet(part[f]) /\ part[f] # {} /\ size[f] \in Nat
                /\ \A k \in part[f] : w[k] = size[f]
                /\ more[f] = (Cardinality(part[f]) - 1) * size[f]
                /\ part[f] = Owned(f)
    <2>1. part[f] = Owned(f) /\ size[f] = Size(f)
          /\ more[f] = (Cardinality(Owned(f)) - 1) * Size(f)
      OBVIOUS
    <2>2. \A k \in Owned(f) : w[k] = Size(f)
      BY <1>3
    <2> HIDE DEF part, size, more, w, R
    <2> QED BY <1>7, <2>1, <2>2
  <1>13. \A f \in R : size[f] \in Nat
    BY <1>12
  <1> HIDE DEF R, A, part, size, more, w
  <1>14. /\ \A f \in R : more[f] \in Nat
         /\ SumFunctionOnSet(w, A) = SumFunctionOnSet(size, R) + SumFunctionOnSet(more, R)
    <2>1. Parted(R, part, A, size, w, more)
      BY <1>4, <1>6, <1>8, <1>12 DEF Parted
    <2> QED BY ONLY <2>1, SumByParts
  <1>15. SumFunctionOnSet(size, R) \in Nat /\ SumFunctionOnSet(more, R) \in Nat
    BY <1>6, <1>13, <1>14, SumIsNat
  <1>16. ASSUME NoneMerged(M, from, to) PROVE SumFunctionOnSet(more, R) = 0
    <2>1. ASSUME NEW f \in R PROVE more[f] = 0
      <3>1. Cardinality(part[f]) = 1
        BY <1>12, <1>16 DEF NoneMerged, R
      <3>2. more[f] = 0 * size[f]
        BY <1>12, <3>1
      <3> QED BY <1>13, <3>2
    <2> QED BY <1>6, <2>1, SumOfZeros
  <1> QED BY <1>5, <1>9, <1>10, <1>11, <1>14, <1>15, <1>16

\* So no range a scan may suggest promises more than is released.
LEMMA InvSaves == Inv /\ Stores(dir) => SavingBounded
  <1> SUFFICES ASSUME Inv, Stores(dir), NEW t \in Kept(dir), NEW from \in Planned(dir, t),
                      NEW D, D = dir, NEW n, n = last.num, NEW i, i = last.inc,
                      NEW M, M = Members(D, t), NEW to, to = Newest(M),
                      NoneMerged(M, from, to)
               PROVE  Candidate(M, from, to).reclaims <= Released(M, from, to)
    BY DEF SavingBounded, Report
  <1>1. /\ Shape(D, n, i) /\ HasFull(D) /\ EntriesOK(D, n) /\ n \in Nat /\ i \in Nat
    BY DEF Inv, Shape
  <1>2. /\ from \in M /\ Discoverable(D, t) /\ Resolvable(M) /\ Mergeable(M, from, to)
    BY DEF Planned, Starts
  <1>3. t \in D /\ M = D
    BY <1>1 DEF Kept, Members
  <1>4. OneOwnerEach(M)
    BY <1>2 DEF Discoverable
  <1>5. to \in M /\ \A g \in M : g.num <= to.num
    <2>1. M # {} /\ \A f \in M : f.num \in 0 .. n
      <3>1. \A f \in D : FileFacts(f, n, i)
        BY <1>1, FilesAre
      <3> QED BY <1>1, <1>3, <3>1 DEF FileFacts
    <2> QED BY <1>1, <2>1, NewestIsLast
  <1>6. Members(D, to) = M
    <2>1. \A f, g \in D : /\ f.num \in Nat /\ g.num \in Nat /\ f.inc \in Nat /\ g.inc \in Nat
                          /\ f.num < g.num => f.inc <= g.inc
                          /\ f.num = g.num => f.inc = g.inc
      <3>1. \A f \in D : f.num \in Nat /\ f.inc \in Nat
        BY <1>1 DEF Shape, FileOK
      <3> QED BY <1>1, <3>1 DEF Shape, Order
    <2>2. \A f \in D : f.inc <= to.inc
      BY <1>3, <1>5, <2>1
    <2> QED BY <1>3, <2>2 DEF Members
  <1>7. Discoverable(D, to)
    BY <1>2, <1>6 DEF Discoverable
  <1>8. Merging(D, n, i, from, to)
    BY <1>1, <1>2, <1>3, <1>5, <1>6, <1>7 DEF Merging, Found
  <1>9. PICK o : o = Output(M, from, to)
    OBVIOUS
  <1>10. /\ Size(o) \in Nat /\ ProjectedSize(M, from, to) \in Nat
         /\ Size(o) <= ProjectedSize(M, from, to)
    BY <1>1, <1>6, <1>8, <1>9, OutputFits
  <1>11. /\ OwnersSize(M, from, to) = FilesSize(M, from, to) + CountedAgain(M, from, to)
         /\ FilesSize(M, from, to) \in Nat
         /\ CountedAgain(M, from, to) = 0
    BY <1>6, <1>8, OwnersAddUp
  <1> DEFINE owners == OwnersSize(M, from, to)
             kept == FilesSize(M, from, to)
             projected == ProjectedSize(M, from, to)
  <1>12. Candidate(M, from, to).reclaims = Monus(owners, projected)
    BY DEF Candidate, OwnersSize
  <1>13. Released(M, from, to) = Monus(kept, Size(o))
    BY <1>9 DEF Released, FilesSize
  <1>14. /\ owners = kept /\ kept \in Nat
         /\ projected \in Nat /\ Size(o) \in Nat /\ Size(o) <= projected
    BY <1>10, <1>11
  <1> HIDE DEF owners, kept, projected
  <1>15. Monus(owners, projected) <= Monus(kept, Size(o))
    <2>1. PICK s : s = Size(o) /\ s \in Nat /\ s <= projected
      BY <1>14
    <2>2. Monus(kept, projected) <= Monus(kept, s)
      BY <1>14, <2>1 DEF Monus
    <2> QED BY <1>14, <2>1, <2>2
  <1> QED BY <1>12, <1>13, <1>15

\* However the set came about, a scan promises of no range without merged files more than
\* its merge releases: the projection bounds the output, blocks copied once and all.
THEOREM SavingsHold == Spec => []SavingBounded
  <1>1. Init => Inv /\ Stores(dir)
    BY InitInv, InitStores
  <1>2. Inv /\ Stores(dir) /\ [Next]_vars => (Inv /\ Stores(dir))'
    BY NextInv, NextStores
  <1> QED BY <1>1, <1>2, InvSaves, PTL DEF Spec
=============================================================================
