--------------------------- MODULE OwnerViewProofs ---------------------------
(***************************************************************************)
(* The files, merges and deletions of Consolidate implement RestorePoints, *)
(* for any size of disk, any number of backups and any settings.           *)
(*                                                                         *)
(* D is a directory, n and i are the number and the increment of Reflect's *)
(* newest backup, and im is the history of what the disk held.             *)
(***************************************************************************)
EXTENDS OwnerView, ConsolidateProofs

-----------------------------------------------------------------------------
(* The inductive invariant.                                                *)

\* Of two files with one number the one absorbed the other.
Nested(D) ==
  \A f, g \in D :
    f # g /\ f.num = g.num =>
      /\ Owned(f) # Owned(g)
      /\ Owned(f) \subseteq Owned(g) \/ Owned(g) \subseteq Owned(f)

\* A file does not list its own number, and only an Incremental is cut in two.
Neat(D) ==
  /\ \A f \in D : f.num \notin f.merged
  /\ \A f, c \in D : IsFullIndex(f) /\ c.split => c.inc # f.inc

\* The set is sound, the one of two files with one number has absorbed the other, and what the
\* owner sees is what the files that Tidy would leave restore to, until a merge has a flaw.
ViewInv ==
  /\ Inv /\ Nested(dir) /\ Neat(dir)
  /\ flaws = {} => view = ViewOf(Clean(dir))

-----------------------------------------------------------------------------
(* What one file has absorbed of another.                                  *)

\* The numbers of every file lie between its own and its moment.
LEMMA NumbersAre ==
  ASSUME NEW D, NEW n, NEW i, Shape(D, n, i)
  PROVE  \A f \in D : /\ f.num \in Nat /\ f.num \in Owned(f) /\ f.inc \in Nat
                      /\ Moment(f) \in Owned(f) /\ Moment(f) \in 0 .. n
                      /\ \A k \in Owned(f) : k \in Nat /\ f.num <= k /\ k <= Moment(f)
  <1> TAKE f \in D
  <1>1. FileOK(f, n, i) /\ n \in Nat /\ i \in Nat
    BY DEF Shape
  <1>2. f.inc \in Nat
    BY <1>1 DEF FileOK
  <1>3. /\ f.num \in Nat /\ f.num \in Owned(f) /\ Moment(f) \in Owned(f)
        /\ Moment(f) \in f.num .. n /\ \A k \in Owned(f) : k \in f.num .. Moment(f)
    BY <1>1, MomentIs
  <1> QED BY <1>1, <1>2, <1>3

\* Two files share no number, or the one has all the numbers of the other.
LEMMA ApartOrWithin ==
  ASSUME NEW D, NEW n, NEW i, Shape(D, n, i), Nested(D), NEW f \in D, NEW g \in D
  PROVE  \/ Owned(f) \cap Owned(g) = {}
         \/ Owned(f) \subseteq Owned(g) \/ Owned(g) \subseteq Owned(f)
  <1>1. ASSUME NEW a \in D, NEW b \in D, a.num < b.num
        PROVE  Owned(a) \cap Owned(b) = {} \/ Owned(b) \subseteq Owned(a)
    <2>1. CASE b.num <= Moment(a)
      BY <1>1, <2>1 DEF Shape, Laminar
    <2>2. CASE ~(b.num <= Moment(a))
      BY <1>1, <2>2, NumbersAre
    <2> QED BY <2>1, <2>2
  <1>2. f.num \in Nat /\ g.num \in Nat
    BY NumbersAre
  <1>3. CASE f.num < g.num
    BY <1>1, <1>3
  <1>4. CASE g.num < f.num
    BY <1>1, <1>4
  <1>5. CASE f.num = g.num
    BY <1>5 DEF Nested
  <1> QED BY <1>2, <1>3, <1>4, <1>5

\* No two files have the same numbers.
LEMMA NeverBoth ==
  ASSUME NEW D, NEW n, NEW i, Shape(D, n, i), Nested(D), NEW f \in D, NEW g \in D,
         Owned(f) = Owned(g)
  PROVE  f = g
  <1>1. f.num = g.num
    BY NumbersAre
  <1> QED BY <1>1 DEF Nested

\* What discover calls absorbed is to have fewer numbers.
LEMMA CleanIs ==
  ASSUME NEW D, NEW n, NEW i, Shape(D, n, i), Neat(D), NEW f \in D
  PROVE  f \in Clean(D) <=> \A g \in D : g # f => ~(Owned(f) \subseteq Owned(g))
  <1>1. ASSUME NEW g \in D
        PROVE  f.num \in Owned(g) /\ f.merged \subseteq g.merged <=> Owned(f) \subseteq Owned(g)
    <2>1. ASSUME f.num \in Owned(g), f.merged \subseteq g.merged PROVE Owned(f) \subseteq Owned(g)
      BY <2>1 DEF Owned
    <2>2. ASSUME Owned(f) \subseteq Owned(g)
          PROVE  f.num \in Owned(g) /\ f.merged \subseteq g.merged
      <3>1. f.num \in Owned(g)
        BY <2>2 DEF Owned
      <3>2. g.num \in Owned(f) => g.num = f.num
        BY <3>1, NumbersAre
      <3>3. g.num \notin f.merged
        BY <3>2 DEF Owned, Neat
      <3> QED BY <2>2, <3>1, <3>3 DEF Owned
    <2> QED BY <2>1, <2>2
  <1> QED BY <1>1 DEF Clean

\* No two files that are left have a number in common.
LEMMA CleanIsDisjoint ==
  ASSUME NEW D, NEW n, NEW i, Shape(D, n, i), Nested(D), Neat(D)
  PROVE  OneOwnerEach(Clean(D))
  <1>1. Clean(D) \subseteq D
    BY DEF Clean
  <1> QED BY <1>1, ApartOrWithin, CleanIs DEF OneOwnerEach

\* Where no number has two owners, nothing is absorbed.
LEMMA DisjointIsClean ==
  ASSUME NEW D, OneOwnerEach(D)
  PROVE  Clean(D) = D
  BY DEF OneOwnerEach, Clean, Owned

\* Each file is one that is left, or all within one.
LEMMA CleanCovers ==
  ASSUME NEW D, NEW n, NEW i, Shape(D, n, i), Nested(D), Neat(D), NEW f \in D
  PROVE  \E g \in Clean(D) : Owned(f) \subseteq Owned(g)
  <1> DEFINE G == {g \in D : Owned(f) \subseteq Owned(g)}
             Spare(g) == n + 1 - Cardinality(Owned(g))
             S == {Spare(g) : g \in G}
  <1>1. \A g \in D : /\ Owned(g) \subseteq 0 .. n /\ IsFiniteSet(Owned(g))
                     /\ Cardinality(Owned(g)) \in Nat /\ Cardinality(Owned(g)) <= n + 1
    <2> TAKE g \in D
    <2>1. n \in Nat /\ Owned(g) \subseteq 0 .. n
      <3>1. n \in Nat
        BY DEF Shape
      <3> QED BY <3>1, NumbersAre
    <2>2. IsFiniteSet(0 .. n) /\ Cardinality(0 .. n) = n + 1
      BY <2>1, FS_Interval
    <2> QED BY <2>1, <2>2, FS_Subset, FS_CardinalityType
  <1>2. S \in SUBSET Nat /\ S # {}
    BY <1>1 DEF Shape
  <1>3. PICK k \in S : \A l \in S : k <= l
    <2> HIDE DEF S
    <2> QED BY <1>2, LeastNatural
  <1>4. PICK g \in G : k = Spare(g)
    OBVIOUS
  <1>5. ASSUME NEW h \in D, h # g, Owned(g) \subseteq Owned(h) PROVE FALSE
    <2>1. h \in G /\ Owned(g) # Owned(h)
      BY <1>5, NeverBoth
    <2>2. Spare(g) <= Spare(h)
      BY <1>3, <1>4, <2>1
    <2>3. Cardinality(Owned(g)) < Cardinality(Owned(h))
      BY <1>1, <1>5, <2>1, FS_Subset
    <2> QED BY <1>1, <2>2, <2>3 DEF Shape
  <1>6. g \in Clean(D)
    BY <1>5, CleanIs
  <1> QED BY <1>6

-----------------------------------------------------------------------------
(* What the owner sees.                                                    *)

\* A directory in which every file can be resolved.
Sound(D, n, i) ==
  /\ Shape(D, n, i) /\ HasFull(D) /\ EntriesOK(D, n) /\ Accounted(D, n) /\ OneOwnerEach(D)

\* What is left when the absorbed files are put aside can be resolved.
LEMMA CleanIsSound ==
  ASSUME NEW D, NEW n, NEW i, Shape(D, n, i), HasFull(D), EntriesOK(D, n), Accounted(D, n),
         Intervals(D, FALSE), Nested(D), Neat(D)
  PROVE  Sound(Clean(D), n, i)
  <1> DEFINE C == Clean(D)
  <1>1. C \subseteq D /\ n \in Nat
    BY DEF Clean, Shape
  <1>2. Shape(C, n, i)
    BY <1>1, PartShape
  <1>3. OneOwnerEach(C)
    BY CleanIsDisjoint
  <1>4. \A f \in D : \E g \in C : Owned(f) \subseteq Owned(g)
    BY CleanCovers
  <1>5. HasFull(C)
    <2>1. PICK f \in D : f.num = 0
      BY DEF HasFull
    <2>2. PICK g \in C : Owned(f) \subseteq Owned(g)
      BY <1>4
    <2>3. 0 \in Owned(g) /\ g \in D
      BY <1>1, <2>1, <2>2, NumbersAre
    <2>4. g.num = 0
      BY <2>3, NumbersAre
    <2> QED BY <2>2, <2>4 DEF HasFull
  <1>6. EntriesOK(C, n)
    <2>1. \A c \in D : c.split => c \in C
      <3> SUFFICES ASSUME NEW c \in D, c.split, NEW g \in D, g # c, c.num \in Owned(g)
                   PROVE  FALSE
        BY DEF Clean
      <3> QED BY DEF Shape, SplitAlone
    <2>2. ASSUME NEW f \in C, NEW e, EntryOK(f, e, D) PROVE EntryOK(f, e, C)
      BY <2>1, <2>2 DEF EntryOK
    <2> HIDE DEF C
    <2> QED BY <1>1, <2>2 DEF EntriesOK
  <1>7. Accounted(C, n)
    <2> SUFFICES ASSUME NEW k \in 0 .. n, \A g \in C : k \notin Owned(g),
                        NEW top \in {t.num : t \in C} \cup {n + 1}, k < top
                 PROVE  \E d \in C : IsFullIndex(d) /\ k < d.num /\ d.num <= top
      BY DEF Accounted
    <2> HIDE DEF C
    <2>1. \A g \in D : k \notin Owned(g)
      BY <1>4
    <2>2. top \in {t.num : t \in D} \cup {n + 1}
      BY <1>1
    <2>3. PICK d \in D : IsFullIndex(d) /\ k < d.num /\ d.num <= top
      BY <2>1, <2>2 DEF Accounted
    <2>4. PICK g \in C : Owned(d) \subseteq Owned(g)
      BY <1>4
    <2>5. d.num \in Owned(g) /\ g \in D
      BY <1>1, <2>4, NumbersAre
    <2>6. g = d
      <3> SUFFICES ASSUME g # d PROVE FALSE
        OBVIOUS
      <3>1. g.num = 0
        BY <2>3, <2>5 DEF Shape, FullsOver
      <3>2. 0 .. Moment(g) \subseteq Owned(g)
        BY <2>5, <3>1 DEF Intervals
      <3>3. k \in 0 .. Moment(g)
        BY <2>3, <2>5, NumbersAre
      <3> QED BY <2>1, <2>5, <3>2, <3>3
    <2> QED BY <2>3, <2>4, <2>6
  <1> QED BY <1>2, <1>3, <1>5, <1>6, <1>7 DEF Sound

\* The files a restore can start from: those no continuation belongs to.
Heads(D) == {t \in D : ~t.split /\ \A c \in D : c.split => c.inc # t.inc}

\* They are the files discovery and resolve() accept.
LEMMA HeadsAreStarts ==
  ASSUME NEW D, NEW n, NEW i, Sound(D, n, i), NEW t \in D
  PROVE  /\ t \in Heads(D) <=> Discoverable(D, t) /\ Resolvable(Members(D, t))
         /\ t \in Heads(D) => Found(D, n, i, t)
  <1> DEFINE M == Members(D, t)
             m == Newest(M)
  <1>1. Shape(D, n, i) /\ HasFull(D) /\ OneOwnerEach(D) /\ Discoverable(D, t)
    BY NoneMissing DEF Sound
  <1>2. t \in M /\ M \subseteq D /\ WellFormed(M, n, Positions, EntrySet)
    BY <1>1, MembersAre DEF Discoverable
  <1>3. m \in M /\ \A g \in M : g.num <= m.num
    <2>1. M # {} /\ n \in Nat /\ \A f \in M : f.num \in 0 .. n
      BY <1>2 DEF WellFormed, Numbered
    <2> HIDE DEF M
    <2> QED BY <2>1, NewestIsLast
  <1>4. \A g \in D : g.num \in Nat /\ g.inc \in Nat /\ (g \in M <=> g.inc <= t.inc)
    BY <1>1, NumbersAre DEF Members
  <1>5. \A f, g \in D : /\ f.num < g.num => f.inc <= g.inc
                        /\ f.num < g.num /\ f.inc = g.inc => g.split
                        /\ f.num = g.num => f = g
    BY <1>1, OneAfterTheOther DEF Shape, Order
  <1> HIDE DEF M, m
  <1>6. ASSUME t \in Heads(D) PROVE m = t /\ ~t.split
    <2>1. t.num <= m.num /\ m \in D
      BY <1>2, <1>3
    <2>2. ~(t.num < m.num)
      <3> SUFFICES ASSUME t.num < m.num PROVE FALSE
        OBVIOUS
      <3>1. m.inc = t.inc /\ m.split
        BY <1>3, <1>4, <1>5, <2>1
      <3> QED BY <1>6, <2>1, <3>1 DEF Heads
    <2>3. m.num = t.num
      BY <1>4, <2>1, <2>2
    <2> QED BY <1>5, <1>6, <2>1, <2>3 DEF Heads
  <1>7. ASSUME Resolvable(M) PROVE t \in Heads(D)
    <2>1. Found(D, n, i, t)
      BY <1>1, <1>7 DEF Found, M
    <2>2. m = t /\ ~t.split
      BY <2>1, NewestIsTo DEF M, m
    <2>3. ASSUME NEW c \in D, c.split, c.inc = t.inc PROVE FALSE
      <3>1. c.num <= t.num
        BY <1>3, <1>4, <2>2, <2>3
      <3>2. c.num # t.num
        BY <1>5, <2>2, <2>3
      <3>3. c.num < t.num
        BY <1>4, <3>1, <3>2
      <3> QED BY <1>5, <2>2, <2>3, <3>3
    <2> QED BY <2>2, <2>3 DEF Heads
  <1>8. t \in Heads(D) <=> Resolvable(M)
    BY <1>6, <1>7 DEF Resolvable, m
  <1> QED BY <1>1, <1>8 DEF M, Found

\* The moments of a directory.
Moments(D) == {Moment(t) : t \in Heads(D)}

\* At each moment the owner gets back the disk of that moment.
LEMMA ViewIs ==
  ASSUME NEW D, NEW n, NEW i, Sound(D, n, i),
         NEW im, \A f \in D : Values(f, D, im),
         NEW W, \A k \in 0 .. n : im[k] \in [Spots -> W]
  PROVE  /\ ViewOf(D) = [m \in Moments(D) |-> im[m]]
         /\ Moments(D) \subseteq 0 .. n
  <1> DEFINE starts == {t \in D : Discoverable(D, t) /\ Resolvable(Members(D, t))}
             Start(m) == CHOOSE t \in starts : Moment(t) = m
  <1>1. starts = Heads(D)
    BY HeadsAreStarts DEF Heads
  <1>2. Moments(D) \subseteq 0 .. n
    BY NumbersAre DEF Moments, Heads, Sound
  <1>3. ASSUME NEW m \in Moments(D) PROVE Restore(Members(D, Start(m))) = im[m]
    <2> HIDE DEF starts
    <2>1. Start(m) \in starts /\ Moment(Start(m)) = m
      BY <1>1 DEF Moments
    <2> DEFINE t == Start(m)
    <2> HIDE DEF Start
    <2>2. t \in D /\ Found(D, n, i, t)
      BY <1>1, <2>1, HeadsAreStarts DEF Heads
    <2>3. im[Moment(t)] \in [Spots -> W]
      BY <1>2, <2>1
    <2> QED BY <2>1, <2>2, <2>3, RestoreIsImage DEF Sound
  <1>4. ViewOf(D) = [m \in Moments(D) |-> Restore(Members(D, Start(m)))]
    BY <1>1 DEF ViewOf, Moments
  <1> HIDE DEF Start
  <1> QED BY <1>2, <1>3, <1>4

\* A directory as the invariant has it, until a merge has one of the two flaws.
Unflawed(D, n, i, im) ==
  /\ Shape(D, n, i) /\ HasFull(D) /\ EntriesOK(D, n) /\ Accounted(D, n)
  /\ Intervals(D, FALSE) /\ Nested(D) /\ Neat(D)
  /\ \A f \in D : Values(f, D, im)
  /\ \A k \in 0 .. n : im[k] \in [Spots -> {Nothing} \cup (Nat \X Nat)]

\* So it is of the files that Tidy would leave.
LEMMA SeenIs ==
  ASSUME NEW D, NEW n, NEW i, NEW im, Unflawed(D, n, i, im)
  PROVE  /\ ViewOf(Clean(D)) = [m \in Moments(Clean(D)) |-> im[m]]
         /\ Moments(Clean(D)) \subseteq 0 .. n
  <1> DEFINE C == Clean(D)
             W == {Nothing} \cup (Nat \X Nat)
  <1>1. Sound(C, n, i)
    BY CleanIsSound DEF Unflawed
  <1>2. \A f \in C : Values(f, C, im)
    <2>1. C \in SUBSET D
      BY DEF Clean
    <2> HIDE DEF C
    <2> QED BY <2>1, ValuesOfPart DEF Unflawed
  <1>3. \A k \in 0 .. n : im[k] \in [Spots -> W]
    BY DEF Unflawed
  <1> HIDE DEF C, W
  <1>4. ViewOf(C) = [m \in Moments(C) |-> im[m]] /\ Moments(C) \subseteq 0 .. n
    BY <1>1, <1>2, <1>3, ViewIs
  <1> QED BY <1>4 DEF C

-----------------------------------------------------------------------------
(* What each action changes of it.                                         *)

\* Files that share no number have none in common to be nested by.
LEMMA DisjointIsNested ==
  ASSUME NEW D, OneOwnerEach(D)
  PROVE  Nested(D)
  BY DEF OneOwnerEach, Nested, Owned

\* From the moments S to the moments T, where n is the newest backup there was: nothing, one
\* more, those of a range but its last gone, or one gone that is not the newest.
Sees(S, T, n) ==
  \/ T = S
  \/ \E k \in Nat : n < k /\ T = S \cup {k}
  \/ \E low, high \in S : low < high /\ T = {m \in S : m < low \/ high <= m}
  \/ \E m, k \in S : m < k /\ T = S \ {m}

\* The files of a new backup: of two parts neither is one to start from.
NewBackup(F, n, i) ==
  /\ \A f \in F : f.num \in Nat /\ n < f.num /\ f.inc = i + 1 /\ f.merged = {}
  /\ \A f, g \in F : f.num = g.num => f = g
  /\ \A f, c \in F : IsFullIndex(f) => ~c.split
  /\ Heads(F) = {} \/ \E f \in F : Heads(F) = {f}

\* A backup adds its own moment at most: one cut in two adds none.
LEMMA BackupSeen ==
  ASSUME NEW D, NEW n, NEW i, Shape(D, n, i), OneOwnerEach(D), Neat(D),
         NEW F, NewBackup(F, n, i), NEW P, P = D \cup F
  PROVE  Nested(P) /\ Neat(P) /\ Sees(Moments(Clean(D)), Moments(Clean(P)), n)
  <1>1. /\ \A f \in D : /\ f.inc \in Nat /\ f.inc <= i
                        /\ \A k \in Owned(f) : k \in Nat /\ k <= n
        /\ n \in Nat /\ i \in Nat
    <2>1. n \in Nat /\ i \in Nat /\ \A f \in D : f.inc \in 0 .. i
      BY DEF Shape, FileOK
    <2>2. \A f \in D : \A k \in Owned(f) : k \in Nat /\ k <= n
      BY <2>1, NumbersAre
    <2> QED BY <2>1, <2>2
  <1>2. \A f \in F : Owned(f) = {f.num} /\ Moment(f) = f.num
    BY MomentOfOne DEF NewBackup
  <1>3. OneOwnerEach(P)
    <2> SUFFICES ASSUME NEW f \in P, NEW g \in P, f # g PROVE Owned(f) \cap Owned(g) = {}
      BY DEF OneOwnerEach
    <2>1. CASE f \in D /\ g \in D
      BY <2>1 DEF OneOwnerEach
    <2>2. CASE f \in F /\ g \in F
      BY <1>2, <2>2 DEF NewBackup
    <2>3. CASE (f \in D /\ g \in F) \/ (f \in F /\ g \in D)
      BY <1>1, <1>2, <2>3 DEF NewBackup
    <2> QED BY <2>1, <2>2, <2>3
  <1>4. Neat(P)
    <2>1. \A f \in P : f.num \notin f.merged
      BY DEF Neat, NewBackup
    <2>2. ASSUME NEW f \in P, NEW c \in P, IsFullIndex(f), c.split PROVE c.inc # f.inc
      <3>1. CASE f \in D /\ c \in D
        BY <2>2, <3>1 DEF Neat
      <3>2. CASE f \in F /\ c \in F
        BY <2>2, <3>2 DEF NewBackup
      <3>3. CASE (f \in D /\ c \in F) \/ (f \in F /\ c \in D)
        BY <1>1, <3>3 DEF NewBackup
      <3> QED BY <3>1, <3>2, <3>3
    <2> QED BY <2>1, <2>2 DEF Neat
  <1>5. \A f \in D, g \in F : f.inc # g.inc
    BY <1>1 DEF NewBackup
  <1>6. Heads(P) = Heads(D) \cup Heads(F)
    BY <1>5 DEF Heads
  <1>7. Moments(P) = Moments(D) \cup Moments(F)
    BY <1>6 DEF Moments
  <1>8. Clean(D) = D /\ Clean(P) = P
    BY <1>3, DisjointIsClean
  <1>9. CASE Heads(F) = {}
    <2>1. Moments(F) = {}
      BY <1>9 DEF Moments
    <2>2. Moments(Clean(P)) = Moments(Clean(D))
      BY <1>7, <1>8, <2>1
    <2> QED BY <1>3, <1>4, <2>2, DisjointIsNested DEF Sees
  <1>10. CASE \E f \in F : Heads(F) = {f}
    <2>1. PICK f \in F : Heads(F) = {f}
      BY <1>10
    <2>2. Moments(F) = {Moment(f)}
      BY <2>1 DEF Moments
    <2>3. Moment(f) \in Nat /\ n < Moment(f)
      BY <1>2 DEF NewBackup
    <2> QED BY <1>3, <1>4, <1>7, <1>8, <2>2, <2>3, DisjointIsNested DEF Sees
  <1> QED BY <1>3, <1>4, <1>9, <1>10, DisjointIsNested DEF NewBackup

\* What Reflect thins out was one moment, or none when it had been cut in two.
LEMMA RetentionSeen ==
  ASSUME NEW D, NEW n, NEW i, Shape(D, n, i), OneOwnerEach(D), Neat(D),
         NEW f \in D, NEW d \in D, f.delta, IsFullIndex(d), f.inc < d.inc,
         NEW P, P = {g \in D : g.inc # f.inc}
  PROVE  Nested(P) /\ Neat(P) /\ Sees(Moments(Clean(D)), Moments(Clean(P)), n)
  <1>1. OneOwnerEach(P) /\ Neat(P)
    BY DEF OneOwnerEach, Neat
  <1>2. Clean(D) = D /\ Clean(P) = P
    BY <1>1, DisjointIsClean
  <1>3. Heads(P) = {t \in Heads(D) : t.inc # f.inc}
    BY DEF Heads
  <1>4. \A g, h \in D : /\ g.num < h.num => Moment(g) < h.num /\ g.inc <= h.inc
                        /\ g.num < h.num /\ g.inc = h.inc => h.split
                        /\ g.num = h.num => g = h
    BY OneAfterTheOther DEF Shape, Order
  <1>5. \A g \in D : /\ g.num \in Nat /\ g.inc \in Nat /\ Moment(g) \in Nat
                     /\ g.num <= Moment(g)
    BY NumbersAre
  <1>6. ~f.split /\ ~d.split
    BY Kinds3 DEF Shape
  <1>7. ASSUME NEW t \in Heads(D), t.inc = f.inc PROVE t = f
    <2>1. t \in D /\ ~t.split
      BY DEF Heads
    <2> QED BY <1>4, <1>5, <1>6, <1>7, <2>1
  <1>8. CASE f \notin Heads(D)
    <2>1. Heads(P) = Heads(D)
      BY <1>3, <1>7, <1>8
    <2> QED BY <1>1, <1>2, <2>1, DisjointIsNested DEF Sees, Moments
  <1>9. CASE f \in Heads(D)
    <2>1. Heads(P) = Heads(D) \ {f}
      BY <1>3, <1>7
    <2>2. \A t \in Heads(D) : Moment(t) = Moment(f) => t = f
      <3> SUFFICES ASSUME NEW t \in D, Moment(t) = Moment(f) PROVE t = f
        BY DEF Heads
      <3>1. Moment(t) \in Owned(t) /\ Moment(f) \in Owned(f)
        BY NumbersAre
      <3> QED BY <3>1 DEF OneOwnerEach
    <2>3. Moments(P) = Moments(D) \ {Moment(f)}
      BY <2>1, <2>2 DEF Moments
    <2>4. d \in Heads(D)
      BY <1>6 DEF Heads, Neat
    <2>5. Moment(f) < Moment(d)
      <3>1. f.num < d.num
        BY <1>4, <1>5
      <3> QED BY <1>4, <1>5, <3>1
    <2>6. Moment(f) \in Moments(D) /\ Moment(d) \in Moments(D)
      BY <1>9, <2>4 DEF Moments
    <2> QED BY <1>1, <1>2, <2>3, <2>5, <2>6, DisjointIsNested DEF Sees
  <1> QED BY <1>8, <1>9

\* The deletion of an absorbed file is not seen.
LEMMA AbsorbedGoes ==
  ASSUME NEW D, NEW n, NEW i, Shape(D, n, i), Nested(D), Neat(D),
         NEW f \in D, NEW o \in D, o # f, Owned(f) \subseteq Owned(o),
         NEW P, P = D \ {f}
  PROVE  Nested(P) /\ Neat(P) /\ Clean(P) = Clean(D)
  <1>1. Nested(P) /\ Neat(P)
    BY DEF Nested, Neat
  <1>2. Shape(P, n, i)
    BY PartShape
  <1>3. f \notin Clean(D)
    BY CleanIs
  <1>4. ASSUME NEW g \in P PROVE g \in Clean(P) <=> g \in Clean(D)
    <2>1. ASSUME g \in Clean(D) PROVE g \in Clean(P)
      BY <1>1, <1>2, <2>1, CleanIs
    <2>2. ASSUME g \in Clean(P), NEW h \in D, h # g, Owned(g) \subseteq Owned(h) PROVE FALSE
      <3>1. h = f
        BY <1>1, <1>2, <2>2, CleanIs
      <3>2. o = g
        BY <1>1, <1>2, <2>2, <3>1, CleanIs
      <3>3. Owned(f) = Owned(g)
        BY <2>2, <3>1, <3>2
      <3> QED BY <3>3, NeverBoth
    <2> QED BY <2>1, <2>2, CleanIs
  <1>5. Clean(P) \subseteq P /\ Clean(D) \subseteq D
    BY DEF Clean
  <1> QED BY <1>1, <1>3, <1>4, <1>5

\* In a directory of which a range is merged: the members are all left by what was absorbed,
\* and nothing has the numbers of the range beside its members.
LEMMA RangeIsClean ==
  ASSUME NEW D, NEW n, NEW i, NEW from, NEW to, Merging(D, n, i, from, to), Nested(D), Neat(D),
         NEW M, M = Members(D, to), NEW R, R = InRange(M, from, to),
         NEW A, A = Absorbed(M, from, to)
  PROVE  /\ OneOwnerEach(Clean(D)) /\ M \subseteq Clean(D)
         /\ \A f \in D : f.num <= to.num => f \in M
         /\ \A f \in Clean(D) : f \in R <=> Owned(f) \cap A # {}
         /\ \A g \in D : ~(A \subseteq Owned(g))
         /\ \A c \in D : c.split => c \notin R /\ c.inc # from.inc /\ c.inc # to.inc
         /\ \A c \in D : c.split => c \in Clean(D) /\ Owned(c) = {c.num} /\ c.num \notin A
  <1> DEFINE C == Clean(D)
  <1>1. RangeFacts(M, R, A, from, to)
    BY RangeIs
  <1>2. /\ Shape(D, n, i) /\ to \in D /\ OneOwnerEach(M)
        /\ M \subseteq D /\ from \in M /\ to \in M
        /\ HasFull(D) /\ NoSplit(M, from, to)
    BY MembersAre DEF Merging, Found, Discoverable, Mergeable
  <1>3. \A f \in D : /\ f.num \in Nat /\ f.num \in Owned(f) /\ f.inc \in Nat
                     /\ \A k \in Owned(f) : k \in Nat /\ f.num <= k
                     /\ (f \in M <=> f.inc <= to.inc)
    BY <1>2, NumbersAre DEF Members
  <1>4. \A f, g \in D : (f.num < g.num => f.inc <= g.inc) /\ (f.num = g.num => f.inc = g.inc)
    BY <1>2 DEF Shape, Order
  <1>5. \A f \in D : f.num <= to.num => f \in M
    BY <1>2, <1>3, <1>4
  <1>6. OneOwnerEach(C) /\ C \subseteq D
    BY <1>2, CleanIsDisjoint DEF Clean
  <1>7. ASSUME NEW f \in M PROVE f \in C
    <2> SUFFICES ASSUME NEW g \in D, g # f, Owned(f) \subseteq Owned(g) PROVE FALSE
      BY <1>2, CleanIs
    <2>1. f.num \in Owned(g) /\ g.num <= f.num /\ f.inc <= to.inc
      BY <1>2, <1>3
    <2>2. g.inc <= f.inc
      BY <1>2, <1>3, <1>4, <2>1
    <2>3. g \in M
      BY <1>2, <1>3, <2>1, <2>2
    <2> QED BY <1>2, <1>3, <2>1, <2>3 DEF OneOwnerEach
  <1> HIDE DEF C
  <1>8. ASSUME NEW f \in C PROVE f \in R <=> Owned(f) \cap A # {}
    <2>1. f \in R => Owned(f) \cap A # {}
      BY <1>1, <1>3, <1>6 DEF RangeFacts
    <2>2. ASSUME NEW k \in Owned(f), k \in A PROVE f \in R
      <3>1. PICK g \in R : k \in Owned(g)
        BY <1>1, <2>2 DEF RangeFacts
      <3>2. g \in C
        BY <1>1, <1>7, <3>1 DEF RangeFacts
      <3> QED BY <1>6, <2>2, <3>1, <3>2 DEF OneOwnerEach
    <2> QED BY <2>1, <2>2
  <1>9. ASSUME NEW g \in D, A \subseteq Owned(g) PROVE FALSE
    <2>1. from.num \in Owned(g) /\ to.num \in Owned(g)
      BY <1>1, <1>9 DEF RangeFacts
    <2>2. g.num <= to.num
      BY <1>3, <2>1
    <2>3. g \in M
      BY <1>5, <2>2
    <2>4. g = from /\ g = to
      BY <1>2, <1>3, <2>1, <2>3 DEF OneOwnerEach
    <2> QED BY <1>1, <1>2, <1>3, <2>4 DEF RangeFacts
  <1>10. ASSUME NEW c \in D, c.split PROVE c \notin R /\ c.inc # from.inc /\ c.inc # to.inc
    <2>1. c \notin R
      BY <1>2, <1>10 DEF NoSplit
    <2>2. from.inc <= to.inc /\ from.inc \in Nat /\ to.inc \in Nat
      BY <1>2, <1>3
    <2>3. c.inc = from.inc \/ c.inc = to.inc => c \in R
      BY <1>3, <2>2 DEF InRange
    <2> QED BY <2>1, <2>3
  <1>11. ASSUME NEW c \in D, c.split PROVE c \in C /\ Owned(c) = {c.num} /\ c.num \notin A
    <2>1. c.merged = {} /\ \A g \in D : c.num \in Owned(g) => g = c
      BY <1>2, <1>11 DEF Shape, SplitAlone, FileOK
    <2>2. Owned(c) = {c.num}
      BY <2>1 DEF Owned
    <2>3. c \in C
      BY <2>1 DEF Clean, C
    <2> QED BY <1>8, <1>10, <1>11, <2>2, <2>3
  <1> QED BY <1>5, <1>6, <1>7, <1>8, <1>9, <1>10, <1>11 DEF C

\* The output takes the place of the range.
LEMMA MergeClean ==
  ASSUME NEW D, NEW n, NEW i, NEW from, NEW to, Merging(D, n, i, from, to), Nested(D), Neat(D),
         NEW M, M = Members(D, to), NEW R, R = InRange(M, from, to),
         NEW A, A = Absorbed(M, from, to),
         NEW o, HeaderFacts(o, A, from, to), o.num \notin o.merged,
         NEW P, P = D \cup {o}, Shape(P, n, i)
  PROVE  Nested(P) /\ Neat(P) /\ Clean(P) = (Clean(D) \ R) \cup {o}
  <1>1. /\ RangeFacts(M, R, A, from, to) /\ Shape(D, n, i) /\ OneOwnerEach(M)
        /\ from \in M /\ to \in M /\ M \subseteq D /\ from \in D /\ to \in D
    BY RangeIs, MembersAre DEF Merging, Found, Discoverable
  <1>2. /\ \A f \in D : f.num <= to.num => f \in M
        /\ \A f \in Clean(D) : f \in R <=> Owned(f) \cap A # {}
        /\ \A g \in D : ~(A \subseteq Owned(g))
        /\ \A c \in D : c.split => c.inc # from.inc
    BY RangeIsClean
  <1>3. o \notin D /\ Owned(o) = A /\ o.num = from.num /\ o.inc = from.inc /\ ~o.split
    BY <1>2 DEF HeaderFacts
  <1>4. Nested(P)
    <2>1. ASSUME NEW g \in D, g.num = o.num PROVE Owned(g) # A /\ Owned(g) \subseteq A
      <3>1. g.num <= to.num
        BY <1>1, <1>3, <2>1, NumbersAre DEF RangeFacts
      <3>2. g \in M
        BY <1>2, <3>1
      <3>3. g = from
        BY <1>1, <1>3, <2>1, <3>2 DEF OneOwnerEach, Owned
      <3>4. from \in R
        BY <1>1 DEF RangeFacts
      <3> QED BY <1>1, <1>2, <3>3, <3>4 DEF RangeFacts
    <2> QED BY <1>3, <2>1 DEF Nested
  <1>5. Neat(P)
    <2>1. \A f \in P : f.num \notin f.merged
      BY DEF Neat
    <2>2. ASSUME NEW f \in P, NEW c \in P, IsFullIndex(f), c.split PROVE c.inc # f.inc
      BY <1>2, <1>3, <2>2 DEF Neat
    <2> QED BY <2>1, <2>2 DEF Neat
  <1>6. o \in Clean(P)
    BY <1>2, <1>3, <1>5, CleanIs
  <1>7. ASSUME NEW f \in D PROVE f \in Clean(P) <=> f \in Clean(D) /\ Owned(f) \cap A = {}
    <2>1. f \in Clean(P) <=> f \in Clean(D) /\ ~(Owned(f) \subseteq A)
      BY <1>1, <1>3, <1>5, CleanIs
    <2>2. Owned(f) \cap A = {} \/ Owned(f) \subseteq A
      BY <1>2, <1>3, <1>4, ApartOrWithin
    <2>3. Owned(f) # {}
      BY DEF Owned
    <2> QED BY <2>1, <2>2, <2>3
  <1>8. Clean(P) \subseteq P /\ Clean(D) \subseteq D
    BY DEF Clean
  <1>9. \A f : f \in Clean(P) <=> (f \in Clean(D) /\ f \notin R) \/ f = o
    BY <1>2, <1>3, <1>6, <1>7, <1>8
  <1> QED BY <1>4, <1>5, <1>9

\* A merge gives up the moments from that of From to the one before that of To.
LEMMA MergeSeen ==
  ASSUME NEW D, NEW n, NEW i, NEW from, NEW to, Merging(D, n, i, from, to), Nested(D), Neat(D),
         NEW M, M = Members(D, to), NEW A, A = Absorbed(M, from, to),
         NEW o, HeaderFacts(o, A, from, to), o.num \notin o.merged,
         NEW P, P = D \cup {o}, Shape(P, n, i)
  PROVE  Nested(P) /\ Neat(P) /\ Sees(Moments(Clean(D)), Moments(Clean(P)), n)
  <1> DEFINE R == InRange(M, from, to)
             C == Clean(D)
             Q == Clean(P)
             low == Moment(from)
             high == Moment(to)
  <1>1. /\ RangeFacts(M, R, A, from, to) /\ Shape(D, n, i)
        /\ from \in M /\ to \in M /\ M \subseteq D /\ from \in D /\ to \in D
    BY RangeIs, MembersAre DEF Merging, Found, Discoverable
  <1>2. /\ OneOwnerEach(C) /\ M \subseteq C
        /\ \A f \in D : f.num <= to.num => f \in M
        /\ \A c \in D : c.split => c \notin R /\ c.inc # from.inc /\ c.inc # to.inc
        /\ C \subseteq D
    <2>1. C \subseteq D
      BY DEF Clean
    <2>2. R = InRange(M, from, to)
      OBVIOUS
    <2> HIDE DEF R
    <2>3. /\ OneOwnerEach(Clean(D)) /\ M \subseteq Clean(D)
          /\ \A f \in D : f.num <= to.num => f \in M
          /\ \A c \in D : c.split => c \notin R /\ c.inc # from.inc /\ c.inc # to.inc
      BY ONLY Merging(D, n, i, from, to), Nested(D), Neat(D), M = Members(D, to), <2>2,
              A = Absorbed(M, from, to), RangeIsClean
    <2> QED BY ONLY <2>1, <2>3 DEF C
  <1>3. Nested(P) /\ Neat(P) /\ Q = (C \ R) \cup {o}
    BY MergeClean
  <1>4. from \in R /\ to \in R /\ from.num < to.num /\ ~from.split /\ ~to.split
    BY <1>1 DEF RangeFacts
  <1>5. o.inc = from.inc /\ Moment(o) = high /\ ~o.split
    BY DEF HeaderFacts
  <1> HIDE DEF R, C, Q
  <1>6. from \in Heads(C) /\ to \in Heads(C)
    BY <1>1, <1>2, <1>4 DEF Heads
  <1>7. Heads(Q) = (Heads(C) \ R) \cup {o}
    BY <1>2, <1>3, <1>5 DEF Heads
  <1>8. Moments(Q) = {Moment(t) : t \in Heads(C) \ R} \cup {high}
    BY <1>5, <1>7 DEF Moments
  <1>9. Shape(C, n, i)
    BY <1>1, <1>2, PartShape
  <1>10. \A g, h \in C : /\ g.num < h.num => Moment(g) < h.num
                         /\ g.num = h.num => g = h
    BY <1>2, <1>9, OneAfterTheOther
  <1>11. \A g \in C : g.num \in Nat /\ Moment(g) \in Nat /\ g.num <= Moment(g)
    BY <1>9, NumbersAre
  <1>12. from \in C /\ to \in C /\ low < high
    BY <1>1, <1>2, <1>4, <1>10, <1>11
  <1>13. ASSUME NEW t \in C, t \notin R PROVE Moment(t) < low \/ high < Moment(t)
    <2>1. CASE t.num < from.num
      BY <1>10, <1>11, <1>12, <2>1
    <2>2. CASE to.num < t.num
      BY <1>10, <1>11, <1>12, <2>2
    <2>3. CASE from.num <= t.num /\ t.num <= to.num
      <3>1. t \in M
        BY <1>2, <2>3
      <3> QED BY <1>1, <1>13, <2>3, <3>1 DEF RangeFacts
    <2> QED BY <1>11, <1>12, <2>1, <2>2, <2>3
  <1>14. ASSUME NEW t \in C, t \in R PROVE low <= Moment(t) /\ Moment(t) <= high
    <2>1. from.num <= t.num /\ Moment(t) <= high
      BY <1>1, <1>2, <1>14 DEF RangeFacts
    <2>2. CASE from.num = t.num
      BY <1>10, <1>11, <1>12, <2>1, <2>2
    <2>3. CASE from.num < t.num
      BY <1>10, <1>11, <1>12, <2>1, <2>3
    <2> QED BY <1>11, <1>12, <2>1, <2>2, <2>3
  <1>15. \A t \in Heads(C) : t \in C
    BY DEF Heads
  <1>16. Moments(Q) = {m \in Moments(C) : m < low \/ high <= m}
    <2>1. ASSUME NEW m \in Moments(Q) PROVE m \in Moments(C) /\ (m < low \/ high <= m)
      BY <1>6, <1>8, <1>11, <1>12, <1>13, <1>15, <2>1 DEF Moments
    <2>2. ASSUME NEW m \in Moments(C), m < low \/ high <= m PROVE m \in Moments(Q)
      <3>1. PICK t \in Heads(C) : m = Moment(t)
        BY DEF Moments
      <3>2. t \in R => m = high
        BY <1>11, <1>12, <1>14, <1>15, <2>2, <3>1
      <3> QED BY <1>8, <3>1, <3>2
    <2> QED BY <2>1, <2>2
  <1>17. low \in Moments(C) /\ high \in Moments(C)
    BY <1>6 DEF Moments
  <1> QED BY <1>3, <1>12, <1>16, <1>17 DEF Sees, C, Q

-----------------------------------------------------------------------------
(* Every action is seen as a step of RestorePoints, or not at all.         *)

\* What is shown of an action.
Seen ==
  /\ Nested(dir') /\ Neat(dir')
  /\ Sees(Moments(Clean(dir)), Moments(Clean(dir')), last.num)
  /\ \A k \in 0 .. last.num : image'[k] = image[k]

\* A backup changes the image of no earlier moment.
LEMMA BackupIsSeen ==
  ASSUME Inv, Neat(dir), NEW F, NEW now, Backup(F, now), NewBackup(F, last.num, last.inc)
  PROVE  Seen
  <1> DEFINE n == last.num
             i == last.inc
             P == dir \cup F
  <1>1. /\ Shape(dir, n, i) /\ NewBackup(F, n, i) /\ P = dir \cup F
        /\ OneOwnerEach(dir) /\ dir' = P
    BY DEF Inv, Backup, Settled
  <1>2. \A k \in 0 .. n : image'[k] = image[k]
    <2> TAKE k \in 0 .. n
    <2>1. k \in DOMAIN image /\ k \notin {f.num : f \in F}
      BY <1>1 DEF Inv, Images, Shape, NewBackup
    <2> QED BY <2>1 DEF Backup
  <1> HIDE DEF n, i, P
  <1>3. Nested(P) /\ Neat(P) /\ Sees(Moments(Clean(dir)), Moments(Clean(P)), n)
    BY <1>1, BackupSeen
  <1> QED BY <1>1, <1>2, <1>3 DEF Seen, n

\* A new file of Reflect's, alone.
LEMMA OneFile ==
  ASSUME Inv, NEW f, f.num = last.num + 1, f.inc = last.inc + 1, f.merged = {}, ~f.split
  PROVE  NewBackup({f}, last.num, last.inc)
  <1>1. last.num \in Nat
    BY DEF Inv, Shape
  <1>2. Heads({f}) = {f}
    BY DEF Heads
  <1>3. /\ f.num \in Nat /\ last.num < f.num /\ f.inc = last.inc + 1 /\ f.merged = {}
        /\ ~f.split
    BY <1>1
  <1> QED BY ONLY <1>2, <1>3 DEF NewBackup

\* An Incremental is one file.
LEMMA IncrementalSeen == ASSUME Inv, Neat(dir), Incremental PROVE Seen
  <1>1. PICK f, now :
          /\ Backup({f}, now)
          /\ f.num = last.num + 1 /\ f.inc = last.inc + 1 /\ f.merged = {} /\ ~f.split
    <2> DEFINE n == last.num + 1
               File(news, empty, s) ==
                 BackupFile(n, last.inc + 1, TRUE, FALSE, s, Written(n, news, empty), news, empty,
                            <<>>)
    <2>1. PICK news \in SUBSET Places :
            \E empty \in SUBSET (Places \ news), s \in Settings :
              Backup({File(news, empty, s)}, Written(n, news, empty))
      BY DEF Incremental
    <2>2. PICK empty \in SUBSET (Places \ news), s \in Settings :
            Backup({File(news, empty, s)}, Written(n, news, empty))
      BY <2>1
    <2>3. /\ File(news, empty, s).num = last.num + 1 /\ File(news, empty, s).inc = last.inc + 1
          /\ File(news, empty, s).merged = {} /\ ~File(news, empty, s).split
      BY DEF BackupFile
    <2> QED BY <2>2, <2>3
  <1> QED BY <1>1, OneFile, BackupIsSeen

\* So is a Differential.
LEMMA DifferentialSeen == ASSUME Inv, Neat(dir), Differential PROVE Seen
  <1>1. PICK f, now :
          /\ Backup({f}, now)
          /\ f.num = last.num + 1 /\ f.inc = last.inc + 1 /\ f.merged = {} /\ ~f.split
    <2> DEFINE n == last.num + 1
               Was(full) == image[Max(Owned(full))]
               Empty(now) == {p \in Places : now[p] = Nothing}
               News(now, was) == {p \in Places \ Empty(now) : now[p] # was[p]}
               File(full, now, s) ==
                 BackupFile(n, last.inc + 1, FALSE, TRUE, s, now, News(now, Was(full)),
                            Empty(now), full.blocks)
    <2>1. PICK full \in dir, touched \in SUBSET Places, s \in Settings :
            Backup({File(full, Written(n, touched, {}), s)}, Written(n, touched, {}))
      BY DEF Differential
    <2> DEFINE f == File(full, Written(n, touched, {}), s)
    <2>2. f.num = last.num + 1 /\ f.inc = last.inc + 1 /\ f.merged = {} /\ ~f.split
      BY DEF BackupFile
    <2> QED BY <2>1, <2>2
  <1> QED BY <1>1, OneFile, BackupIsSeen

\* A backup cut in two is two files of one increment, the second a continuation.
LEMMA SplitSeen == ASSUME Inv, Neat(dir), SplitIncremental PROVE Seen
  <1> DEFINE n == last.num + 1
             File(news, s) ==
               BackupFile(n, last.inc + 1, TRUE, FALSE, s, Written(n, news, {}), news, {}, <<>>)
  <1>1. PICK news \in SUBSET Places, s \in Settings :
          Backup({Parent(File(news, s)), Continuation(File(news, s))}, Written(n, news, {}))
    BY DEF SplitIncremental
  <1> DEFINE a == Parent(File(news, s))
             b == Continuation(File(news, s))
             F == {a, b}
  <1>2. Backup(F, Written(n, news, {}))
    BY <1>1
  <1>3. /\ a.num = last.num + 1 /\ a.inc = last.inc + 1 /\ a.merged = {} /\ a.delta /\ ~a.split
        /\ b.num = last.num + 2 /\ b.inc = last.inc + 1 /\ b.merged = {} /\ b.split
    <2>1. last.num \in Nat
      BY DEF Inv, Shape
    <2> QED BY <2>1 DEF BackupFile, Parent, Continuation
  <1> HIDE DEF a, b
  <1>4. Heads(F) = {}
    BY <1>3 DEF Heads
  <1>5. NewBackup(F, last.num, last.inc)
    <2>1. last.num \in Nat
      BY DEF Inv, Shape
    <2> QED BY <1>3, <1>4, <2>1 DEF NewBackup, IsFullIndex
  <1> DEFINE now == Written(n, news, {})
  <1> HIDE DEF F, now
  <1> QED BY <1>2, <1>5, BackupIsSeen DEF now

\* Reflect's retention gives up one moment, never the newest.
LEMMA RetentionIsSeen == ASSUME Inv, Neat(dir), Retention PROVE Seen
  <1>1. PICK f \in dir, d \in dir :
          /\ f.delta /\ IsFullIndex(d) /\ f.inc < d.inc
          /\ dir' = {g \in dir : g.inc # f.inc}
    BY DEF Retention
  <1> DEFINE n == last.num
             i == last.inc
             P == {g \in dir : g.inc # f.inc}
  <1>2. OneOwnerEach(dir) /\ Shape(dir, n, i) /\ image' = image
    BY DEF Retention, Settled, Inv
  <1>3. P = {g \in dir : g.inc # f.inc}
    OBVIOUS
  <1> HIDE DEF n, i, P
  <1>4. Nested(P) /\ Neat(P) /\ Sees(Moments(Clean(dir)), Moments(Clean(P)), n)
    BY <1>1, <1>2, <1>3, RetentionSeen
  <1> QED BY <1>1, <1>2, <1>4 DEF Seen, n, P

\* A deletion is not seen.
LEMMA DeletionIsSeen ==
  ASSUME Inv, Nested(dir), Neat(dir), NEW f \in dir, NEW o \in dir, o # f,
         Owned(f) \subseteq Owned(o), dir' = dir \ {f}, image' = image
  PROVE  Seen
  <1> DEFINE n == last.num
             i == last.inc
             P == dir \ {f}
  <1>1. Shape(dir, n, i) /\ P = dir \ {f}
    BY DEF Inv
  <1> HIDE DEF n, i, P
  <1>2. Nested(P) /\ Neat(P) /\ Clean(P) = Clean(dir)
    BY <1>1, AbsorbedGoes
  <1> QED BY <1>2 DEF Seen, Sees, P

\* A merge gives up a range but its last, in the one step that renames the output.
LEMMA MergeIsSeen == ASSUME Inv, Inv', Nested(dir), Neat(dir), Merge PROVE Seen
  <1>1. PICK from \in dir, to \in dir :
          /\ Discoverable(dir, to) /\ Resolvable(Members(dir, to))
          /\ from \in Members(dir, to) /\ Mergeable(Members(dir, to), from, to)
          /\ dir' = dir \cup {Output(Members(dir, to), from, to)} /\ image' = image
    BY DEF Merge
  <1> DEFINE n == last.num
             i == last.inc
             M == Members(dir, to)
             A == Absorbed(M, from, to)
             o == Output(M, from, to)
             P == dir \cup {o}
  <1>2. Merging(dir, n, i, from, to)
    BY <1>1 DEF Inv, Merging, Found
  <1>3. /\ Shape(P, n, i) /\ M = Members(dir, to) /\ A = Absorbed(M, from, to)
        /\ o = Output(M, from, to) /\ P = dir \cup {o}
    BY <1>1 DEF Inv, Merge
  <1>4. o.num \notin o.merged
    BY DEF Output
  <1> HIDE DEF n, i, M, A, o, P
  <1>5. HeaderFacts(o, A, from, to)
    BY <1>2, <1>3, OutputIs
  <1>6. Nested(P) /\ Neat(P) /\ Sees(Moments(Clean(dir)), Moments(Clean(P)), n)
    BY <1>2, <1>3, <1>4, <1>5, MergeSeen
  <1> QED BY <1>1, <1>3, <1>6 DEF Seen, n, o, M

\* So is every action.
LEMMA NextIsSeen == ASSUME Inv, Inv', Nested(dir), Neat(dir), Next PROVE Seen
  <1>1. CASE Incremental
    BY <1>1, IncrementalSeen
  <1>2. CASE SplitIncremental
    BY <1>2, SplitSeen
  <1>3. CASE Differential
    BY <1>3, DifferentialSeen
  <1>4. CASE Retention
    BY <1>4, RetentionIsSeen
  <1>5. CASE Merge
    BY <1>5, MergeIsSeen
  <1>6. CASE Delete
    <2>1. image' = image
      BY <1>6 DEF Delete
    <2> QED BY <1>6, <2>1, DeleteIs, DeletionIsSeen
  <1>7. CASE Stop
    BY <1>7 DEF Stop, Seen, Sees
  <1>8. CASE Tidy
    <2>1. PICK f \in dir, g \in dir : f # g /\ f.num \in Owned(g) /\ f.merged \subseteq g.merged
                                      /\ dir' = dir \ {f}
      BY <1>8 DEF Tidy
    <2>2. Owned(f) \subseteq Owned(g) /\ image' = image
      BY <1>8, <2>1 DEF Owned, Tidy
    <2> QED BY <2>1, <2>2, DeletionIsSeen
  <1> QED BY <1>1, <1>2, <1>3, <1>4, <1>5, <1>6, <1>7, <1>8 DEF Next

-----------------------------------------------------------------------------
(* The refinement.                                                         *)

\* A change that is seen is a step of RestorePoints.
LEMMA SeesIsStep ==
  ASSUME NEW n \in Nat, DOMAIN view \subseteq 0 .. n, Sees(DOMAIN view, DOMAIN view', n),
         view = [m \in DOMAIN view |-> view[m]], view' = [m \in DOMAIN view' |-> view'[m]],
         \A m \in DOMAIN view \cap DOMAIN view' : view'[m] = view[m]
  PROVE  [Promise!Next]_view
  <1> DEFINE S == DOMAIN view
             T == DOMAIN view'
  <1>1. Promise!Unchanged
    BY DEF Promise!Unchanged
  <1>2. CASE T = S
    <2>1. view' = [m \in S |-> view[m]]
      BY <1>2
    <2> QED BY <2>1
  <1>3. CASE \E k \in Nat : n < k /\ T = S \cup {k}
    <2>1. PICK k \in Nat : n < k /\ T = S \cup {k}
      BY <1>3
    <2>2. \A m \in S : m < k
      BY <2>1
    <2> QED BY <1>1, <2>1, <2>2 DEF Promise!Next, Promise!Add
  <1>4. CASE \E low, high \in S : low < high /\ T = {m \in S : m < low \/ high <= m}
    BY <1>1, <1>4 DEF Promise!Next, Promise!MergeRange
  <1>5. CASE \E m, k \in S : m < k /\ T = S \ {m}
    BY <1>1, <1>5 DEF Promise!Next, Promise!Discard
  <1> QED BY <1>2, <1>3, <1>4, <1>5 DEF Sees

\* A flaw is never forgotten.
LEMMA FlawsStay == Next => flaws \subseteq flaws'
  <1>1. CASE Incremental \/ SplitIncremental \/ Differential
    <2>1. \A F, now : Backup(F, now) => flaws' = flaws
      BY DEF Backup
    <2>2. Incremental => \E F, now : Backup(F, now)
      BY Zenon DEF Incremental
    <2>3. SplitIncremental => \E F, now : Backup(F, now)
      BY Zenon DEF SplitIncremental
    <2>4. Differential => \E F, now : Backup(F, now)
      BY Zenon DEF Differential
    <2> QED BY ONLY <1>1, <2>1, <2>2, <2>3, <2>4
  <1>2. CASE Retention
    BY <1>2 DEF Retention
  <1>3. CASE Merge
    BY <1>3 DEF Merge
  <1>4. CASE Delete \/ Stop \/ Tidy
    BY <1>4 DEF Delete, Stop, Tidy
  <1> QED BY <1>1, <1>2, <1>3, <1>4 DEF Next

\* Without a flaw, the invariant speaks of every file.
LEMMA InvIsUnflawed ==
  ASSUME Inv, Nested(dir), Neat(dir), flaws = {}
  PROVE  Unflawed(dir, last.num, last.inc, image)
  BY DEF Inv, Intervals, Images, Unflawed

\* Until a merge has a flaw, what the owner sees is what the disk held at each moment that the
\* set still has.
LEMMA ViewStep ==
  ASSUME ViewInv, Next, view' = IF flaws' # {} THEN view ELSE ViewOf(Clean(dir'))
  PROVE  ViewInv' /\ [Promise!Next]_view
  <1>1. Inv /\ Inv' /\ Nested(dir) /\ Neat(dir)
    BY NextInv DEF ViewInv
  <1>2. Seen
    BY <1>1, NextIsSeen
  <1>3. ViewInv'
    BY <1>1, <1>2 DEF ViewInv, Seen
  <1> SUFFICES [Promise!Next]_view
    BY <1>3
  <1>4. CASE flaws' # {}
    <2>1. view' = view
      BY <1>4
    <2> QED BY <2>1
  <1>5. CASE flaws' = {}
    <2> DEFINE n == last.num
               i == last.inc
               P == dir'
               m == last'.num
               j == last'.inc
               later == image'
               S == Moments(Clean(dir))
               T == Moments(Clean(P))
    <2>1. flaws = {}
      BY <1>5, FlawsStay
    <2>2. Unflawed(dir, n, i, image) /\ n \in Nat
      BY <1>1, <2>1, InvIsUnflawed DEF Inv, Shape
    <2>3. Unflawed(P, m, j, later)
      BY <1>1, <1>2, <1>5 DEF Inv, Intervals, Images, Unflawed, Seen
    <2>4. /\ Sees(S, T, n) /\ \A k \in 0 .. n : later[k] = image[k]
          /\ view = ViewOf(Clean(dir)) /\ view' = ViewOf(Clean(P))
      BY <1>2, <1>5, <2>1 DEF Seen, ViewInv
    <2> HIDE DEF n, i, P, m, j, later
    <2>5. view = [k \in S |-> image[k]] /\ S \subseteq 0 .. n
      BY <2>2, <2>4, SeenIs
    <2>6. view' = [k \in T |-> later[k]]
      BY <2>3, <2>4, SeenIs
    <2> HIDE DEF S, T
    <2>7. /\ DOMAIN view = S /\ DOMAIN view' = T
          /\ \A k \in S : view[k] = image[k]
          /\ \A k \in T : view'[k] = later[k]
      BY <2>5, <2>6
    <2>8. /\ \A k \in DOMAIN view \cap DOMAIN view' : view'[k] = view[k]
          /\ DOMAIN view \subseteq 0 .. n
          /\ Sees(DOMAIN view, DOMAIN view', n)
          /\ view = [k \in DOMAIN view |-> view[k]] /\ view' = [k \in DOMAIN view' |-> view'[k]]
      BY <2>4, <2>5, <2>6, <2>7
    <2> QED BY <2>2, <2>8, SeesIsStep
  <1> QED BY <1>4, <1>5

\* A set begins as one Full backup, with one moment.
LEMMA ViewInit ==
  ASSUME Init, view = ViewOf(dir)
  PROVE  ViewInv /\ Promise!Init
  <1>1. PICK s \in Settings : dir = {Full(s)}
    BY DEF Init
  <1> DEFINE f == Full(s)
             n == last.num
             i == last.inc
  <1>2. f.num = 0 /\ f.merged = {} /\ ~f.split
    BY DEF Full, BackupFile
  <1> HIDE DEF f
  <1>3. OneOwnerEach(dir) /\ Neat(dir) /\ dir = {f}
    BY <1>1, <1>2 DEF OneOwnerEach, Neat, f
  <1>4. Inv /\ Nested(dir) /\ flaws = {} /\ Clean(dir) = dir
    BY <1>3, InitInv, DisjointIsNested, DisjointIsClean DEF Init
  <1>5. Heads(dir) = {f}
    BY <1>2, <1>3 DEF Heads
  <1>6. Moments(dir) = {0}
    <2>1. Moment(f) = 0
      BY <1>2, MomentOfOne
    <2> QED BY <1>5, <2>1 DEF Moments
  <1>7. Unflawed(dir, n, i, image)
    BY <1>3, <1>4, InvIsUnflawed
  <1> HIDE DEF n, i
  <1>8. view = [k \in Moments(dir) |-> image[k]]
    BY <1>4, <1>7, SeenIs
  <1> QED BY <1>3, <1>4, <1>6, <1>8 DEF ViewInv, Promise!Init

\* A merge, with its deletions and whatever cuts them short, is one step: it gives up the moments
\* of the range before its last, and every other moment restores to what it did, whatever was
\* merged or thinned out before (cli.rs, consolidate), for any life of the set until a merge
\* has one of the flaws that RestoreCorrect and NothingMissing name.
THEOREM Implements == ViewSpec => ImplementsRestorePoints
  <1>1. SeenInit => ViewInv /\ Promise!Init
    BY ViewInit DEF SeenInit
  <1>2. ViewInv /\ [SeenNext]_<<vars, view>> => ViewInv' /\ [Promise!Next]_view
    <2> SUFFICES ASSUME ViewInv, [SeenNext]_<<vars, view>>
                 PROVE  ViewInv' /\ [Promise!Next]_view
      OBVIOUS
    <2>1. CASE SeenNext
      BY <2>1, ViewStep DEF SeenNext
    <2>2. CASE UNCHANGED <<vars, view>>
      BY <2>2 DEF vars, ViewInv, Inv, Images
    <2> QED BY <2>1, <2>2
  <1> QED BY <1>1, <1>2, PTL DEF ViewSpec, ImplementsRestorePoints, Promise!Spec
=============================================================================
