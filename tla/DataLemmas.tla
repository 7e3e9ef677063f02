----------------------------- MODULE DataLemmas -----------------------------
(***************************************************************************)
(* Facts about data that the proofs of several modules need: a set of      *)
(* naturals has a least member; induction, in the form of a set that is    *)
(* closed under + 1; and what a recursive function or a fold computes.     *)
(* They rest on the fact that no descending chain of finite sets is        *)
(* infinite, as the library's forms of them take an operator as a          *)
(* parameter: here the parameter is a set or a function.                   *)
(***************************************************************************)
EXTENDS Integers, SequencesExt, FiniteSetTheorems, SequenceTheorems, TLAPS

\* A set of naturals that is not empty has a least member.
LEMMA LeastNatural ==
  ASSUME NEW S \in SUBSET Nat, S # {}
  PROVE  \E x \in S : \A y \in S : x <= y
  <1> DEFINE T == {0 .. n : n \in S}
             R == StrictSubsetOrdering(Nat)
  <1>1. T \subseteq FiniteSubsetsOf(Nat)
    <2>1. \A n \in S : 0 .. n \in SUBSET Nat /\ IsFiniteSet(0 .. n)
      BY FS_Interval
    <2> QED BY <2>1 DEF FiniteSubsetsOf
  <1>2. T # {}
    OBVIOUS
  <1>3. IsWellFoundedOn(R, FiniteSubsetsOf(Nat))
    BY FS_StrictSubsetOrderingWellFounded
  <1>4. PICK t \in T : \A u \in T : <<u, t>> \notin R
    <2> HIDE DEF T, R
    <2> QED BY <1>1, <1>2, <1>3, WFMin
  <1>5. PICK x \in S : t = 0 .. x
    OBVIOUS
  <1>6. ASSUME NEW y \in S, ~(x <= y) PROVE FALSE
    <2>1. x \in Nat /\ y \in Nat /\ y < x
      BY <1>6
    <2>2. 0 .. y \subseteq 0 .. x /\ 0 .. y # 0 .. x
      <3>1. x \in 0 .. x /\ x \notin 0 .. y
        BY <2>1
      <3> QED BY <2>1, <3>1
    <2>3. 0 .. y \in SUBSET Nat /\ 0 .. x \in SUBSET Nat
      BY <2>1
    <2>4. <<0 .. y, 0 .. x>> \in R
      BY <2>2, <2>3 DEF StrictSubsetOrdering
    <2> QED BY <1>4, <1>5, <2>4
  <1> QED BY <1>6

\* Min of such a set is its least member.
LEMMA MinIsMember ==
  ASSUME NEW S \in SUBSET Nat, S # {}
  PROVE  Min(S) \in S /\ \A y \in S : Min(S) <= y
  BY LeastNatural DEF Min

\* Max of a set of integers with a bound is its greatest member.
LEMMA MaxIsMember ==
  ASSUME NEW S \in SUBSET Int, S # {}, NEW b \in Int, \A x \in S : x <= b
  PROVE  Max(S) \in S /\ \A y \in S : y <= Max(S)
  <1> DEFINE T == {b - x : x \in S}
  <1>1. T \in SUBSET Nat /\ T # {}
    <2>1. \A x \in S : b - x \in Nat
      OBVIOUS
    <2>2. PICK x : x \in S
      OBVIOUS
    <2>3. b - x \in T
      BY <2>2
    <2> QED BY <2>1, <2>3
  <1>2. PICK t \in T : \A u \in T : t <= u
    <2> HIDE DEF T
    <2> QED BY <1>1, LeastNatural
  <1>3. PICK x \in S : t = b - x
    OBVIOUS
  <1>4. \A y \in S : x >= y
    <2> TAKE y \in S
    <2>1. b - x <= b - y
      BY <1>2, <1>3
    <2> QED BY <2>1
  <1>5. \E m \in S : \A y \in S : m >= y
    BY <1>4
  <1>6. Max(S) \in S /\ \A y \in S : Max(S) >= y
    <2> DEFINE P(m) == \A y \in S : m >= y
    <2>1. (CHOOSE m \in S : P(m)) \in S /\ P(CHOOSE m \in S : P(m))
      <3> HIDE DEF P
      <3>1. \E m \in S : P(m)
        BY <1>5 DEF P
      <3> QED BY <3>1
    <2> QED BY <2>1 DEF Max
  <1> QED BY <1>6

\* Max of two integers is one of them, and the larger.
LEMMA MaxOfTwo ==
  ASSUME NEW a \in Int, NEW b \in Int
  PROVE  Max({a, b}) = IF a >= b THEN a ELSE b
  <1> DEFINE m == IF a >= b THEN a ELSE b
  <1>1. m \in {a, b} /\ \A y \in {a, b} : m >= y
    OBVIOUS
  <1>2. \A x \in {a, b} : (\A y \in {a, b} : x >= y) => x = m
    OBVIOUS
  <1> HIDE DEF m
  <1>3. Max({a, b}) = m
    BY <1>1, <1>2 DEF Max
  <1> QED BY <1>3 DEF m

\* Induction: a set with 0 in it that has the successor of each member has every natural.
LEMMA NatClosed ==
  ASSUME NEW S, 0 \in S, \A n \in Nat : n \in S => n + 1 \in S
  PROVE  Nat \subseteq S
  <1> SUFFICES ASSUME Nat \ S # {} PROVE FALSE
    OBVIOUS
  <1>1. PICK x \in Nat \ S : \A y \in Nat \ S : x <= y
    BY LeastNatural
  <1>2. x - 1 \in Nat /\ x - 1 \in S
    BY <1>1
  <1> QED BY <1>1, <1>2

-----------------------------------------------------------------------------
(* Recursion.                                                              *)

\* g has the value base at 0, and each value up to n follows from the one before.
Follows(g, n, base, step) ==
  g[0] = base /\ \A k \in 1 .. n : g[k] = step[<<k, g[k - 1]>>]

\* A function defined like that exists.
LEMMA NatRecursion ==
  ASSUME NEW B, NEW base \in B, NEW step \in [Nat \X B -> B], NEW n \in Nat
  PROVE  \E g \in [0 .. n -> B] : Follows(g, n, base, step)
  <1> DEFINE Is(g, m) == g \in [0 .. m -> B] /\ Follows(g, m, base, step)
             S == {m \in Nat : \E g : Is(g, m)}
  <1>1. 0 \in S
    <2>1. Is([k \in 0 .. 0 |-> base], 0)
      BY DEF Follows
    <2> QED BY <2>1
  <1>2. ASSUME NEW m \in Nat, m \in S PROVE m + 1 \in S
    <2>1. PICK g : Is(g, m)
      BY <1>2
    <2> DEFINE h == [k \in 0 .. m + 1 |-> IF k <= m THEN g[k] ELSE step[<<m + 1, g[m]>>]]
    <2>2. \A k \in 0 .. m : g[k] \in B
      BY <2>1
    <2>3. step[<<m + 1, g[m]>>] \in B
      BY <2>2
    <2>4. h \in [0 .. m + 1 -> B] /\ h[0] = base
      BY <2>1, <2>2, <2>3 DEF Follows
    <2>5. ASSUME NEW k \in 1 .. m + 1 PROVE h[k] = step[<<k, h[k - 1]>>]
      <3>1. CASE k <= m
        BY <2>1, <3>1 DEF Follows
      <3>2. CASE k = m + 1
        BY <3>2
      <3> QED BY <3>1, <3>2
    <2>6. Is(h, m + 1)
      BY <2>4, <2>5 DEF Follows
    <2> HIDE DEF h, Is
    <2> QED BY <2>6
  <1>3. n \in S
    <2> HIDE DEF S
    <2>1. Nat \subseteq S
      BY <1>1, <1>2, NatClosed
    <2> QED BY <2>1
  <1> QED BY <1>3

\* Induction up to a bound.
LEMMA UpToClosed ==
  ASSUME NEW n \in Nat, NEW S, 0 \in S, \A k \in 0 .. n - 1 : k \in S => k + 1 \in S
  PROVE  0 .. n \subseteq S
  <1> DEFINE T == {k \in Nat : k <= n => k \in S}
  <1>1. 0 \in T
    OBVIOUS
  <1>2. \A k \in Nat : k \in T => k + 1 \in T
    OBVIOUS
  <1>3. Nat \subseteq T
    <2> HIDE DEF T
    <2> QED BY <1>1, <1>2, NatClosed
  <1> QED BY <1>3

-----------------------------------------------------------------------------
(* Folds over the subsets of a finite set.                                 *)

\* rest makes every subset of S but the empty one smaller.
Shrinks(rest, S) ==
  /\ rest \in [SUBSET S -> SUBSET S]
  /\ \A s \in SUBSET S : s # {} => rest[s] \subseteq s /\ rest[s] # s

\* Induction over the subsets, each from what rest leaves of it.
LEMMA SubsetsClosed ==
  ASSUME NEW S, IsFiniteSet(S), NEW rest, Shrinks(rest, S),
         NEW T, {} \in T, \A s \in SUBSET S : s # {} /\ rest[s] \in T => s \in T
  PROVE  SUBSET S \subseteq T
  <1> DEFINE N == {n \in Nat : \A s \in SUBSET S : Cardinality(s) <= n => s \in T}
  <1>1. \A s \in SUBSET S : /\ IsFiniteSet(s) /\ Cardinality(s) \in Nat
                            /\ Cardinality(s) = 0 => s = {}
    BY FS_Subset, FS_CardinalityType, FS_EmptySet
  <1>2. 0 \in N
    BY <1>1
  <1>3. ASSUME NEW n \in Nat, n \in N PROVE n + 1 \in N
    <2> SUFFICES ASSUME NEW s \in SUBSET S, Cardinality(s) <= n + 1, s # {} PROVE s \in T
      BY DEF N
    <2>1. rest[s] \in SUBSET S /\ Cardinality(rest[s]) < Cardinality(s)
      BY <1>1, FS_Subset DEF Shrinks
    <2>2. rest[s] \in T
      BY <1>1, <1>3, <2>1
    <2> QED BY <2>2
  <1>4. Nat \subseteq N
    <2> HIDE DEF N
    <2> QED BY <1>2, <1>3, NatClosed
  <1> QED BY <1>1, <1>4

\* it is base at the empty set, and step's value at each other one, made from it at the rest.
Folded(it, S, base, rest, step) ==
  \A s \in SUBSET S : it[s] = IF s = {} THEN base ELSE step[<<s, it[rest[s]]>>]

\* Such a function exists.
LEMMA FoldExists ==
  ASSUME NEW S, IsFiniteSet(S), NEW rest, Shrinks(rest, S),
         NEW B, NEW base \in B, NEW step \in [(SUBSET S) \X B -> B]
  PROVE  \E it \in [SUBSET S -> B] : Folded(it, S, base, rest, step)
  <1> DEFINE Value(it, s) == IF s = {} THEN base ELSE step[<<s, it[rest[s]]>>]
             UpTo(it, n) == /\ it \in [SUBSET S -> B]
                            /\ \A s \in SUBSET S : Cardinality(s) <= n => it[s] = Value(it, s)
             N == {n \in Nat : \E it : UpTo(it, n)}
  <1>1. \A s \in SUBSET S : /\ IsFiniteSet(s) /\ Cardinality(s) \in Nat
                            /\ Cardinality(s) = 0 => s = {}
    BY FS_Subset, FS_CardinalityType, FS_EmptySet
  <1>2. \A s \in SUBSET S : s # {} =>
          rest[s] \in SUBSET S /\ Cardinality(rest[s]) < Cardinality(s)
    BY <1>1, FS_Subset DEF Shrinks
  <1>3. 0 \in N
    <2>1. UpTo([s \in SUBSET S |-> base], 0)
      BY <1>1
    <2> HIDE DEF UpTo
    <2> QED BY <2>1
  <1>4. ASSUME NEW n \in Nat, n \in N PROVE n + 1 \in N
    <2>1. PICK it : UpTo(it, n)
      BY <1>4
    <2> DEFINE more == [s \in SUBSET S |-> IF Cardinality(s) <= n THEN it[s] ELSE Value(it, s)]
    <2>2. ASSUME NEW s \in SUBSET S PROVE Value(it, s) \in B
      <3>1. CASE s = {}
        BY <3>1
      <3>2. CASE s # {}
        <4>1. it[rest[s]] \in B
          BY <1>2, <2>1, <3>2
        <4>2. \A v \in B : <<s, v>> \in (SUBSET S) \X B
          OBVIOUS
        <4>3. step[<<s, it[rest[s]]>>] \in B
          BY <4>1, <4>2
        <4> QED BY <3>2, <4>3
      <3> QED BY <3>1, <3>2
    <2>3. more \in [SUBSET S -> B]
      BY <2>1, <2>2
    <2>4. ASSUME NEW s \in SUBSET S, Cardinality(s) <= n + 1 PROVE more[s] = Value(more, s)
      <3>1. more[s] = Value(it, s)
        BY <2>1
      <3>2. CASE s = {}
        BY <3>1, <3>2
      <3>3. CASE s # {}
        <4>1. rest[s] \in SUBSET S /\ Cardinality(rest[s]) <= n
          BY <1>1, <1>2, <2>4, <3>3
        <4>2. more[rest[s]] = it[rest[s]]
          BY <4>1
        <4> QED BY <3>1, <4>2
      <3> QED BY <3>2, <3>3
    <2>5. UpTo(more, n + 1)
      BY <2>3, <2>4
    <2> HIDE DEF UpTo, more
    <2> QED BY <2>5
  <1>5. Cardinality(S) \in N
    <2>1. Nat \subseteq N
      <3> HIDE DEF N
      <3> QED BY <1>3, <1>4, NatClosed
    <2>2. Cardinality(S) \in Nat
      BY <1>1
    <2> QED BY <2>1, <2>2
  <1>6. PICK it : UpTo(it, Cardinality(S))
    BY <1>5
  <1>7. \A s \in SUBSET S : Cardinality(s) <= Cardinality(S)
    BY FS_Subset
  <1> QED BY <1>6, <1>7 DEF Folded

-----------------------------------------------------------------------------
(* Sums.                                                                   *)

\* The member of s that a sum takes first.
Taken(s) == CHOOSE x \in s : TRUE

\* it sums the values of f over each subset of S.
Summed(it, f, S) ==
  \A s \in SUBSET S : it[s] = IF s = {} THEN 0 ELSE f[Taken(s)] + it[s \ {Taken(s)}]

\* What SumFunctionOnSet evaluates.
Sums(f, S) ==
  CHOOSE it : it = [s \in SUBSET S |-> IF s = {} THEN 0 ELSE f[Taken(s)] + it[s \ {Taken(s)}]]

\* It is such a function.
LEMMA SumsExist ==
  ASSUME NEW S, IsFiniteSet(S), NEW f, \A x \in S : f[x] \in Nat
  PROVE  Sums(f, S) \in [SUBSET S -> Nat] /\ Summed(Sums(f, S), f, S)
  <1> DEFINE rest == [s \in SUBSET S |-> s \ {Taken(s)}]
             step == [q \in (SUBSET S) \X Nat |-> IF q[1] = {} THEN 0 ELSE f[Taken(q[1])] + q[2]]
             Is(it) == it = [s \in SUBSET S |->
                               IF s = {} THEN 0 ELSE f[Taken(s)] + it[s \ {Taken(s)}]]
  <1>1. \A s \in SUBSET S : s # {} => Taken(s) \in s
    BY DEF Taken
  <1>2. Shrinks(rest, S)
    BY <1>1 DEF Shrinks
  <1>3. step \in [(SUBSET S) \X Nat -> Nat]
    <2>1. ASSUME NEW s \in SUBSET S, NEW n \in Nat, s # {} PROVE f[Taken(s)] + n \in Nat
      BY <1>1, <2>1
    <2> QED BY <2>1
  <1>4. PICK it \in [SUBSET S -> Nat] : Folded(it, S, 0, rest, step)
    <2> HIDE DEF rest, step
    <2> QED BY <1>2, <1>3, FoldExists
  <1>5. ASSUME NEW s \in SUBSET S
        PROVE  it[s] = IF s = {} THEN 0 ELSE f[Taken(s)] + it[s \ {Taken(s)}]
    <2>1. CASE s = {}
      BY <1>4, <2>1 DEF Folded
    <2>2. CASE s # {}
      <3>1. it[s] = step[<<s, it[rest[s]]>>]
        BY <1>4, <2>2 DEF Folded
      <3>2. rest[s] = s \ {Taken(s)} /\ it[rest[s]] \in Nat
        OBVIOUS
      <3>3. <<s, it[rest[s]]>> \in (SUBSET S) \X Nat
        BY <3>2
      <3> QED BY <2>2, <3>1, <3>2, <3>3
    <2> QED BY <2>1, <2>2
  <1>6. Is(it)
    BY <1>5
  <1>7. Is(Sums(f, S))
    <2> HIDE DEF Is
    <2>1. Is(CHOOSE r : Is(r))
      BY <1>6
    <2> QED BY <2>1 DEF Sums, Is
  <1> DEFINE sums == Sums(f, S)
  <1>8. sums = [s \in SUBSET S |-> IF s = {} THEN 0 ELSE f[Taken(s)] + sums[s \ {Taken(s)}]]
    BY <1>7
  <1> HIDE DEF sums
  <1>9. Summed(sums, f, S)
    BY <1>8 DEF Summed
  <1> DEFINE T == {s \in SUBSET S : sums[s] \in Nat}
  <1>10. SUBSET S \subseteq T
    <2>1. {} \in T
      <3>1. sums[{}] = 0
        BY <1>9 DEF Summed
      <3> QED BY <3>1
    <2>2. ASSUME NEW s \in SUBSET S, s # {}, rest[s] \in T PROVE s \in T
      <3>1. sums[s] = f[Taken(s)] + sums[s \ {Taken(s)}]
        BY <1>9, <2>2 DEF Summed
      <3> QED BY <1>1, <2>2, <3>1
    <2> HIDE DEF T, rest
    <2> QED BY <1>2, <2>1, <2>2, SubsetsClosed
  <1>11. sums \in [SUBSET S -> Nat]
    BY <1>8, <1>10
  <1> QED BY <1>9, <1>11 DEF sums

\* There is only one.
LEMMA SumsUnique ==
  ASSUME NEW S, IsFiniteSet(S), NEW f, NEW a, Summed(a, f, S), NEW b, Summed(b, f, S)
  PROVE  a[S] = b[S]
  <1> DEFINE rest == [s \in SUBSET S |-> s \ {Taken(s)}]
             T    == {s \in SUBSET S : a[s] = b[s]}
  <1>1. Shrinks(rest, S)
    BY DEF Shrinks, Taken
  <1>2. {} \in T
    BY DEF Summed
  <1>3. ASSUME NEW s \in SUBSET S, s # {}, rest[s] \in T PROVE s \in T
    BY <1>3 DEF Summed
  <1>4. SUBSET S \subseteq T
    <2> HIDE DEF rest, T
    <2> QED BY <1>1, <1>2, <1>3, SubsetsClosed
  <1> QED BY <1>4

\* Any member may be taken first.
LEMMA SumsTakeAny ==
  ASSUME NEW S, IsFiniteSet(S), NEW f, \A x \in S : f[x] \in Nat, NEW x \in S
  PROVE  Sums(f, S)[S] = f[x] + Sums(f, S)[S \ {x}]
  <1> DEFINE a    == Sums(f, S)
             P(s) == \A y \in s : a[s] = f[y] + a[s \ {y}]
             N    == {n \in Nat : \A s \in SUBSET S : Cardinality(s) <= n => P(s)}
  <1>1. a \in [SUBSET S -> Nat] /\ Summed(a, f, S)
    BY SumsExist
  <1>2. \A s \in SUBSET S : /\ IsFiniteSet(s) /\ Cardinality(s) \in Nat
                            /\ Cardinality(s) = 0 => s = {}
    BY FS_Subset, FS_CardinalityType, FS_EmptySet
  <1>3. 0 \in N
    BY <1>2
  <1>4. ASSUME NEW n \in Nat, n \in N PROVE n + 1 \in N
    <2> SUFFICES ASSUME NEW s \in SUBSET S, Cardinality(s) <= n + 1, NEW y \in s
                 PROVE  a[s] = f[y] + a[s \ {y}]
      OBVIOUS
    <2> DEFINE c == Taken(s)
    <2>1. c \in s /\ a[s] = f[c] + a[s \ {c}]
      BY <1>1 DEF Summed, Taken
    <2>2. CASE y = c
      BY <2>1, <2>2
    <2>3. CASE y # c
      <3>1. Cardinality(s \ {c}) <= n /\ Cardinality(s \ {y}) <= n
        <4>1. IsFiniteSet(s) /\ Cardinality(s) \in Nat /\ c \in s
          BY <1>2, <2>1
        <4> HIDE DEF a, P, N, c
        <4>2. /\ Cardinality(s \ {c}) = Cardinality(s) - 1
              /\ Cardinality(s \ {y}) = Cardinality(s) - 1
          BY ONLY <4>1, y \in s, FS_RemoveElement
        <4> QED BY <4>1, <4>2
      <3>2. P(s \ {c}) /\ P(s \ {y})
        BY <1>4, <3>1
      <3>3. a[s \ {c}] = f[y] + a[(s \ {c}) \ {y}] /\ a[s \ {y}] = f[c] + a[(s \ {y}) \ {c}]
        BY <2>1, <2>3, <3>2
      <3>4. (s \ {c}) \ {y} = (s \ {y}) \ {c}
        OBVIOUS
      <3>5. a[(s \ {c}) \ {y}] \in Nat /\ f[c] \in Nat /\ f[y] \in Nat
        BY <1>1, <2>1
      <3> HIDE DEF a, c
      <3> QED BY <2>1, <3>3, <3>4, <3>5
    <2> QED BY <2>2, <2>3
  <1>5. Nat \subseteq N
    <2> HIDE DEF N
    <2> QED BY <1>3, <1>4, NatClosed
  <1>6. P(S)
    BY <1>2, <1>5
  <1> QED BY <1>6

\* The library's sum over a set: of no members it is 0, of one more it is that much more,
\* and it is a natural.
LEMMA SumOnSet ==
  ASSUME NEW S, IsFiniteSet(S), NEW f, \A x \in S : f[x] \in Nat
  PROVE  SumFunctionOnSet(f, S) = Sums(f, S)[S]
  BY DEF SumFunctionOnSet, FoldFunctionOnSet, MapThenFoldSet, Sums, Taken

LEMMA SumOfNone ==
  ASSUME NEW f
  PROVE  SumFunctionOnSet(f, {}) = 0
  <1>1. IsFiniteSet({})
    BY FS_EmptySet
  <1>2. SumFunctionOnSet(f, {}) = Sums(f, {})[{}] /\ Summed(Sums(f, {}), f, {})
    BY <1>1, SumOnSet, SumsExist
  <1> QED BY <1>2 DEF Summed

LEMMA SumIsNat ==
  ASSUME NEW S, IsFiniteSet(S), NEW f, \A x \in S : f[x] \in Nat
  PROVE  SumFunctionOnSet(f, S) \in Nat
  <1>1. SumFunctionOnSet(f, S) = Sums(f, S)[S] /\ Sums(f, S) \in [SUBSET S -> Nat]
    BY SumOnSet, SumsExist
  <1> QED BY <1>1

LEMMA SumOfOneMore ==
  ASSUME NEW S, IsFiniteSet(S), NEW x, x \notin S, NEW f, \A y \in S \cup {x} : f[y] \in Nat
  PROVE  SumFunctionOnSet(f, S \cup {x}) = f[x] + SumFunctionOnSet(f, S)
  <1> DEFINE U == S \cup {x}
             a == Sums(f, U)
             b == Sums(f, S)
  <1>1. IsFiniteSet(U) /\ U \ {x} = S
    BY FS_AddElement
  <1>2. a \in [SUBSET U -> Nat] /\ Summed(a, f, U) /\ Summed(b, f, S)
    BY <1>1, SumsExist
  <1>3. Summed(a, f, S)
    <2> HIDE DEF a
    <2> QED BY <1>2 DEF Summed
  <1>4. a[S] = b[S]
    <2> HIDE DEF a, b
    <2> QED BY <1>2, <1>3, SumsUnique
  <1>5. a[U] = f[x] + a[S]
    <2> HIDE DEF U
    <2>1. x \in U /\ \A y \in U : f[y] \in Nat
      BY DEF U
    <2> QED BY <1>1, <2>1, SumsTakeAny
  <1>6. SumFunctionOnSet(f, U) = a[U] /\ SumFunctionOnSet(f, S) = b[S]
    BY <1>1, SumOnSet
  <1> QED BY <1>4, <1>5, <1>6

\* A sum over more members is no smaller.
LEMMA SumOfMore ==
  ASSUME NEW S, IsFiniteSet(S), NEW U \in SUBSET S, NEW f, \A y \in S : f[y] \in Nat
  PROVE  SumFunctionOnSet(f, U) <= SumFunctionOnSet(f, S)
  <1> DEFINE rest == [s \in SUBSET S |-> s \ {Taken(s)}]
             T == {s \in SUBSET S :
                     SumFunctionOnSet(f, U \cap s) <= SumFunctionOnSet(f, s)}
  <1>1. Shrinks(rest, S)
    BY DEF Shrinks, Taken
  <1>2. {} \in T
    BY SumOfNone
  <1>3. ASSUME NEW s \in SUBSET S, s # {}, rest[s] \in T PROVE s \in T
    <2> DEFINE x == Taken(s)
               r == s \ {x}
    <2>1. x \in s /\ x \notin r /\ s = r \cup {x} /\ f[x] \in Nat
      BY <1>3 DEF Taken
    <2>2. IsFiniteSet(r) /\ IsFiniteSet(U \cap r) /\ r \in SUBSET S
      BY FS_Subset
    <2>3. SumFunctionOnSet(f, U \cap r) <= SumFunctionOnSet(f, r)
      BY <1>3
    <2> HIDE DEF x, r
    <2>4. SumFunctionOnSet(f, s) = f[x] + SumFunctionOnSet(f, r)
      BY <2>1, <2>2, SumOfOneMore
    <2>5. SumFunctionOnSet(f, U \cap r) \in Nat /\ SumFunctionOnSet(f, r) \in Nat
      BY <2>2, SumIsNat
    <2>6. CASE x \in U
      <3>1. U \cap s = (U \cap r) \cup {x} /\ x \notin U \cap r
        BY <2>1, <2>6
      <3>2. SumFunctionOnSet(f, U \cap s) = f[x] + SumFunctionOnSet(f, U \cap r)
        BY <2>1, <2>2, <3>1, SumOfOneMore
      <3> QED BY <2>1, <2>3, <2>4, <2>5, <3>2
    <2>7. CASE x \notin U
      <3>1. U \cap s = U \cap r
        BY <2>1, <2>7
      <3>2. SumFunctionOnSet(f, U \cap s) = SumFunctionOnSet(f, U \cap r)
        BY <3>1
      <3> QED BY <2>1, <2>3, <2>4, <2>5, <3>2
    <2> QED BY <2>6, <2>7
  <1>4. SUBSET S \subseteq T
    <2> HIDE DEF rest, T
    <2> QED BY <1>1, <1>2, <1>3, SubsetsClosed
  <1>5. U \cap S = U
    OBVIOUS
  <1> QED BY <1>4, <1>5

\* A sum in two parts.
LEMMA SumOfTwo ==
  ASSUME NEW S, IsFiniteSet(S), NEW f, NEW g, NEW h,
         \A x \in S : f[x] \in Nat /\ g[x] \in Nat /\ h[x] = f[x] + g[x]
  PROVE  SumFunctionOnSet(h, S) = SumFunctionOnSet(f, S) + SumFunctionOnSet(g, S)
  <1> DEFINE rest == [s \in SUBSET S |-> s \ {Taken(s)}]
             T == {s \in SUBSET S :
                     SumFunctionOnSet(h, s) = SumFunctionOnSet(f, s) + SumFunctionOnSet(g, s)}
  <1>1. Shrinks(rest, S)
    BY DEF Shrinks, Taken
  <1>2. {} \in T
    BY SumOfNone
  <1>3. ASSUME NEW s \in SUBSET S, s # {}, rest[s] \in T PROVE s \in T
    <2> DEFINE x == Taken(s)
               r == s \ {x}
    <2>1. x \in s /\ x \notin r /\ s = r \cup {x} /\ f[x] \in Nat /\ g[x] \in Nat
      BY <1>3 DEF Taken
    <2>2. IsFiniteSet(r) /\ r \in SUBSET S
      BY FS_Subset
    <2>3. SumFunctionOnSet(h, r) = SumFunctionOnSet(f, r) + SumFunctionOnSet(g, r)
      BY <1>3
    <2> HIDE DEF x, r
    <2>4. \A y \in r \cup {x} : f[y] \in Nat /\ g[y] \in Nat /\ h[y] \in Nat
      BY <2>1, <2>2
    <2>5. /\ SumFunctionOnSet(f, s) = f[x] + SumFunctionOnSet(f, r)
          /\ SumFunctionOnSet(g, s) = g[x] + SumFunctionOnSet(g, r)
          /\ SumFunctionOnSet(h, s) = h[x] + SumFunctionOnSet(h, r)
      BY <2>1, <2>2, <2>4, SumOfOneMore
    <2>6. SumFunctionOnSet(f, r) \in Nat /\ SumFunctionOnSet(g, r) \in Nat
      BY <2>2, <2>4, SumIsNat
    <2>7. h[x] = f[x] + g[x]
      BY <2>1
    <2> QED BY <2>1, <2>3, <2>5, <2>6, <2>7
  <1>4. SUBSET S \subseteq T
    <2> HIDE DEF rest, T
    <2> QED BY <1>1, <1>2, <1>3, SubsetsClosed
  <1> QED BY <1>4

\* A product grows with its first factor.
LEMMA Products ==
  ASSUME NEW L \in Nat, NEW i \in Nat, NEW n \in Nat
  PROVE  /\ i * L \in Nat /\ (i + 1) * L = i * L + L
         /\ i <= n => i * L <= n * L
  <1>1. i * L \in Nat
    OBVIOUS
  <1>2. (i + 1) * L = i * L + L
    OBVIOUS
  <1>3. ASSUME i <= n PROVE i * L <= n * L
    <2>1. n * L = i * L + (n - i) * L
      BY <1>3
    <2>2. (n - i) * L \in Nat
      BY <1>3
    <2> QED BY <2>1, <2>2, <1>1
  <1> QED BY <1>1, <1>2, <1>3

\* Functions that agree have the same sum.
LEMMA SumAlike ==
  ASSUME NEW S, IsFiniteSet(S), NEW f, NEW g, \A x \in S : f[x] \in Nat /\ g[x] = f[x]
  PROVE  SumFunctionOnSet(g, S) = SumFunctionOnSet(f, S)
  <1> DEFINE rest == [s \in SUBSET S |-> s \ {Taken(s)}]
             T == {s \in SUBSET S : SumFunctionOnSet(g, s) = SumFunctionOnSet(f, s)}
  <1>1. Shrinks(rest, S)
    BY DEF Shrinks, Taken
  <1>2. {} \in T
    BY SumOfNone
  <1>3. ASSUME NEW s \in SUBSET S, s # {}, rest[s] \in T PROVE s \in T
    <2> DEFINE x == Taken(s)
               r == s \ {x}
    <2>1. x \in s /\ x \notin r /\ s = r \cup {x} /\ f[x] \in Nat /\ g[x] = f[x]
      BY <1>3 DEF Taken
    <2>2. IsFiniteSet(r) /\ r \in SUBSET S
      BY FS_Subset
    <2>3. SumFunctionOnSet(g, r) = SumFunctionOnSet(f, r)
      BY <1>3
    <2> HIDE DEF x, r
    <2>4. \A y \in r \cup {x} : f[y] \in Nat /\ g[y] \in Nat
      BY <2>1, <2>2
    <2>5. /\ SumFunctionOnSet(f, s) = f[x] + SumFunctionOnSet(f, r)
          /\ SumFunctionOnSet(g, s) = g[x] + SumFunctionOnSet(g, r)
      BY <2>1, <2>2, <2>4, SumOfOneMore
    <2> QED BY <2>1, <2>3, <2>5
  <1>4. SUBSET S \subseteq T
    <2> HIDE DEF rest, T
    <2> QED BY <1>1, <1>2, <1>3, SubsetsClosed
  <1> QED BY <1>4

\* A sum over some members more, each of the same value.
LEMMA SumOfBlock ==
  ASSUME NEW U, IsFiniteSet(U), NEW V, IsFiniteSet(V), U \cap V = {}, NEW c \in Nat, NEW f,
         \A x \in U : f[x] \in Nat, \A x \in V : f[x] = c
  PROVE  SumFunctionOnSet(f, U \cup V) = SumFunctionOnSet(f, U) + Cardinality(V) * c
  <1> DEFINE rest == [s \in SUBSET V |-> s \ {Taken(s)}]
             T == {s \in SUBSET V :
                     SumFunctionOnSet(f, U \cup s) = SumFunctionOnSet(f, U) + Cardinality(s) * c}
  <1>1. Shrinks(rest, V)
    BY DEF Shrinks, Taken
  <1>2. SumFunctionOnSet(f, U) \in Nat
    BY SumIsNat
  <1>3. {} \in T
    <2>1. Cardinality({}) = 0 /\ U \cup {} = U /\ 0 * c = 0
      BY FS_EmptySet
    <2> QED BY <1>2, <2>1
  <1>4. ASSUME NEW s \in SUBSET V, s # {}, rest[s] \in T PROVE s \in T
    <2> DEFINE x == Taken(s)
               r == s \ {x}
    <2>1. x \in s /\ x \notin r /\ s = r \cup {x} /\ x \in V
      BY <1>4 DEF Taken
    <2>2. IsFiniteSet(r) /\ r \in SUBSET V
      BY FS_Subset
    <2>3. SumFunctionOnSet(f, U \cup r) = SumFunctionOnSet(f, U) + Cardinality(r) * c
      BY <1>4
    <2> HIDE DEF x, r
    <2>4. IsFiniteSet(U \cup r) /\ x \notin U \cup r /\ U \cup s = (U \cup r) \cup {x}
      BY <2>1, <2>2, FS_Union
    <2>5. \A y \in (U \cup r) \cup {x} : f[y] \in Nat
      BY <2>1, <2>2
    <2>6. SumFunctionOnSet(f, U \cup s) = c + SumFunctionOnSet(f, U \cup r)
      <3>1. PICK W : W = U \cup r
        OBVIOUS
      <3>2. IsFiniteSet(W) /\ x \notin W /\ \A y \in W \cup {x} : f[y] \in Nat
        BY <2>4, <2>5, <3>1
      <3>3. SumFunctionOnSet(f, W \cup {x}) = f[x] + SumFunctionOnSet(f, W)
        BY ONLY <3>2, SumOfOneMore
      <3>4. f[x] = c /\ W \cup {x} = U \cup s
        BY <2>1, <2>4, <3>1
      <3> QED BY <3>1, <3>3, <3>4
    <2>7. PICK k \in Nat : k = Cardinality(r) /\ k + 1 = Cardinality(s)
      BY <2>1, <2>2, FS_AddElement, FS_CardinalityType
    <2>8. (k + 1) * c = k * c + c /\ k * c \in Nat
      BY Products
    <2> QED BY <1>2, <2>3, <2>6, <2>7, <2>8
  <1>5. SUBSET V \subseteq T
    <2> HIDE DEF rest, T
    <2> QED BY <1>1, <1>3, <1>4, SubsetsClosed
  <1> QED BY <1>5

\* Each member of R has a part of A of its own, all of it with the value of that member.
Parted(R, part, A, size, w, more) ==
  /\ IsFiniteSet(R) /\ A = UNION {part[f] : f \in R}
  /\ \A f \in R : /\ IsFiniteSet(part[f]) /\ part[f] # {} /\ size[f] \in Nat
                  /\ \A k \in part[f] : w[k] = size[f]
                  /\ more[f] = (Cardinality(part[f]) - 1) * size[f]
  /\ \A f, g \in R : f # g => part[f] \cap part[g] = {}

\* A sum over the parts has each member once, and once more for all of its part but one.
LEMMA SumByParts ==
  ASSUME NEW R, NEW part, NEW A, NEW size, NEW w, NEW more, Parted(R, part, A, size, w, more)
  PROVE  /\ \A f \in R : more[f] \in Nat
         /\ SumFunctionOnSet(w, A) = SumFunctionOnSet(size, R) + SumFunctionOnSet(more, R)
  <1> USE DEF Parted
  <1> DEFINE rest == [s \in SUBSET R |-> s \ {Taken(s)}]
             P(s) == UNION {part[f] : f \in s}
             T == {s \in SUBSET R :
                     /\ IsFiniteSet(P(s))
                     /\ SumFunctionOnSet(w, P(s))
                          = SumFunctionOnSet(size, s) + SumFunctionOnSet(more, s)}
  <1>1. Shrinks(rest, R)
    BY DEF Shrinks, Taken
  <1>2. ASSUME NEW f \in R
        PROVE  /\ more[f] \in Nat
               /\ Cardinality(part[f]) * size[f] = size[f] + more[f]
    <2>1. Cardinality(part[f]) \in Nat \ {0}
      BY FS_CardinalityType, FS_EmptySet
    <2>2. PICK k \in Nat : k + 1 = Cardinality(part[f])
      <3>1. Cardinality(part[f]) - 1 \in Nat
        BY <2>1
      <3> QED BY <2>1, <3>1
    <2>3. PICK c \in Nat : c = size[f]
      OBVIOUS
    <2>4. (k + 1) * c = k * c + c /\ k * c \in Nat
      BY Products
    <2>5. more[f] = k * c
      <3>1. Cardinality(part[f]) - 1 = k
        BY <2>2
      <3> QED BY <2>3, <3>1
    <2> QED BY <2>2, <2>3, <2>4, <2>5
  <1>3. {} \in T
    <2>1. P({}) = {} /\ IsFiniteSet({})
      BY FS_EmptySet
    <2>2. SumFunctionOnSet(w, P({})) = 0
      BY <2>1, SumOfNone
    <2>3. SumFunctionOnSet(size, {}) + SumFunctionOnSet(more, {}) = 0
      <3>1. SumFunctionOnSet(size, {}) = 0 /\ SumFunctionOnSet(more, {}) = 0
        BY SumOfNone
      <3> QED BY <3>1
    <2>4. IsFiniteSet(P({})) /\ {} \in SUBSET R
      BY <2>1
    <2> HIDE DEF P
    <2> QED BY <2>2, <2>3, <2>4
  <1>4. ASSUME NEW s \in SUBSET R, s # {}, rest[s] \in T PROVE s \in T
    <2> DEFINE x == Taken(s)
               r == s \ {x}
    <2>1. x \in s /\ x \notin r /\ s = r \cup {x} /\ x \in R
      BY <1>4 DEF Taken
    <2>2. IsFiniteSet(r) /\ r \in SUBSET R
      BY FS_Subset
    <2>3. /\ IsFiniteSet(P(r))
          /\ SumFunctionOnSet(w, P(r)) = SumFunctionOnSet(size, r) + SumFunctionOnSet(more, r)
      BY <1>4
    <2> HIDE DEF x, r
    <2>4. P(s) = P(r) \cup part[x] /\ P(r) \cap part[x] = {}
      BY <2>1, <2>2
    <2>5. \A k \in P(r) : w[k] \in Nat
      BY <2>2
    <2>6. \A k \in part[x] : w[k] = size[x]
      BY <2>1
    <2>7. IsFiniteSet(part[x]) /\ size[x] \in Nat
      BY <2>1
    <2>8. /\ SumFunctionOnSet(size, s) = size[x] + SumFunctionOnSet(size, r)
          /\ SumFunctionOnSet(more, s) = more[x] + SumFunctionOnSet(more, r)
      <3>1. \A y \in r \cup {x} : size[y] \in Nat /\ more[y] \in Nat
        BY <1>2, <2>1, <2>2
      <3> QED BY <2>1, <2>2, <3>1, SumOfOneMore
    <2>9. SumFunctionOnSet(size, r) \in Nat /\ SumFunctionOnSet(more, r) \in Nat
      <3>1. \A y \in r : size[y] \in Nat /\ more[y] \in Nat
        BY <1>2, <2>2
      <3> QED BY <2>2, <3>1, SumIsNat
    <2> HIDE DEF P
    <2>10. SumFunctionOnSet(w, P(s))
             = SumFunctionOnSet(w, P(r)) + Cardinality(part[x]) * size[x]
      BY <2>3, <2>4, <2>5, <2>6, <2>7, SumOfBlock
    <2>11. IsFiniteSet(P(s))
      <3>1. IsFiniteSet(P(r)) /\ IsFiniteSet(part[x]) /\ P(s) = P(r) \cup part[x]
        BY <2>3, <2>4, <2>7
      <3>2. IsFiniteSet(P(r) \cup part[x])
        BY <3>1, FS_Union
      <3> QED BY <3>1, <3>2
    <2>12. more[x] \in Nat /\ Cardinality(part[x]) * size[x] = size[x] + more[x]
      BY <1>2, <2>1
    <2> QED BY <2>3, <2>7, <2>8, <2>9, <2>10, <2>11, <2>12
  <1>5. SUBSET R \subseteq T
    <2> HIDE DEF rest, T
    <2> QED BY <1>1, <1>3, <1>4, SubsetsClosed
  <1> QED BY <1>2, <1>5

-----------------------------------------------------------------------------
(* Sequences made from sets.                                               *)

\* SetToSeq lists the members of a finite set, each once.
LEMMA SetToSeqLists ==
  ASSUME NEW S, IsFiniteSet(S)
  PROVE  /\ SetToSeq(S) \in Seq(S) /\ Len(SetToSeq(S)) = Cardinality(S)
         /\ Cardinality(S) \in Nat
         /\ IsInjective(SetToSeq(S)) /\ Range(SetToSeq(S)) = S
  <1> DEFINE n == Cardinality(S)
  <1>1. n \in Nat /\ ExistsBijection(1 .. n, S)
    BY FS_CardinalityType
  <1>2. PICK f : f \in [1 .. n -> S] /\ IsInjective(f)
    BY <1>1 DEF ExistsBijection, Bijection, Injection
  <1> DEFINE g == SetToSeq(S)
  <1>3. g \in [1 .. n -> S] /\ IsInjective(g)
    BY <1>2 DEF SetToSeq
  <1> HIDE DEF g
  <1>4. g \in Seq(S) /\ Len(g) = n
    BY <1>1, <1>3
  <1>5. Range(g) = S
    <2>1. IsFiniteSet(1 .. n) /\ Cardinality(1 .. n) = n
      BY <1>1, FS_Interval
    <2>2. g \in Injection(1 .. n, S)
      BY <1>3 DEF Injection
    <2> HIDE DEF n
    <2>3. g \in Surjection(1 .. n, S)
      BY <2>1, <2>2, FS_Injection DEF n
    <2> QED BY <1>3, <2>3 DEF Surjection, Range
  <1> QED BY <1>1, <1>3, <1>4, <1>5 DEF g

\* A sequence over a set is one over a larger set.
LEMMA SeqWidens ==
  ASSUME NEW S, NEW T, S \subseteq T, NEW q \in Seq(S)
  PROVE  q \in Seq(T)
  <1>1. Len(q) \in Nat /\ \A i \in 1 .. Len(q) : q[i] \in T
    BY ElementOfSeq
  <1>2. q = [i \in 1 .. Len(q) |-> q[i]]
    OBVIOUS
  <1> QED BY <1>1, <1>2

-----------------------------------------------------------------------------
(* Sequences of sequences, all of one length, one after the other.          *)

\* A place in a row is a place in the whole.
LEMMA CellIn ==
  ASSUME NEW L \in Nat, NEW n \in Nat, NEW i \in 1 .. n, NEW k \in 1 .. L
  PROVE  (i - 1) * L + k \in 1 .. n * L
  <1>1. i - 1 \in Nat /\ (i - 1) + 1 = i /\ i <= n /\ i \in Nat
    OBVIOUS
  <1>2. i * L = (i - 1) * L + L /\ (i - 1) * L \in Nat /\ i * L <= n * L
    BY <1>1, Products
  <1> DEFINE a == (i - 1) * L
             b == i * L
             c == n * L
  <1>3. a \in Nat /\ b \in Nat /\ c \in Nat /\ b = a + L /\ b <= c
    BY <1>2
  <1> HIDE DEF a, b, c
  <1>4. a + k \in 1 .. c
    BY <1>3
  <1> QED BY <1>4 DEF a, c

\* Every place in n rows of length L is a place in one of the rows.
LEMMA CellOf ==
  ASSUME NEW L \in Nat, NEW n \in Nat, NEW j \in 1 .. n * L
  PROVE  \E i \in 1 .. n, k \in 1 .. L : j = (i - 1) * L + k
  <1> DEFINE S == {m \in Nat : \A x \in 1 .. m * L :
                     \E i \in 1 .. m, k \in 1 .. L : x = (i - 1) * L + k}
  <1>1. 0 \in S
    OBVIOUS
  <1>2. ASSUME NEW m \in Nat, m \in S PROVE m + 1 \in S
    <2> SUFFICES ASSUME NEW x \in 1 .. (m + 1) * L
                 PROVE  \E i \in 1 .. m + 1, k \in 1 .. L : x = (i - 1) * L + k
      OBVIOUS
    <2>1. m * L \in Nat /\ (m + 1) * L = m * L + L
      BY Products
    <2>2. CASE x <= m * L
      <3>1. x \in 1 .. m * L
        BY <2>1, <2>2
      <3>2. PICK i \in 1 .. m, k \in 1 .. L : x = (i - 1) * L + k
        BY <1>2, <3>1
      <3> QED BY <3>2
    <2>3. CASE x > m * L
      <3>1. x - m * L \in 1 .. L /\ x = m * L + (x - m * L)
        BY <2>1, <2>3
      <3>2. m + 1 \in 1 .. m + 1 /\ (m + 1) - 1 = m
        OBVIOUS
      <3> QED BY <3>1, <3>2
    <2> QED BY <2>1, <2>2, <2>3
  <1>3. Nat \subseteq S
    <2> HIDE DEF S
    <2> QED BY <1>1, <1>2, NatClosed
  <1> QED BY <1>3

\* What FlattenSeq adds up to at each row.
LEMMA FlatIs ==
  ASSUME NEW W, NEW s \in Seq(Seq(W)), s # <<>>
  PROVE  \E f \in [1 .. Len(s) -> Seq(W)] :
           /\ FlattenSeq(s) = f[Len(s)] /\ f[1] = s[1]
           /\ \A i \in 2 .. Len(s) : f[i] = f[i - 1] \o s[i]
  <1> DEFINE n == Len(s)
             Is(f) == f = [i \in 1 .. n |-> IF i = 1 THEN s[i] ELSE f[i - 1] \o s[i]]
             step == [x \in Nat \X Seq(W) |->
                        IF x[1] + 1 \in 1 .. n THEN x[2] \o s[x[1] + 1] ELSE x[2]]
  <1>1. n \in Nat \ {0} /\ \A i \in 1 .. n : s[i] \in Seq(W)
    BY EmptySeq
  <1>2. step \in [Nat \X Seq(W) -> Seq(W)]
    BY <1>1
  <1>3. s[1] \in Seq(W) /\ n - 1 \in Nat
    BY <1>1
  <1>4. PICK g \in [0 .. n - 1 -> Seq(W)] : Follows(g, n - 1, s[1], step)
    <2> HIDE DEF step, n
    <2> QED BY <1>2, <1>3, NatRecursion
  <1> DEFINE f == [i \in 1 .. n |-> g[i - 1]]
  <1>5. ASSUME NEW i \in 2 .. n PROVE f[i] = f[i - 1] \o s[i]
    <2>1. /\ i - 1 \in 1 .. n - 1 /\ i - 1 \in 1 .. n /\ i \in 1 .. n /\ (i - 1) - 1 \in 0 .. n - 1
          /\ (i - 1) + 1 = i
      BY <1>1
    <2>2. g[i - 1] = step[<<i - 1, g[(i - 1) - 1]>>]
      BY <1>4, <2>1 DEF Follows
    <2>3. g[(i - 1) - 1] \in Seq(W) /\ i - 1 \in Nat
      <3>1. \A k \in 0 .. n - 1 : g[k] \in Seq(W)
        BY <1>4
      <3> QED BY <2>1, <3>1
    <2>4. step[<<i - 1, g[(i - 1) - 1]>>] = g[(i - 1) - 1] \o s[i]
      BY <2>1, <2>3
    <2> QED BY <2>1, <2>2, <2>4
  <1>6. f[1] = s[1]
    BY <1>1, <1>4 DEF Follows
  <1>7. f \in [1 .. n -> Seq(W)]
    BY <1>1
  <1>8. Is(f)
    <2> HIDE DEF f
    <2>1. f = [i \in 1 .. n |-> f[i]]
      BY <1>7
    <2>2. \A i \in 1 .. n : f[i] = IF i = 1 THEN s[i] ELSE f[i - 1] \o s[i]
      <3> TAKE i \in 1 .. n
      <3>1. i = 1 \/ i \in 2 .. n
        BY <1>1
      <3> QED BY <1>1, <1>5, <1>6, <3>1
    <2> QED BY <2>1, <2>2
  <1> DEFINE h == CHOOSE r : Is(r)
  <1>9. Is(h)
    <2> HIDE DEF Is, f
    <2> QED BY <1>8
  <1>10. FlattenSeq(s) = h[n]
    BY <1>1 DEF FlattenSeq
  <1> HIDE DEF h
  <1>11. DOMAIN h = 1 .. n /\ h[1] = s[1] /\ \A i \in 2 .. n : h[i] = h[i - 1] \o s[i]
    <2>1. DOMAIN h = 1 .. n
      BY <1>9
    <2>2. \A i \in 1 .. n : h[i] = IF i = 1 THEN s[i] ELSE h[i - 1] \o s[i]
      <3> HIDE DEF n
      <3> QED BY <1>9
    <2>3. 1 \in 1 .. n /\ \A i \in 2 .. n : i \in 1 .. n /\ i # 1
      BY <1>1
    <2> HIDE DEF n, Is
    <2> QED BY <2>1, <2>2, <2>3
  <1>12. h \in [1 .. n -> Seq(W)]
    <2> DEFINE T == {k \in Nat : k + 1 \in 1 .. n => h[k + 1] \in Seq(W)}
    <2>1. 0 \in T
      BY <1>1, <1>11
    <2>2. ASSUME NEW k \in Nat, k \in T PROVE k + 1 \in T
      <3> SUFFICES ASSUME (k + 1) + 1 \in 1 .. n PROVE h[(k + 1) + 1] \in Seq(W)
        OBVIOUS
      <3>1. k + 1 \in 1 .. n /\ (k + 1) + 1 \in 2 .. n /\ ((k + 1) + 1) - 1 = k + 1
        BY <1>1
      <3>2. h[k + 1] \in Seq(W) /\ s[(k + 1) + 1] \in Seq(W)
        BY <2>2, <3>1, <1>1
      <3>3. h[(k + 1) + 1] = h[k + 1] \o s[(k + 1) + 1]
        BY <3>1, <1>11
      <3> HIDE DEF h, n
      <3> QED BY <3>2, <3>3
    <2>3. Nat \subseteq T
      <3> HIDE DEF T
      <3> QED BY <2>1, <2>2, NatClosed
    <2>4. \A i \in 1 .. n : h[i] \in Seq(W)
      <3> TAKE i \in 1 .. n
      <3>1. i - 1 \in Nat /\ (i - 1) + 1 = i
        BY <1>1
      <3>2. i - 1 \in T
        BY <2>3, <3>1
      <3> QED BY <3>1, <3>2
    <2>5. h = [i \in 1 .. n |-> h[i]]
      BY <1>9
    <2> QED BY <2>4, <2>5
  <1> QED BY <1>10, <1>11, <1>12

\* Rows of one length: each place of a row has its place in the whole.
IsFlat(t, s, W, L) ==
  /\ t \in Seq(W) /\ Len(t) = Len(s) * L
  /\ \A i \in 1 .. Len(s), k \in 1 .. L : t[(i - 1) * L + k] = s[i][k]

\* Flattening rows of one length puts each element at that place.
LEMMA Flattened ==
  ASSUME NEW W, NEW L \in Nat, NEW s \in Seq([1 .. L -> W])
  PROVE  IsFlat(FlattenSeq(s), s, W, L)
  <1> DEFINE n == Len(s)
  <1>1. n \in Nat /\ \A i \in 1 .. n : s[i] \in Seq(W) /\ Len(s[i]) = L
    <2>1. \A i \in 1 .. n : s[i] \in [1 .. L -> W]
      BY ElementOfSeq
    <2>2. \A t \in [1 .. L -> W] : t \in Seq(W) /\ Len(t) = L
      BY ONLY L \in Nat
    <2>3. n \in Nat
      BY LenProperties
    <2> QED BY ONLY <2>1, <2>2, <2>3
  <1>4. s \in Seq(Seq(W))
    <2>1. [1 .. L -> W] \subseteq Seq(W)
      OBVIOUS
    <2> QED BY <2>1, SeqWidens
  <1>2. CASE s = <<>>
    <2>1. Len(s) = 0 /\ FlattenSeq(s) = s
      BY <1>2 DEF FlattenSeq
    <2>2. 0 * L = 0 /\ s \in Seq(W)
      BY <1>2
    <2> QED BY <2>1, <2>2 DEF IsFlat
  <1>3. CASE s # <<>>
    <2>1. PICK f \in [1 .. n -> Seq(W)] :
            /\ FlattenSeq(s) = f[n] /\ f[1] = s[1]
            /\ \A i \in 2 .. n : f[i] = f[i - 1] \o s[i]
      BY <1>3, <1>4, FlatIs
    <2>2. n # 0
      BY <1>3, EmptySeq
    <2> DEFINE Good(m) == /\ f[m] \in Seq(W) /\ Len(f[m]) = m * L
                          /\ \A i \in 1 .. m, k \in 1 .. L : f[m][(i - 1) * L + k] = s[i][k]
               T == {k \in Nat : k + 1 \in 1 .. n => Good(k + 1)}
    <2>3. 0 \in T
      <3>1. 1 \in 1 .. n /\ f[1] \in Seq(W) /\ Len(f[1]) = L /\ 1 * L = L /\ (1 - 1) * L = 0
        BY <1>1, <2>1, <2>2
      <3>2. ASSUME NEW i \in 1 .. 1, NEW k \in 1 .. L PROVE f[1][(i - 1) * L + k] = s[i][k]
        <4>1. i = 1 /\ (i - 1) * L + k = k
          BY <3>1
        <4> QED BY <2>1, <4>1
      <3> QED BY <3>1, <3>2
    <2>4. ASSUME NEW m \in Nat, m \in T PROVE m + 1 \in T
      <3> SUFFICES ASSUME (m + 1) + 1 \in 1 .. n PROVE Good((m + 1) + 1)
        OBVIOUS
      <3> DEFINE c == m + 1
      <3>1. c \in 1 .. n /\ c + 1 \in 2 .. n /\ (c + 1) - 1 = c /\ c \in Nat /\ c + 1 \in 1 .. n
        BY <1>1
      <3>2. Good(c) /\ f[c + 1] = f[c] \o s[c + 1]
        BY <2>1, <2>4, <3>1
      <3> HIDE DEF c
      <3>3. s[c + 1] \in Seq(W) /\ Len(s[c + 1]) = L
        BY <1>1, <3>1
      <3>4. c * L \in Nat /\ (c + 1) * L = c * L + L
        BY <3>1, Products
      <3>5. /\ f[c + 1] \in Seq(W) /\ Len(f[c + 1]) = (c + 1) * L
            /\ \A j \in 1 .. c * L : f[c + 1][j] = f[c][j]
            /\ \A k \in 1 .. L : f[c + 1][c * L + k] = s[c + 1][k]
        <4>1. PICK a \in Seq(W), b \in Seq(W), p \in Nat :
                a = f[c] /\ b = s[c + 1] /\ p = c * L /\ Len(a) = p /\ Len(b) = L
          BY <3>2, <3>3, <3>4
        <4>2. /\ a \o b \in Seq(W) /\ Len(a \o b) = p + L
              /\ \A j \in 1 .. p : (a \o b)[j] = a[j]
              /\ \A k \in 1 .. L : (a \o b)[p + k] = b[k]
          <5>1. /\ a \o b \in Seq(W) /\ Len(a \o b) = Len(a) + Len(b)
                /\ \A i \in 1 .. Len(a) + Len(b) :
                     (a \o b)[i] = IF i <= Len(a) THEN a[i] ELSE b[i - Len(a)]
            BY ConcatProperties
          <5> DEFINE ab == a \o b
          <5> HIDE DEF ab
          <5>2. /\ ab \in Seq(W) /\ Len(ab) = p + L
                /\ \A i \in 1 .. p + L : ab[i] = IF i <= p THEN a[i] ELSE b[i - p]
            BY <4>1, <5>1 DEF ab
          <5>3. \A j \in 1 .. p : ab[j] = a[j]
            BY <5>2
          <5>4. ASSUME NEW k \in 1 .. L PROVE ab[p + k] = b[k]
            <6>1. p + k \in 1 .. p + L /\ ~(p + k <= p) /\ (p + k) - p = k
              OBVIOUS
            <6> QED BY <5>2, <6>1
          <5> QED BY <5>2, <5>3, <5>4 DEF ab
        <4> QED BY <3>2, <3>4, <4>1, <4>2
      <3>6. ASSUME NEW i \in 1 .. c + 1, NEW k \in 1 .. L
            PROVE  f[c + 1][(i - 1) * L + k] = s[i][k]
        <4>1. CASE i = c + 1
          <5>1. (i - 1) * L + k = c * L + k
            BY <3>1, <4>1
          <5> QED BY <3>5, <4>1, <5>1
        <4>2. CASE i # c + 1
          <5>1. i \in 1 .. c
            BY <3>1, <4>2
          <5>3. (i - 1) * L + k \in 1 .. c * L
            BY <5>1, <3>1, CellIn
          <5> QED BY <3>2, <3>5, <5>1, <5>3
        <4> QED BY <4>1, <4>2
      <3> QED BY <3>5, <3>6 DEF c
    <2>5. Good(n)
      <3>1. Nat \subseteq T
        <4> HIDE DEF T
        <4> QED BY <2>3, <2>4, NatClosed
      <3>2. n - 1 \in Nat /\ (n - 1) + 1 = n /\ n \in 1 .. n
        BY <1>1, <2>2
      <3>3. n - 1 \in T
        <4> HIDE DEF T
        <4> QED BY <3>1, <3>2
      <3> HIDE DEF Good, n
      <3> QED BY <3>2, <3>3
    <2> QED BY ONLY <2>1, <2>5 DEF IsFlat, n, Good
  <1> QED BY <1>2, <1>3
=============================================================================
