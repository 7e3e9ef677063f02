---------------------------- MODULE FolderProofs ----------------------------
(***************************************************************************)
(* Theorems about what the program finds around the files (SetFolder): the *)
(* walk of a scan for any tree, links and changes, the documents for any   *)
(* backups and merges, and the mounts for any table.                       *)
(***************************************************************************)
EXTENDS SetFolder, DataLemmas

-----------------------------------------------------------------------------
(* The folders above one, as the chain of parents that leads to the root.  *)

ParentOK == parent \in [Nodes \ {Root} -> Folders \cup {Gone}]

Height == Cardinality(Folders)

\* The parents of f one after the other; the chain stays where it ends.
Climb(c, f) ==
  /\ c \in [0 .. Height -> Folders \cup {Gone}] /\ c[0] = f
  /\ \A k \in 1 .. Height :
       c[k] = IF c[k - 1] \in {Root, Gone} THEN c[k - 1] ELSE parent[c[k - 1]]

LEMMA HeightIsNat == Height \in Nat
  BY TreeAssumption, FS_CardinalityType DEF Height

LEMMA ClimbExists ==
  ASSUME ParentOK, NEW f \in Folders
  PROVE  \E c : Climb(c, f)
  <1> DEFINE B == Folders \cup {Gone}
             step == [x \in Nat \X B |-> IF x[2] \in {Root, Gone} THEN x[2] ELSE parent[x[2]]]
  <1>1. ASSUME NEW x \in Nat \X B PROVE step[x] \in B
    BY <1>1, TreeAssumption DEF ParentOK, Nodes
  <1>2. step \in [Nat \X B -> B]
    BY <1>1
  <1>3. PICK c \in [0 .. Height -> B] : Follows(c, Height, f, step)
    <2>1. f \in B
      OBVIOUS
    <2> HIDE DEF step, B
    <2> QED BY <1>2, <2>1, HeightIsNat, NatRecursion
  <1>4. ASSUME NEW k \in 1 .. Height
        PROVE  c[k] = IF c[k - 1] \in {Root, Gone} THEN c[k - 1] ELSE parent[c[k - 1]]
    <2>1. k - 1 \in 0 .. Height /\ k \in Nat
      BY HeightIsNat
    <2>2. c[k - 1] \in B
      BY <2>1
    <2>3. c[k] = step[<<k, c[k - 1]>>]
      BY <1>3 DEF Follows
    <2> QED BY <2>1, <2>2, <2>3
  <1> QED BY <1>3, <1>4 DEF Climb, Follows

\* One more step up, as Above takes it.
Wider(above) ==
  above \cup ({parent[g] : g \in above \ {Root, Gone}} \ {Gone})
Widen(f, up) == [n \in 0 .. Height |-> IF n = 0 THEN {f} ELSE Wider(up[n - 1])]

LEMMA AboveIsChosen ==
  ASSUME NEW f
  PROVE  Above(f) = (CHOOSE up : up = Widen(f, up))[Height]
  BY DEF Above, Widen, Wider, Height

\* Above is the set of the folders on the way up.
LEMMA AboveIsClimb ==
  ASSUME ParentOK, NEW f \in Folders, NEW c, Climb(c, f)
  PROVE  Above(f) = {c[k] : k \in 0 .. Height} \ {Gone}
  <1> DEFINE g == [n \in 0 .. Height |-> {c[k] : k \in 0 .. n} \ {Gone}]
             up == CHOOSE h : h = Widen(f, h)
  <1> USE HeightIsNat
  <1>1. ASSUME NEW n \in 1 .. Height PROVE g[n] = Wider(g[n - 1])
    <2>1. /\ n \in 0 .. Height /\ n - 1 \in 0 .. Height /\ n - 1 \in 0 .. n - 1
          /\ 0 .. n = 0 .. n - 1 \cup {n}
      OBVIOUS
    <2>2. g[n] = g[n - 1] \cup ({c[n]} \ {Gone})
      BY <2>1
    <2>3. g[n - 1] = {c[k] : k \in 0 .. n - 1} \ {Gone}
      BY <2>1
    <2> HIDE DEF g
    <2>4. ASSUME NEW y PROVE y \in g[n] <=> y \in Wider(g[n - 1])
      <3>1. ASSUME y = c[n], y # Gone PROVE y \in Wider(g[n - 1])
        <4>1. CASE c[n - 1] \in {Root, Gone}
          <5>1. y = c[n - 1]
            BY <3>1, <4>1, <2>1 DEF Climb
          <5> QED BY <5>1, <3>1, <2>3, <2>1 DEF Wider
        <4>2. CASE c[n - 1] \notin {Root, Gone}
          <5>1. y = parent[c[n - 1]] /\ c[n - 1] \in g[n - 1]
            BY <3>1, <4>2, <2>1, <2>3 DEF Climb
          <5> QED BY <5>1, <3>1, <4>2 DEF Wider
        <4> QED BY <4>1, <4>2
      <3>2. ASSUME NEW x \in g[n - 1] \ {Root, Gone}, y = parent[x], y # Gone
            PROVE  y \in g[n]
        <4>1. PICK k \in 0 .. n - 1 : x = c[k]
          BY <3>2, <2>3
        <4>2. k + 1 \in 1 .. Height /\ (k + 1) - 1 = k
          BY <4>1, <2>1
        <4>3. y = c[k + 1]
          BY <4>1, <4>2, <3>2 DEF Climb
        <4>4. k + 1 \in 0 .. n
          BY <4>1
        <4> QED BY <4>3, <4>4, <3>2, <2>1, <2>2, <2>3
      <3> QED BY <2>2, <3>1, <3>2 DEF Wider
    <2> QED BY <2>4
  <1>2. g[0] = {f}
    BY TreeAssumption DEF Climb, Nodes
  <1>3. g = Widen(f, g)
    <2>1. \A n \in 0 .. Height : g[n] = IF n = 0 THEN {f} ELSE Wider(g[n - 1])
      <3> HIDE DEF g
      <3>1. \A n \in 0 .. Height : n = 0 \/ n \in 1 .. Height
        OBVIOUS
      <3> QED BY <1>1, <1>2, <3>1
    <2>2. g = [n \in 0 .. Height |-> g[n]]
      OBVIOUS
    <2> HIDE DEF g
    <2> QED BY <2>1, <2>2 DEF Widen
  <1>4. up = Widen(f, up)
    <2> HIDE DEF g
    <2> QED BY <1>3
  <1>5. 0 .. Height \subseteq {n \in 0 .. Height : up[n] = g[n]}
    <2> DEFINE S == {n \in 0 .. Height : up[n] = g[n]}
    <2> HIDE DEF g, up
    <2>1. \A n \in 0 .. Height : /\ up[n] = IF n = 0 THEN {f} ELSE Wider(up[n - 1])
                               /\ g[n] = IF n = 0 THEN {f} ELSE Wider(g[n - 1])
      BY <1>3, <1>4 DEF Widen
    <2>2. 0 \in S
      BY <2>1
    <2>3. ASSUME NEW k \in 0 .. Height - 1, k \in S PROVE k + 1 \in S
      <3>1. k + 1 \in 0 .. Height /\ k + 1 # 0 /\ (k + 1) - 1 = k
        OBVIOUS
      <3> QED BY <3>1, <2>1, <2>3
    <2> HIDE DEF S
    <2>4. 0 .. Height \subseteq S
      BY <2>2, <2>3, UpToClosed
    <2> QED BY <2>4 DEF S
  <1>6. Above(f) = up[Height] /\ up[Height] = g[Height]
    <2>1. Height \in 0 .. Height
      OBVIOUS
    <2> HIDE DEF g
    <2> QED BY <1>5, <2>1, AboveIsChosen
  <1> QED BY <1>6

-----------------------------------------------------------------------------
(* Paths.                                                                  *)

\* A path of real folders from the root that does not come back to it.
IsPath(p) ==
  /\ p \in Seq(Folders) /\ Len(p) > 0 /\ p[1] = Root
  /\ \A i \in 2 .. Len(p) : p[i] # Root

\* It is a way through the tree as it is, or as far as nothing of it was moved.
Chain(p) == IsPath(p) /\ \A i \in 2 .. Len(p) : parent[p[i]] = p[i - 1]
Trail(p) ==
  IsPath(p) /\ \A i \in 2 .. Len(p) : p[i] \notin moved => parent[p[i]] = p[i - 1]

LEMMA LastOfPath ==
  ASSUME NEW p, IsPath(p)
  PROVE  Last(p) \in Folders /\ Real(p) = Last(p) /\ Last(p) = p[Len(p)]
  <1>1. Len(p) \in 1 .. Len(p) /\ p[Len(p)] \in Folders
    BY ElementOfSeq, LenProperties DEF IsPath
  <1> QED BY <1>1, TreeAssumption DEF Real, Last

\* The first folders of a path are a path, which ends at the last of them.
LEMMA Prefix ==
  ASSUME NEW p, IsPath(p), NEW i \in 1 .. Len(p)
  PROVE  LET q == SubSeq(p, 1, i)
         IN  /\ IsPath(q) /\ Len(q) = i /\ Last(q) = p[i] /\ Real(q) = p[i]
             /\ \A j \in 1 .. i : q[j] = p[j]
  <1> DEFINE q == SubSeq(p, 1, i)
  <1>1. Len(p) \in Nat /\ i \in Nat /\ 1 <= i /\ i <= Len(p)
    BY LenProperties DEF IsPath
  <1>2. \A j \in 1 .. i : p[j] \in Folders
    BY <1>1, ElementOfSeq DEF IsPath
  <1>3. q \in Seq(Folders) /\ Len(q) = i /\ \A j \in 1 .. i : q[j] = p[j]
    BY <1>1, <1>2, SubSeqProperties
  <1>4. IsPath(q)
    BY <1>1, <1>3 DEF IsPath
  <1> HIDE DEF q
  <1>5. Last(q) = p[i] /\ Real(q) = p[i]
    BY <1>1, <1>3, <1>4, LastOfPath
  <1> QED BY <1>3, <1>4, <1>5 DEF q

\* For a path, InPlace says that it is a way through the tree.
LEMMA InPlaceIsChain ==
  ASSUME NEW p, IsPath(p)
  PROVE  InPlace(p) <=> Chain(p)
  <1>1. ASSUME NEW i \in 2 .. Len(p) PROVE Real(SubSeq(p, 1, i - 1)) = p[i - 1]
    <2>1. i - 1 \in 1 .. Len(p)
      BY LenProperties DEF IsPath
    <2> QED BY <2>1, Prefix
  <1> QED BY <1>1 DEF InPlace, Chain

\* Two ways to one folder are the same, if nothing on one of them was moved.
LEMMA OneWay ==
  ASSUME NEW p, Trail(p), NEW q, Chain(q), Last(p) = Last(q),
         \A i \in 1 .. Len(q) : q[i] \notin moved
  PROVE  p = q
  <1> DEFINE m == Len(p)
             n == Len(q)
             least == IF m <= n THEN m ELSE n
             S == {k \in 0 .. least - 1 : p[m - k] = q[n - k]}
  <1>1. m \in Nat /\ n \in Nat /\ m > 0 /\ n > 0 /\ IsPath(p) /\ IsPath(q)
    BY LenProperties DEF Trail, Chain, IsPath
  <1>2. p[m] = q[n]
    BY <1>1, LastOfPath
  <1>3. ASSUME NEW k \in 0 .. (least - 1) - 1, k \in S PROVE k + 1 \in S
    <2>1. m - k \in 2 .. m /\ n - k \in 2 .. n /\ n - k \in 1 .. n /\ k + 1 \in 0 .. least - 1
      BY <1>1
    <2>2. parent[q[n - k]] = q[(n - k) - 1] /\ q[n - k] \notin moved
      BY <2>1 DEF Chain
    <2>3. parent[p[m - k]] = p[(m - k) - 1]
      BY <2>1, <2>2, <1>3 DEF Trail
    <2>4. (m - k) - 1 = m - (k + 1) /\ (n - k) - 1 = n - (k + 1)
      BY <1>1, <2>1
    <2> HIDE DEF m, n, least
    <2> QED BY <2>1, <2>2, <2>3, <2>4, <1>3
  <1>4. 0 .. least - 1 \subseteq S
    <2>1. least - 1 \in Nat
      BY <1>1
    <2>2. 0 \in S
      BY <1>1, <1>2
    <2> HIDE DEF S, least
    <2> QED BY <2>1, <2>2, <1>3, UpToClosed
  <1>5. m = n
    <2>1. CASE m < n
      <3>1. m - 1 \in 0 .. least - 1 /\ n - (m - 1) \in 2 .. n /\ m - (m - 1) = 1
        BY <1>1, <2>1
      <3>2. p[1] = q[n - (m - 1)]
        BY <1>4, <3>1
      <3> QED BY <1>1, <3>1, <3>2 DEF IsPath
    <2>2. CASE n < m
      <3>1. n - 1 \in 0 .. least - 1 /\ m - (n - 1) \in 2 .. m /\ n - (n - 1) = 1
        BY <1>1, <2>2
      <3>2. p[m - (n - 1)] = q[1]
        BY <1>4, <3>1
      <3> QED BY <1>1, <3>1, <3>2 DEF IsPath
    <2> QED BY <1>1, <2>1, <2>2
  <1>6. ASSUME NEW i \in 1 .. m PROVE p[i] = q[i]
    <2>1. m - i \in 0 .. least - 1 /\ m - (m - i) = i
      BY <1>1, <1>5
    <2> QED BY <1>4, <1>5, <2>1
  <1> QED BY <1>1, <1>5, <1>6, SeqEqual DEF IsPath

\* A way up stays where it got to the root, or where it got nowhere.
LEMMA ClimbEnds ==
  ASSUME NEW c, NEW f, Climb(c, f), NEW j \in 0 .. Height, c[j] \in {Root, Gone}
  PROVE  \A k \in j .. Height : c[k] = c[j]
  <1> USE HeightIsNat
  <1> DEFINE S == {i \in 0 .. Height - j : c[j + i] = c[j]}
  <1>1. 0 \in S
    OBVIOUS
  <1>2. ASSUME NEW i \in 0 .. (Height - j) - 1, i \in S PROVE i + 1 \in S
    <2>1. j + (i + 1) \in 1 .. Height /\ (j + (i + 1)) - 1 = j + i /\ i + 1 \in 0 .. Height - j
      OBVIOUS
    <2>2. c[j + (i + 1)] = c[j + i]
      BY <2>1, <1>2 DEF Climb
    <2> QED BY <2>1, <2>2, <1>2
  <1>3. 0 .. Height - j \subseteq S
    <2>1. Height - j \in Nat
      OBVIOUS
    <2> HIDE DEF S
    <2> QED BY <2>1, <1>1, <1>2, UpToClosed
  <1>4. ASSUME NEW k \in j .. Height PROVE c[k] = c[j]
    <2>1. k - j \in 0 .. Height - j /\ j + (k - j) = k
      OBVIOUS
    <2> QED BY <2>1, <1>3
  <1> QED BY <1>4

\* A folder below the root is at the end of a way that goes through what is above it.
LEMMA StableChain ==
  ASSUME ParentOK, NEW f \in Folders, Root \in Above(f)
  PROVE  \E q : Chain(q) /\ Last(q) = f /\ Range(q) = Above(f)
  <1> USE HeightIsNat
  <1>1. PICK c : Climb(c, f)
    BY ClimbExists
  <1>2. Above(f) = {c[k] : k \in 0 .. Height} \ {Gone}
    BY <1>1, AboveIsClimb
  <1>3. Root # Gone /\ f # Gone
    BY TreeAssumption DEF Nodes
  <1> DEFINE S == {k \in 0 .. Height : c[k] = Root}
  <1>4. S # {} /\ S \in SUBSET Nat
    BY <1>2
  <1>5. PICK m \in S : \A k \in S : m <= k
    <2> HIDE DEF S
    <2> QED BY <1>4, LeastNatural
  <1>6. \A k \in m .. Height : c[k] = Root
    BY <1>1, <1>5, ClimbEnds
  <1>7. ASSUME NEW k \in 0 .. m, k < m PROVE c[k] # Root /\ c[k] # Gone
    <2>1. c[k] # Root
      BY <1>5, <1>7
    <2>2. ASSUME c[k] = Gone PROVE FALSE
      <3>1. c[m] = c[k]
        BY <1>1, <1>5, <1>7, <2>2, ClimbEnds
      <3> QED BY <3>1, <2>2, <1>3, <1>5
    <2> QED BY <2>1, <2>2
  <1> DEFINE q == [i \in 1 .. m + 1 |-> c[(m + 1) - i]]
  <1>8. m \in 0 .. Height /\ m + 1 \in Nat /\ c[m] = Root
    BY <1>5
  <1> HIDE DEF S
  <1>9. ASSUME NEW k \in 0 .. m PROVE c[k] \in Folders
    <2>1. c[k] \in Folders \cup {Gone}
      BY <1>1, <1>8 DEF Climb
    <2> QED BY <2>1, <1>7, <1>8, <1>3
  <1>10. q \in Seq(Folders) /\ Len(q) = m + 1
    <2>1. \A i \in 1 .. m + 1 : (m + 1) - i \in 0 .. m
      BY <1>8
    <2>2. q \in [1 .. m + 1 -> Folders]
      BY <2>1, <1>9
    <2> QED BY <2>2, <1>8
  <1>11. q[1] = Root /\ Last(q) = f
    <2>1. q[1] = c[m] /\ q[m + 1] = c[0]
      BY <1>8
    <2> HIDE DEF q
    <2> QED BY <2>1, <1>8, <1>10, <1>1 DEF Last, Climb
  <1>12. ASSUME NEW i \in 2 .. Len(q) PROVE q[i] # Root /\ parent[q[i]] = q[i - 1]
    <2>1. /\ (m + 1) - i \in 0 .. m /\ (m + 1) - i < m
          /\ (m + 1) - (i - 1) \in 1 .. Height
          /\ ((m + 1) - (i - 1)) - 1 = (m + 1) - i
      BY <1>8, <1>10
    <2>2. q[i] = c[(m + 1) - i] /\ q[i - 1] = c[(m + 1) - (i - 1)]
      BY <1>8, <1>10
    <2> HIDE DEF q
    <2>3. q[i] # Root /\ q[i] # Gone
      BY <2>1, <2>2, <1>7
    <2> QED BY <2>1, <2>2, <2>3, <1>1 DEF Climb
  <1>13. Range(q) = Above(f)
    <2>1. ASSUME NEW x \in Above(f) PROVE x \in Range(q)
      <3>1. PICK k \in 0 .. Height : x = c[k]
        BY <1>2
      <3>2. PICK j \in 0 .. m : x = c[j]
        BY <3>1, <1>6, <1>8
      <3>3. (m + 1) - j \in 1 .. m + 1 /\ (m + 1) - ((m + 1) - j) = j
        BY <1>8
      <3> QED BY <3>2, <3>3 DEF Range
    <2>2. ASSUME NEW i \in 1 .. m + 1 PROVE q[i] \in Above(f)
      <3>1. (m + 1) - i \in 0 .. m /\ (m + 1) - i \in 0 .. Height
        BY <1>8
      <3>2. q[i] \in Folders
        BY <3>1, <1>9
      <3> QED BY <3>1, <3>2, <1>2, TreeAssumption DEF Nodes
    <2>3. DOMAIN q = 1 .. m + 1
      OBVIOUS
    <2> HIDE DEF q
    <2> QED BY <2>1, <2>2, <2>3 DEF Range
  <1>14. Chain(q)
    <2> HIDE DEF q
    <2> QED BY <1>8, <1>10, <1>11, <1>12 DEF Chain, IsPath
  <1> HIDE DEF q
  <1> QED BY <1>11, <1>13, <1>14

\* A way through the tree goes through no folder twice, so it is no longer than there are
\* folders.
LEMMA ChainIsShort ==
  ASSUME NEW q, Chain(q)
  PROVE  Len(q) <= Cardinality(Folders)
  <1> DEFINE n == Len(q)
  <1>1. n \in Nat /\ q \in [1 .. n -> Folders]
    BY LenProperties DEF Chain, IsPath
  <1>2. ASSUME NEW i \in 1 .. n, NEW j \in 1 .. n, i < j, q[i] = q[j] PROVE FALSE
    <2> DEFINE S == {k \in 0 .. i - 1 : q[i - k] = q[j - k]}
    <2>1. 0 \in S
      BY <1>1, <1>2
    <2>2. ASSUME NEW k \in 0 .. (i - 1) - 1, k \in S PROVE k + 1 \in S
      <3>1. i - k \in 2 .. n /\ j - k \in 2 .. n /\ k + 1 \in 0 .. i - 1
        BY <1>1, <1>2
      <3>2. parent[q[i - k]] = q[(i - k) - 1] /\ parent[q[j - k]] = q[(j - k) - 1]
        BY <3>1 DEF Chain
      <3>3. (i - k) - 1 = i - (k + 1) /\ (j - k) - 1 = j - (k + 1)
        BY <1>1, <1>2
      <3> HIDE DEF n
      <3> QED BY <3>1, <3>2, <3>3, <2>2
    <2>3. 0 .. i - 1 \subseteq S
      <3>1. i - 1 \in Nat
        OBVIOUS
      <3> HIDE DEF S
      <3> QED BY <2>1, <2>2, <3>1, UpToClosed
    <2>4. i - 1 \in 0 .. i - 1 /\ i - (i - 1) = 1 /\ j - (i - 1) \in 2 .. n
      BY <1>1, <1>2
    <2>5. q[1] = q[j - (i - 1)]
      BY <2>3, <2>4
    <2> QED BY <2>4, <2>5 DEF Chain, IsPath
  <1>3. q \in Injection(1 .. n, Folders)
    <2>1. \A i, j \in 1 .. n : q[i] = q[j] => i = j
      BY <1>1, <1>2
    <2> HIDE DEF n
    <2> QED BY <1>1, <2>1 DEF Injection, IsInjective
  <1>4. Cardinality(1 .. n) = n
    BY <1>1, FS_Interval
  <1> HIDE DEF n
  <1>5. Cardinality(1 .. n) <= Cardinality(Folders)
    BY <1>3, TreeAssumption, FS_Injection
  <1> QED BY <1>4, <1>5 DEF n

-----------------------------------------------------------------------------
(* The inductive invariant.                                                *)

\* The paths the walk knows.
Known == {v.path : v \in out} \cup Range(pending) \cup {current}

\* Each was a way through the tree when it was found, with no snapshot folder on it; what
\* was not moved since is where it was.
TrailsKnown ==
  \A p \in Known : /\ Trail(p) /\ Range(p) \cap Snapshots = {}
                   /\ Len(p) <= Cardinality(Folders)

\* The walk starts with the root and nothing to come, and ends with nothing to come.
StartsAtRoot ==
  /\ pc \in {"root", "subroot"} => current = <<Root>> /\ pending = <<>>
  /\ pc = "done" => pending = <<>>

\* A folder that was scanned can be listed, unless it is moved or the listing fails for a
\* passing reason.
ScannedIsOpen == \A v \in out : v.verdict = "scanned" => Real(v.path) \notin closed

\* What is listed for its subfolders has been visited.
VisitedBefore == pc \in {"subroot", "subfolders"} => \E v \in out : v.path = current

\* A step of the way q is still to be visited, or its subfolders to be listed.
Coming(q) ==
  \E i \in 1 .. Len(q) :
    \/ SubSeq(q, 1, i) \in Range(pending)
    \/ pc \in {"scan", "subroot", "subfolders"} /\ current = SubSeq(q, 1, i)

\* The folder at the end of q has been visited, or one on the way was skipped.
Told(q) ==
  \/ \E v \in out : v.path = q
  \/ \E v \in out, i \in 1 .. Len(q) : v.path = SubSeq(q, 1, i) /\ v.verdict = "skipped"

\* A way that was there all along, that a scan enters and of which no listing left out a step.
Lasting(q) ==
  Chain(q) /\ \A i \in 1 .. Len(q) : q[i] \notin moved \cup Snapshots \cup unseen

\* Such a way is being followed, or what is at its end is reported.
Followed == pc \notin {"root", "failed"} => \A q : Lasting(q) => Told(q) \/ Coming(q)

Inv ==
  /\ TypeOK /\ pending \in Seq(Seq(Folders)) /\ TrailsKnown /\ StartsAtRoot /\ ScannedIsOpen
  /\ VisitedBefore /\ Followed

-----------------------------------------------------------------------------
(* What a step does to the paths.                                          *)

\* A way through the tree goes on to a subfolder of its end.
LEMMA ChainExtends ==
  ASSUME NEW p, Chain(p), NEW n \in Subfolders(p)
  PROVE  /\ Chain(Append(p, n)) /\ Range(Append(p, n)) = Range(p) \cup {n}
         /\ n \in Folders \ Snapshots
  <1> DEFINE q == Append(p, n)
  <1>1. n \in Folders /\ n # Root /\ n \notin Snapshots /\ parent[n] = p[Len(p)]
    BY LastOfPath DEF Subfolders, Chain
  <1>2. p \in Seq(Folders) /\ Len(p) \in Nat /\ Len(p) > 0 /\ DOMAIN p = 1 .. Len(p)
    BY LenProperties DEF Chain, IsPath
  <1>3. /\ q \in Seq(Folders) /\ Len(q) = Len(p) + 1 /\ DOMAIN q = 1 .. Len(p) + 1
        /\ \A i \in 1 .. Len(p) : q[i] = p[i]
        /\ q[Len(p) + 1] = n
    BY <1>1, <1>2, AppendProperties, LenProperties
  <1> HIDE DEF q
  <1>4. \A i \in 2 .. Len(p) : p[i] # Root /\ parent[p[i]] = p[i - 1]
    BY DEF Chain, IsPath
  <1>5. ASSUME NEW i \in 2 .. Len(q) PROVE q[i] # Root /\ parent[q[i]] = q[i - 1]
    <2>1. CASE i \in 2 .. Len(p)
      <3>1. i \in 1 .. Len(p) /\ i - 1 \in 1 .. Len(p)
        BY <1>2, <2>1
      <3> QED BY <3>1, <2>1, <1>3, <1>4
    <2>2. CASE i = Len(p) + 1
      <3>1. i - 1 = Len(p) /\ Len(p) \in 1 .. Len(p)
        BY <1>2, <2>2
      <3> QED BY <3>1, <2>2, <1>1, <1>3
    <2> QED BY <1>2, <1>3, <2>1, <2>2
  <1>6. IsPath(q)
    <2>1. q[1] = p[1]
      BY <1>2, <1>3
    <2> QED BY <1>2, <1>3, <1>5, <2>1 DEF IsPath, Chain
  <1>7. Range(q) = Range(p) \cup {n}
    <2>1. \A x : x \in Range(q) <=> x \in Range(p) \/ x = n
      BY <1>2, <1>3 DEF Range
    <2> QED BY <2>1
  <1> QED BY <1>1, <1>5, <1>6, <1>7 DEF Chain, q

\* What a listing leaves on the stack for the folders it found.
LEMMA Pushed ==
  ASSUME NEW stack \in Seq(Seq(Folders)), Chain(current),
         NEW sub \in SUBSET Subfolders(current), pending' = stack \o PathsTo(sub)
  PROVE  /\ pending' \in Seq(Seq(Folders))
         /\ Range(pending') = Range(stack) \cup {Append(current, n) : n \in sub}
  <1> DEFINE list == SetToSeq(sub)
             new == [i \in DOMAIN list |-> Append(current, list[i])]
  <1>1. sub \subseteq Folders
    BY DEF Subfolders
  <1>2. IsFiniteSet(sub)
    BY <1>1, TreeAssumption, FS_Subset
  <1>3. list \in Seq(sub) /\ Range(list) = sub
    BY <1>2, SetToSeqLists
  <1> HIDE DEF list
  <1>4. Len(list) \in Nat /\ DOMAIN list = 1 .. Len(list) /\ \A i \in DOMAIN list : list[i] \in sub
    BY <1>3, LenProperties, ElementOfSeq
  <1>5. current \in Seq(Folders)
    BY DEF Chain, IsPath
  <1>6. \A i \in DOMAIN list : Append(current, list[i]) \in Seq(Folders)
    BY <1>1, <1>4, <1>5, AppendProperties
  <1>7. new \in Seq(Seq(Folders)) /\ DOMAIN new = DOMAIN list
    BY <1>4, <1>6
  <1>8. Range(new) = {Append(current, n) : n \in sub}
    <2>1. \A n \in sub : \E i \in DOMAIN list : list[i] = n
      BY <1>3 DEF Range
    <2>2. \A x : x \in Range(new) <=> \E n \in sub : x = Append(current, n)
      BY <1>4, <2>1 DEF Range
    <2> QED BY <2>2
  <1>9. pending' = stack \o new
    BY DEF new, list, PathsTo
  <1> HIDE DEF new
  <1>10. pending' \in Seq(Seq(Folders)) /\ Range(pending') = Range(stack) \cup Range(new)
    <2>1. PICK S : S = Seq(Folders)
      OBVIOUS
    <2>2. stack \in Seq(S) /\ new \in Seq(S)
      BY <1>7, <2>1
    <2>3. stack \o new \in Seq(S) /\ Range(stack \o new) = Range(stack) \cup Range(new)
      BY ONLY <2>2, ConcatProperties, RangeConcatenation
    <2> QED BY <1>9, <2>1, <2>3
  <1> QED BY <1>8, <1>10

\* A listing adds ways through the tree to the stack, or nothing.
LEMMA PushOutcome ==
  ASSUME Inv, NEW stack \in Seq(Seq(Folders)), Push(stack)
  PROVE  /\ pending' \in Seq(Seq(Folders))
         /\ Range(stack) \subseteq Range(pending')
         /\ \A p \in Range(pending') \ Range(stack) :
              Chain(p) /\ Range(p) \cap Snapshots = {} /\ Len(p) <= Cardinality(Folders)
         /\ faults' \in 0 .. MaxFaults /\ unseen \subseteq unseen' /\ unseen' \subseteq Folders
         /\ \/ ~CanList(current)
            \/ \A n \in Subfolders(current) \ unseen' : Append(current, n) \in Range(pending')
  <1>1. IsPath(current) /\ Range(current) \cap Snapshots = {}
    BY DEF Inv, TrailsKnown, Known, Trail
  <1>2. faults \in 0 .. MaxFaults /\ MaxFaults \in Nat /\ unseen \subseteq Folders
    BY TreeAssumption DEF Inv, TypeOK
  <1>3. CASE ~CanList(current) /\ pending' = stack /\ UNCHANGED faultVars
    BY <1>2, <1>3 DEF faultVars
  <1>4. ASSUME CanList(current), NEW lost \in SUBSET Subfolders(current),
               \/ lost = {} /\ UNCHANGED faults
               \/ lost # {} /\ faults < MaxFaults /\ faults' = faults + 1,
               unseen' = unseen \cup lost,
               pending' = stack \o PathsTo(Subfolders(current) \ lost)
        PROVE  /\ pending' \in Seq(Seq(Folders))
               /\ Range(stack) \subseteq Range(pending')
               /\ \A p \in Range(pending') \ Range(stack) :
                    Chain(p) /\ Range(p) \cap Snapshots = {} /\ Len(p) <= Cardinality(Folders)
               /\ faults' \in 0 .. MaxFaults /\ unseen \subseteq unseen' /\ unseen' \subseteq Folders
               /\ \A n \in Subfolders(current) \ unseen' : Append(current, n) \in Range(pending')
    <2>1. Chain(current)
      BY <1>1, <1>4, InPlaceIsChain DEF CanList
    <2>2. /\ pending' \in Seq(Seq(Folders))
          /\ Range(pending') =
               Range(stack) \cup {Append(current, n) : n \in Subfolders(current) \ lost}
      BY <1>4, <2>1, Pushed
    <2>3. ASSUME NEW n \in Subfolders(current)
          PROVE  LET p == Append(current, n)
                 IN  Chain(p) /\ Range(p) \cap Snapshots = {} /\ Len(p) <= Cardinality(Folders)
      <3>1. Chain(Append(current, n)) /\ Range(Append(current, n)) = Range(current) \cup {n}
            /\ n \notin Snapshots
        BY <2>1, ChainExtends
      <3> QED BY <3>1, <1>1, ChainIsShort
    <2>4. faults' \in 0 .. MaxFaults
      BY <1>2, <1>4
    <2>5. unseen \subseteq unseen' /\ unseen' \subseteq Folders
      BY <1>2, <1>4 DEF Subfolders
    <2>6. \A n \in Subfolders(current) \ unseen' : Append(current, n) \in Range(pending')
      BY <1>4, <2>2
    <2> QED BY <2>2, <2>3, <2>4, <2>5, <2>6
  <1> QED BY <1>3, <1>4 DEF Push

LEMMA PrefixExtends ==
  ASSUME NEW q, IsPath(q), NEW i \in 1 .. Len(q) - 1
  PROVE  SubSeq(q, 1, i + 1) = Append(SubSeq(q, 1, i), q[i + 1])
  <1>1. q \in Seq(Folders) /\ Len(q) \in Nat /\ i + 1 \in 1 .. Len(q) /\ 1 \in 1 .. Len(q)
        /\ i \in 1 .. Len(q) /\ (i + 1) - 1 = i /\ i + 1 \in 1 .. Len(q) /\ 1 <= i + 1
    BY LenProperties DEF IsPath
  <1>2. SubSeq(q, 1, i + 1) = SubSeq(q, 1, i) \o <<q[i + 1]>>
    BY <1>1, SubSeqRecursiveSecond
  <1>3. SubSeq(q, 1, i) \in Seq(Folders) /\ q[i + 1] \in Folders
    BY <1>1, Prefix, ElementOfSeq DEF IsPath
  <1> QED BY <1>2, <1>3, AppendIsConcat

LEMMA PathRange ==
  ASSUME NEW p, IsPath(p)
  PROVE  Range(p) \subseteq Folders /\ \A i \in 1 .. Len(p) : p[i] \in Range(p)
  <1>1. p \in Seq(Folders) /\ DOMAIN p = 1 .. Len(p)
    BY LenProperties DEF IsPath
  <1> QED BY <1>1, ElementOfSeq DEF Range

\* The root alone is a way through the tree.
LEMMA RootPath ==
  /\ IsPath(<<Root>>) /\ Chain(<<Root>>) /\ Trail(<<Root>>) /\ Range(<<Root>>) = {Root}
  /\ Len(<<Root>>) = 1 /\ Len(<<Root>>) <= Cardinality(Folders)
  <1>1. <<Root>> \in Seq(Folders) /\ Len(<<Root>>) = 1 /\ <<Root>>[1] = Root
        /\ DOMAIN <<Root>> = {1}
    BY TreeAssumption
  <1>2. IsPath(<<Root>>) /\ Chain(<<Root>>) /\ Trail(<<Root>>)
    BY <1>1 DEF IsPath, Chain, Trail
  <1>3. Range(<<Root>>) = {Root}
    BY <1>1 DEF Range
  <1> QED BY <1>1, <1>2, <1>3, ChainIsShort

\* A step of the walk knows no more paths than before, but for ways through the tree.
LEMMA WalkTrails ==
  ASSUME Inv, UNCHANGED treeVars,
         \A p \in Known' \ Known :
           Chain(p) /\ Range(p) \cap Snapshots = {} /\ Len(p) <= Cardinality(Folders)
  PROVE  TrailsKnown'
  <1>1. \A p : (Trail(p) <=> Trail(p)') /\ (Chain(p) => Trail(p))
    BY DEF treeVars, Trail, Chain
  <1>2. \A p \in Known' : Trail(p) /\ Range(p) \cap Snapshots = {} /\ Len(p) <= Cardinality(Folders)
    BY <1>1 DEF Inv, TrailsKnown
  <1> QED BY <1>1, <1>2 DEF TrailsKnown

\* What TypeOK says of the paths follows.
LEMMA PathsTyped ==
  ASSUME TrailsKnown', pending' \in Seq(Seq(Folders))
  PROVE  /\ \A v \in out' : Range(v.path) \subseteq Nodes \ Snapshots
         /\ \A i \in DOMAIN pending' : Len(pending'[i]) <= Cardinality(Folders)
  <1>1. \A p \in Known' : IsPath(p) /\ Range(p) \subseteq Nodes \ Snapshots
                          /\ Len(p) <= Cardinality(Folders)
    BY PathRange DEF TrailsKnown, Trail, Nodes
  <1> QED BY <1>1 DEF Known, Range

\* An entry of the report more.
LEMMA Reports ==
  ASSUME Inv, NEW verdict \in {"scanned", "skipped"}, Visited(verdict),
         UNCHANGED <<treeVars, pending, current, unseen>>, faults' \in 0 .. MaxFaults,
         verdict = "scanned" => CanList(current),
         pc' \in {"subroot", "subfolders"}, pc' = "subroot" => pc = "root", pc # "failed",
         pc \in {"root", "scan"}, pc = "root" => \A q : Lasting(q) => current = SubSeq(q, 1, 1)
  PROVE  Inv'
  <1>1. Known' = Known
    <2>1. \A p : p \in Known' <=> p \in Known
      BY DEF Known, Visited
    <2> QED BY <2>1
  <1>2. TrailsKnown'
    BY <1>1, WalkTrails
  <1>3. pending' \in Seq(Seq(Folders))
    BY DEF Inv
  <1>4. TypeOK'
    BY <1>2, <1>3, PathsTyped DEF Inv, TypeOK, Visited, treeVars
  <1>5. StartsAtRoot'
    BY DEF Inv, StartsAtRoot
  <1>6. ScannedIsOpen'
    <2>1. ASSUME NEW v \in out', v.verdict = "scanned" PROVE Real(v.path) \notin closed'
      <3>1. CASE v \in out
        BY <2>1, <3>1 DEF Inv, ScannedIsOpen, treeVars
      <3>2. CASE v = [path |-> current, verdict |-> verdict]
        BY <2>1, <3>2 DEF CanList, treeVars
      <3> QED BY <3>1, <3>2 DEF Visited
    <2> QED BY <2>1 DEF ScannedIsOpen, Real
  <1>7. VisitedBefore'
    <2> DEFINE v == [path |-> current, verdict |-> verdict]
    <2>1. v \in out' /\ v.path = current'
      BY DEF Visited
    <2> HIDE DEF v
    <2> QED BY <2>1 DEF VisitedBefore
  <1>8. Followed'
    <2> SUFFICES ASSUME NEW q, Lasting(q)' PROVE (Told(q) \/ Coming(q))'
      BY DEF Followed
    <2>1. Lasting(q)
      BY DEF Lasting, Chain, treeVars
    <2>2. 1 \in 1 .. Len(q)
      BY <2>1, LenProperties DEF Lasting, Chain, IsPath
    <2>3. CASE pc = "root"
      BY <2>1, <2>2, <2>3 DEF Coming
    <2>4. CASE pc = "scan"
      <3>1. Told(q) \/ Coming(q)
        BY <2>1, <2>4 DEF Inv, Followed
      <3>2. Told(q) => Told(q)'
        BY DEF Told, Visited
      <3>3. Coming(q) => Coming(q)'
        BY <2>4 DEF Coming
      <3> QED BY <3>1, <3>2, <3>3
    <2> QED BY <2>3, <2>4
  <1> QED BY <1>2, <1>3, <1>4, <1>5, <1>6, <1>7, <1>8 DEF Inv

\* A listing of subfolders.
LEMMA Lists ==
  ASSUME Inv, pc \in {"subroot", "subfolders"}, Push(pending), pc' = "pop",
         UNCHANGED <<treeVars, current, out>>
  PROVE  Inv'
  <1>1. /\ pending' \in Seq(Seq(Folders))
        /\ Range(pending) \subseteq Range(pending')
        /\ \A p \in Range(pending') \ Range(pending) :
             Chain(p) /\ Range(p) \cap Snapshots = {} /\ Len(p) <= Cardinality(Folders)
        /\ faults' \in 0 .. MaxFaults /\ unseen \subseteq unseen' /\ unseen' \subseteq Folders
        /\ \/ ~CanList(current)
           \/ \A n \in Subfolders(current) \ unseen' : Append(current, n) \in Range(pending')
    BY PushOutcome DEF Inv
  <1>2. TrailsKnown'
    BY <1>1, WalkTrails DEF Known
  <1>3. TypeOK'
    BY <1>1, <1>2, PathsTyped DEF Inv, TypeOK, treeVars
  <1>4. StartsAtRoot' /\ VisitedBefore'
    BY DEF StartsAtRoot, VisitedBefore
  <1>5. ScannedIsOpen'
    BY DEF Inv, ScannedIsOpen, treeVars, Real
  <1>6. Followed'
    <2> SUFFICES ASSUME NEW q, Lasting(q)' PROVE (Told(q) \/ Coming(q))'
      BY DEF Followed
    <2>1. Lasting(q) /\ IsPath(q)
      BY <1>1 DEF Lasting, Chain, treeVars
    <2>2. Told(q) \/ Coming(q)
      BY <2>1 DEF Inv, Followed
    <2>3. CASE Told(q)
      BY <2>3 DEF Told
    <2>4. CASE \E i \in 1 .. Len(q) : SubSeq(q, 1, i) \in Range(pending)
      BY <2>4, <1>1 DEF Coming
    <2>5. ASSUME NEW i \in 1 .. Len(q), current = SubSeq(q, 1, i)
          PROVE  (Told(q) \/ Coming(q))'
      <3>1. PICK v \in out : v.path = current
        BY DEF Inv, VisitedBefore
      <3>2. q \in Seq(Folders) /\ Len(q) \in Nat
        BY <2>1, LenProperties DEF IsPath
      <3>3. CASE i = Len(q)
        <4>1. current = q
          BY <2>5, <3>2, <3>3, SubSeqFull
        <4> QED BY <3>1, <4>1 DEF Told
      <3>4. CASE i # Len(q)
        <4>1. i \in 1 .. Len(q) - 1 /\ i + 1 \in 2 .. Len(q) /\ (i + 1) - 1 = i
              /\ i + 1 \in 1 .. Len(q)
          BY <3>2, <3>4
        <4>2. /\ IsPath(current) /\ Len(current) = i /\ Real(current) = q[i]
              /\ \A j \in 1 .. i : current[j] = q[j]
          BY <2>1, <2>5, Prefix
        <4>3. Chain(current)
          <5>1. ASSUME NEW j \in 2 .. i PROVE parent[current[j]] = current[j - 1]
            <6>1. j \in 1 .. i /\ j - 1 \in 1 .. i /\ j \in 2 .. Len(q)
              BY <4>1
            <6> QED BY <6>1, <4>2, <2>1 DEF Lasting, Chain
          <5> QED BY <4>2, <5>1 DEF Chain
        <4>4. CASE ~CanList(current)
          <5>1. Real(current) \in closed
            BY <4>2, <4>3, <4>4, InPlaceIsChain DEF CanList
          <5>2. v.verdict = "skipped"
            BY <3>1, <5>1 DEF Inv, ScannedIsOpen, TypeOK
          <5> QED BY <2>5, <3>1, <5>2 DEF Told
        <4>5. CASE \A n \in Subfolders(current) \ unseen' : Append(current, n) \in Range(pending')
          <5>1. q[i + 1] \in Subfolders(current)
            <6>1. q[i + 1] # Root /\ parent[q[i + 1]] = q[i] /\ q[i + 1] \notin Snapshots
              BY <2>1, <4>1 DEF Lasting, Chain, IsPath
            <6>2. q[i + 1] \in Folders
              BY <3>2, <4>1, ElementOfSeq
            <6> QED BY <6>1, <6>2, <4>2 DEF Subfolders
          <5>2. q[i + 1] \notin unseen'
            BY <4>1 DEF Lasting
          <5>3. SubSeq(q, 1, i + 1) \in Range(pending')
            BY <2>1, <2>5, <4>1, <4>5, <5>1, <5>2, PrefixExtends
          <5> QED BY <4>1, <5>3 DEF Coming
        <4> QED BY <1>1, <4>4, <4>5
      <3> QED BY <3>3, <3>4
    <2> QED BY <2>2, <2>3, <2>4, <2>5 DEF Coming
  <1> QED BY <1>1, <1>2, <1>3, <1>4, <1>5, <1>6 DEF Inv

-----------------------------------------------------------------------------
(* The invariant holds.                                                    *)

LEMMA InitInv == Init => Inv
  <1> SUFFICES ASSUME Init PROVE Inv OBVIOUS
  <1>1. pending = <<>> /\ current = <<Root>> /\ out = {} /\ pc = "root"
    BY DEF Init
  <1>2. TypeOK
    <2>1. parent \in [Nodes \ {Root} -> Folders \cup {Gone}]
      BY TreeAssumption DEF Init
    <2>2. closed \cup moved \cup unseen \subseteq Folders /\ faults \in 0 .. MaxFaults
      BY TreeAssumption DEF Init
    <2> QED BY <1>1, <2>1, <2>2 DEF TypeOK
  <1>3. pending \in Seq(Seq(Folders))
    BY <1>1, EmptySeq
  <1>4. Known = {<<Root>>}
    BY <1>1 DEF Known, Range
  <1>5. TrailsKnown
    BY <1>4, RootPath, TreeAssumption DEF TrailsKnown
  <1>6. StartsAtRoot /\ ScannedIsOpen /\ VisitedBefore /\ Followed
    BY <1>1 DEF StartsAtRoot, ScannedIsOpen, VisitedBefore, Followed
  <1> QED BY <1>2, <1>3, <1>5, <1>6 DEF Inv

LEMMA NextInv == Inv /\ [Next]_vars => Inv'
  <1> SUFFICES ASSUME Inv, [Next]_vars PROVE Inv' OBVIOUS
  <1> USE DEF Go
  <1>0. faults \in 0 .. MaxFaults /\ MaxFaults \in Nat
    BY TreeAssumption DEF Inv, TypeOK
  <1>1. CASE ScanRoot
    <2> USE <1>1 DEF ScanRoot
    <2>1. current = <<Root>>
      BY DEF Inv, StartsAtRoot
    <2>2. CASE CanList(current) /\ Visited("scanned") /\ pc' = "subroot" /\ UNCHANGED faults
      <3>1. ASSUME NEW q, Lasting(q) PROVE current = SubSeq(q, 1, 1)
        <4>1. IsPath(q) /\ 1 \in 1 .. Len(q)
          BY <3>1, LenProperties DEF Lasting, Chain, IsPath
        <4>2. IsPath(SubSeq(q, 1, 1)) /\ Len(SubSeq(q, 1, 1)) = 1
          BY <4>1, Prefix
        <4>3. SubSeq(q, 1, 1)[1] = Root
          BY <4>2 DEF IsPath
        <4> HIDE DEF ScanRoot
        <4>4. \A i \in 1 .. 1 : SubSeq(q, 1, 1)[i] = <<Root>>[i]
          BY <4>3
        <4>5. SubSeq(q, 1, 1) \in Seq(Folders) /\ <<Root>> \in Seq(Folders)
              /\ Len(SubSeq(q, 1, 1)) = Len(<<Root>>)
          BY <4>2, RootPath DEF IsPath
        <4> QED BY <4>2, <4>4, <4>5, <2>1, SeqEqual
      <3> QED BY <1>0, <2>2, <3>1, Reports
    <2>3. CASE pc' = "failed" /\ UNCHANGED out /\ faults' \in 0 .. MaxFaults
      <3>1. TrailsKnown'
        BY <2>3, WalkTrails DEF Known
      <3>2. TypeOK'
        BY <2>3 DEF Inv, TypeOK, treeVars
      <3>3. StartsAtRoot' /\ VisitedBefore' /\ Followed'
        BY <2>3 DEF StartsAtRoot, VisitedBefore, Followed
      <3>4. ScannedIsOpen'
        BY <2>3 DEF Inv, ScannedIsOpen, Real, treeVars
      <3> QED BY <3>1, <3>2, <3>3, <3>4 DEF Inv
    <2> QED BY <1>0, <2>2, <2>3
  <1>2. CASE SubRoot
    <2>1. pending = <<>> /\ pc = "subroot"
      BY <1>2 DEF SubRoot, Inv, StartsAtRoot
    <2>2. Push(pending)
      BY <1>2, <2>1 DEF SubRoot
    <2> QED BY <1>2, <2>1, <2>2, Lists DEF SubRoot
  <1>3. CASE Pop
    <2> USE <1>3 DEF Pop
    <2>1. CASE pending = <<>> /\ pc' = "done" /\ UNCHANGED <<pending, current>>
      <3>1. TrailsKnown'
        BY <2>1, WalkTrails DEF Known
      <3>2. TypeOK'
        BY <2>1 DEF Inv, TypeOK, treeVars, faultVars
      <3>3. StartsAtRoot' /\ VisitedBefore'
        BY <2>1 DEF StartsAtRoot, VisitedBefore
      <3>4. ScannedIsOpen'
        BY <2>1 DEF Inv, ScannedIsOpen, Real, treeVars
      <3>5. Followed'
        <4> SUFFICES ASSUME NEW q, Lasting(q)' PROVE Told(q)'
          BY DEF Followed
        <4>1. Lasting(q)
          BY DEF Lasting, Chain, treeVars, faultVars
        <4>2. ~Coming(q)
          BY <2>1 DEF Coming, Range
        <4> QED BY <4>1, <4>2 DEF Inv, Followed, Told
      <3> QED BY <2>1, <3>1, <3>2, <3>3, <3>4, <3>5 DEF Inv
    <2>2. CASE /\ pending # <<>> /\ pc' = "scan"
               /\ current' = Last(pending) /\ pending' = Front(pending)
      <3> DEFINE n == Len(pending)
      <3>1. pending \in Seq(Seq(Folders)) /\ n \in Nat /\ n > 0 /\ DOMAIN pending = 1 .. n
        BY <2>2, EmptySeq, LenProperties DEF Inv
      <3>2. pending'  \in Seq(Seq(Folders)) /\ DOMAIN pending' = 1 .. n - 1
            /\ \A i \in 1 .. n - 1 : pending'[i] = pending[i]
        <4>1. \A i \in 1 .. n - 1 : pending[i] \in Seq(Folders)
          BY <3>1, ElementOfSeq
        <4>2. /\ SubSeq(pending, 1, n - 1) \in Seq(Seq(Folders))
              /\ Len(SubSeq(pending, 1, n - 1)) = n - 1
              /\ \A i \in 1 .. n - 1 : SubSeq(pending, 1, n - 1)[i] = pending[i]
          BY <3>1, <4>1, SubSeqProperties
        <4>3. DOMAIN SubSeq(pending, 1, n - 1) = 1 .. n - 1
          BY <4>2, LenProperties
        <4> QED BY <2>2, <4>2, <4>3 DEF Front
      <3>3. current' = pending[n] /\ n \in 1 .. n
        BY <2>2, <3>1 DEF Last
      <3> HIDE DEF n
      <3>4. Range(pending) = Range(pending') \cup {current'}
        <4>1. ASSUME NEW i \in 1 .. n PROVE pending[i] \in Range(pending') \cup {current'}
          <5>1. CASE i \in 1 .. n - 1
            BY <3>2, <5>1 DEF Range
          <5>2. CASE i = n
            BY <3>3, <5>2
          <5> QED BY <3>1, <5>1, <5>2
        <4>2. ASSUME NEW i \in 1 .. n - 1 PROVE pending'[i] \in Range(pending)
          <5>1. i \in 1 .. n
            BY <3>1
          <5> QED BY <3>1, <3>2, <5>1 DEF Range
        <4> QED BY <3>1, <3>2, <3>3, <4>1, <4>2 DEF Range
      <3>5. TrailsKnown'
        BY <3>4, WalkTrails DEF Known
      <3>6. TypeOK'
        BY <2>2, <3>2, <3>5, PathsTyped DEF Inv, TypeOK, treeVars, faultVars
      <3>7. StartsAtRoot' /\ VisitedBefore'
        BY <2>2 DEF StartsAtRoot, VisitedBefore
      <3>8. ScannedIsOpen'
        BY DEF Inv, ScannedIsOpen, Real, treeVars
      <3>9. Followed'
        <4> SUFFICES ASSUME NEW q, Lasting(q)' PROVE (Told(q) \/ Coming(q))'
          BY DEF Followed
        <4>1. Lasting(q)
          BY DEF Lasting, Chain, treeVars, faultVars
        <4>2. Told(q) => Told(q)'
          BY DEF Told
        <4>3. Coming(q) => Coming(q)'
          BY <2>2, <3>4 DEF Coming
        <4> QED BY <4>1, <4>2, <4>3 DEF Inv, Followed
      <3> QED BY <3>2, <3>5, <3>6, <3>7, <3>8, <3>9 DEF Inv
    <2> QED BY <2>1, <2>2 DEF Popped
  <1>4. CASE ScanFolder
    <2>1. \E verdict \in {"scanned", "skipped"} :
            /\ Visited(verdict) /\ (verdict = "scanned" => CanList(current))
            /\ faults' \in 0 .. MaxFaults
      BY <1>0, <1>4 DEF ScanFolder, Report
    <2> QED BY <1>4, <2>1, Reports DEF ScanFolder
  <1>5. CASE SubFolder
    BY <1>5, Lists DEF SubFolder
  <1>6. CASE Change
    <2>1. PICK f \in Folders \ {Root}, g \in Folders \cup {Gone} :
            parent' = [parent EXCEPT ![f] = g] /\ moved' = moved \cup {f}
      BY <1>6 DEF Change
    <2>2. UNCHANGED <<closed, pc, pending, current, out, faults, unseen>>
      BY <1>6 DEF Change, faultVars
    <2>3. \A n : n # f => parent'[n] = parent[n]
      BY <2>1 DEF Inv, TypeOK
    <2>4. TypeOK'
      BY <2>1, <2>2 DEF Inv, TypeOK
    <2>5. TrailsKnown'
      <3>1. \A p : Trail(p) => Trail(p)'
        BY <2>1, <2>3 DEF Trail
      <3> QED BY <2>2, <3>1 DEF Inv, TrailsKnown, Known
    <2>6. Followed'
      <3> SUFFICES ASSUME pc' \notin {"root", "failed"}, NEW q, Lasting(q)'
                   PROVE  (Told(q) \/ Coming(q))'
        BY DEF Followed
      <3>1. Chain(q)
        <4>1. IsPath(q) /\ \A i \in 2 .. Len(q) : parent'[q[i]] = q[i - 1]
          BY DEF Lasting, Chain
        <4>2. \A i \in 1 .. Len(q) : q[i] # f
          BY <2>1 DEF Lasting
        <4>3. \A i \in 2 .. Len(q) : i \in 1 .. Len(q)
          OBVIOUS
        <4> QED BY <2>3, <4>1, <4>2, <4>3 DEF Chain
      <3>2. Lasting(q)
        BY <2>1, <2>2, <3>1 DEF Lasting
      <3>3. Told(q) \/ Coming(q)
        BY <2>2, <3>2 DEF Inv, Followed
      <3>4. (Told(q) => Told(q)') /\ (Coming(q) => Coming(q)')
        BY <2>2 DEF Told, Coming
      <3> QED BY <3>3, <3>4
    <2>7. StartsAtRoot' /\ ScannedIsOpen' /\ VisitedBefore'
      BY <2>2 DEF Inv, StartsAtRoot, ScannedIsOpen, VisitedBefore, Real
    <2> QED BY <2>2, <2>4, <2>5, <2>6, <2>7 DEF Inv
  <1>7. CASE UNCHANGED vars
    <2>1. UNCHANGED <<parent, closed, pc, pending, current, out, moved, faults, unseen>>
      BY <1>7 DEF vars
    <2>2. TypeOK' /\ TrailsKnown' /\ StartsAtRoot' /\ ScannedIsOpen' /\ VisitedBefore'
      BY <2>1 DEF Inv, TypeOK, TrailsKnown, Known, Trail, StartsAtRoot, ScannedIsOpen,
                  VisitedBefore, Real
    <2>3. Followed'
      BY <2>1 DEF Inv, Followed, Lasting, Chain, Told, Coming
    <2> QED BY <2>1, <2>2, <2>3 DEF Inv
  <1> QED
    BY <1>1, <1>2, <1>3, <1>4, <1>5, <1>6, <1>7 DEF Next, Walk

LEMMA Invariance == Spec => []Inv
  BY InitInv, NextInv, PTL DEF Spec

-----------------------------------------------------------------------------
(* The theorems.                                                           *)

\* Every variable stays in its set; no path the walk is to visit goes through a folder twice,
\* nor through a snapshot folder (scan.rs, subfolders).
THEOREM ScanTypes == Spec => []TypeOK
  <1>1. Inv => TypeOK
    BY DEF Inv
  <1> QED BY <1>1, Invariance, PTL

\* A folder that stayed where it was is visited under one path, whatever links lead to it and
\* whatever is moved meanwhile (scan.rs, subfolders).
THEOREM NoFolderTwice == Spec => []VisitedOnce
  <1>1. Inv => VisitedOnce
    <2> SUFFICES ASSUME Inv, NEW v \in out, NEW w \in out, Real(v.path) = Real(w.path),
                        Stable(Real(v.path))
                 PROVE  v.path = w.path
      BY DEF VisitedOnce
    <2>1. Trail(v.path) /\ Trail(w.path)
      BY DEF Inv, TrailsKnown, Known
    <2>2. Real(v.path) \in Folders /\ Real(v.path) = Last(v.path) /\ Last(w.path) = Last(v.path)
      BY <2>1, LastOfPath DEF Trail
    <2>3. ParentOK
      BY DEF Inv, TypeOK, ParentOK
    <2>4. PICK q : Chain(q) /\ Last(q) = Real(v.path) /\ Range(q) = Above(Real(v.path))
      BY <2>2, <2>3, StableChain DEF Stable
    <2>5. \A i \in 1 .. Len(q) : q[i] \notin moved
      BY <2>4, PathRange DEF Chain, Stable
    <2>6. v.path = q /\ w.path = q
      BY <2>1, <2>2, <2>4, <2>5, OneWay
    <2> QED BY <2>6
  <1> QED BY <1>1, Invariance, PTL

\* When the scan ends, a folder that stayed where it was has been scanned, or it or one above
\* it is reported as skipped, unless the second listing of the folder that holds the one or
\* the other left it out (scan.rs, scan_tree).
THEOREM NothingIsMissedSilently == Spec => []MissedIsReported
  <1>1. Inv => MissedIsReported
    <2> SUFFICES ASSUME Inv, pc = "done", NEW f \in ToReport, Above(f) \cap unseen = {}
                 PROVE  Reported(f)
      BY DEF MissedIsReported
    <2>1. f \in Folders /\ Stable(f) /\ Above(f) \cap Snapshots = {}
      BY DEF ToReport
    <2>2. ParentOK
      BY DEF Inv, TypeOK, ParentOK
    <2>3. PICK q : Chain(q) /\ Last(q) = f /\ Range(q) = Above(f)
      BY <2>1, <2>2, StableChain DEF Stable
    <2>4. IsPath(q) /\ \A i \in 1 .. Len(q) : q[i] \in Above(f)
      BY <2>3, PathRange DEF Chain
    <2>5. Lasting(q)
      BY <2>1, <2>3, <2>4 DEF Lasting, Stable
    <2>6. CASE \E v \in out : v.path = q
      BY <2>3, <2>4, <2>6, LastOfPath DEF Reported
    <2>7. CASE \E v \in out, i \in 1 .. Len(q) :
                 v.path = SubSeq(q, 1, i) /\ v.verdict = "skipped"
      <3>1. PICK v \in out, i \in 1 .. Len(q) :
              v.path = SubSeq(q, 1, i) /\ v.verdict = "skipped"
        BY <2>7
      <3>2. Real(v.path) = q[i]
        BY <2>4, <3>1, Prefix
      <3> QED BY <2>4, <3>1, <3>2 DEF Reported
    <2>8. ~Coming(q)
      <3>1. pending = <<>>
        BY DEF Inv, StartsAtRoot
      <3> QED BY <3>1 DEF Coming, Range
    <2> QED BY <2>5, <2>6, <2>7, <2>8 DEF Inv, Followed, Told
  <1> QED BY <1>1, Invariance, PTL
-----------------------------------------------------------------------------
(* The documents.  The numbers of a file are an interval that starts at     *)
(* its own, the intervals of two files are disjoint, and those of all the   *)
(* files cover every number there is.  So what a merge absorbs is again an  *)
(* interval; and as long as every merge ends at the newest file, the names  *)
(* of a history are those of the files up to its own.                       *)

Entry == [num : 0 .. last, folder : {Folder, NoFolder}, name : Names]

FileOK(f) ==
  /\ f.num \in 0 .. last /\ f.name \in Names
  /\ f.hist \subseteq Entry /\ f.paths \subseteq [folder : {Folder, NoFolder}, name : Names]
  /\ \E t \in 0 .. last : f.num <= t /\ D!Owned(f) = f.num .. t
  /\ \A e, d \in f.hist : e.num = d.num => e = d
  /\ \E e \in f.hist : e.num = f.num /\ e.name = f.name
  /\ \A p \in f.paths : p.name = f.name
  /\ f.merged # {} => \A e \in f.hist \cup f.paths : e.folder = NoFolder
  /\ f.num = 0 => f.size = "device"

Apart ==
  \A f, g \in dir : /\ f.num = g.num => f = g
                    /\ f.name = g.name => f = g
                    /\ f # g => D!Owned(f) \cap D!Owned(g) = {}

Covering == \A n \in 0 .. last : \E f \in dir : n \in D!Owned(f)

\* The history of f names the files up to f, and no others.
NamesFiles(f) ==
  /\ \A e \in f.hist : \E g \in dir : g.num = e.num /\ g.name = e.name /\ g.num <= f.num
  /\ \A g \in dir : g.num <= f.num => \E e \in f.hist : e.num = g.num /\ e.name = g.name

DocInv ==
  /\ last \in 0 .. MaxNumber /\ middle \in BOOLEAN
  /\ \A f \in dir : FileOK(f)
  /\ Apart /\ Covering
  /\ ~middle => \A f \in dir : NamesFiles(f)

DocumentsInv == IF machine = "documents" THEN DocInv ELSE DocumentsIdle

LEMMA OwnedIs ==
  ASSUME NEW f
  PROVE  D!Owned(f) = {f.num} \cup f.merged
  BY DEF D!Owned

\* The file with the greatest number.
LEMMA NewestIs ==
  ASSUME DocInv
  PROVE  /\ D!Newest \in dir
         /\ \A g \in dir : g.num <= D!Newest.num
  <1> DEFINE S == {f.num : f \in dir}
  <1>1. \A f \in dir : f.num \in Int /\ f.num <= last
    BY DEF DocInv, FileOK
  <1>2. S # {} /\ last \in Int
    <2>1. 0 \in 0 .. last /\ last \in Int
      BY DEF DocInv
    <2> QED BY <2>1 DEF DocInv, Covering
  <1>3. PICK f \in dir : f.num = Max(S)
    <2>1. S \in SUBSET Int /\ \A x \in S : x <= last
      BY <1>1
    <2>2. Max(S) \in S
      <3> HIDE DEF S
      <3> QED BY <1>2, <2>1, MaxIsMember
    <2> QED BY <2>2
  <1>4. \A y \in S : y <= Max(S)
    <2>1. S \in SUBSET Int /\ \A x \in S : x <= last
      BY <1>1
    <2> HIDE DEF S
    <2> QED BY <1>2, <2>1, MaxIsMember
  <1>5. \A g \in dir : g.num <= f.num
    BY <1>3, <1>4
  <1> QED BY <1>3, <1>5 DEF D!Newest

\* What the files from one to another absorb is the interval between them.
LEMMA AbsorbedIs ==
  ASSUME DocInv, NEW from \in dir, NEW to \in dir, from.num < to.num
  PROVE  LET range    == {f \in dir : from.num <= f.num /\ f.num <= to.num}
             absorbed == UNION {D!Owned(f) : f \in range}
         IN  /\ \E t \in 0 .. last : from.num <= t /\ absorbed = from.num .. t
             /\ \A g \in dir \ range : D!Owned(g) \cap absorbed = {}
             /\ \A n \in 0 .. last \ absorbed : \E g \in dir \ range : n \in D!Owned(g)
  <1> DEFINE range    == {f \in dir : from.num <= f.num /\ f.num <= to.num}
             absorbed == UNION {D!Owned(f) : f \in range}
  <1>1. \A f \in dir : /\ f.num \in Nat /\ f.num \in D!Owned(f)
                       /\ \E t \in 0 .. last : f.num <= t /\ D!Owned(f) = f.num .. t
    <2> TAKE f \in dir
    <2>1. FileOK(f) /\ last \in Nat
      BY DEF DocInv
    <2> QED BY <2>1, OwnedIs DEF FileOK
  <1>2. \A f, g \in dir : \A n \in D!Owned(f) : n \in D!Owned(g) => f = g
    BY DEF DocInv, Apart
  <1>3. PICK t \in 0 .. last : to.num <= t /\ D!Owned(to) = to.num .. t
    BY <1>1
  <1>4. last \in Nat /\ t \in Nat /\ from.num \in Nat /\ to.num \in Nat
    BY <1>1 DEF DocInv
  <1>5. ASSUME NEW n \in absorbed PROVE n \in from.num .. t
    <2>1. PICK f \in range : n \in D!Owned(f)
      OBVIOUS
    <2>2. PICK u \in 0 .. last : f.num <= u /\ D!Owned(f) = f.num .. u
      BY <1>1
    <2>3. f.num \in Nat /\ u \in Nat /\ n \in Int /\ from.num <= n /\ n <= u
      BY <1>1, <1>4, <2>1, <2>2
    <2>4. CASE f = to
      BY <1>3, <1>4, <2>1, <2>3, <2>4
    <2>5. CASE f # to
      <3>1. f.num < to.num
        <4>1. f.num # to.num
          BY <2>5 DEF DocInv, Apart
        <4> QED BY <4>1, <2>3, <1>4
      <3>2. to.num \notin D!Owned(f)
        BY <1>1, <1>2, <2>5
      <3>3. u < to.num
        BY <2>2, <2>3, <1>4, <3>1, <3>2
      <3> QED BY <2>3, <3>3, <1>3, <1>4
    <2> QED BY <2>4, <2>5
  <1>6. ASSUME NEW n \in from.num .. t PROVE n \in absorbed
    <2>1. n \in 0 .. last
      BY <1>4
    <2>2. PICK f \in dir : n \in D!Owned(f)
      BY <2>1 DEF DocInv, Covering
    <2>3. PICK u \in 0 .. last : f.num <= u /\ D!Owned(f) = f.num .. u
      BY <1>1
    <2>4. f.num \in Nat /\ u \in Nat /\ f.num <= n /\ n <= u
      BY <1>1, <1>4, <2>2, <2>3
    <2>5. from.num <= f.num
      <3> SUFFICES ASSUME f.num < from.num PROVE FALSE
        BY <1>4, <2>4
      <3>1. from.num \in D!Owned(f)
        BY <2>3, <2>4, <1>4
      <3> QED BY <3>1, <1>1, <1>2, <1>4, <2>4
    <2>6. f.num <= to.num
      <3> SUFFICES ASSUME to.num < f.num PROVE FALSE
        BY <1>4, <2>4
      <3>1. f.num \in D!Owned(to)
        BY <1>3, <2>4, <1>4
      <3> QED BY <3>1, <1>1, <1>2, <1>4, <2>4
    <2> QED BY <2>2, <2>5, <2>6
  <1>7. absorbed = from.num .. t /\ from.num <= t
    <2>1. from.num <= t
      BY <1>3, <1>4
    <2> HIDE DEF absorbed
    <2> QED BY <1>5, <1>6, <2>1
  <1>8. \A g \in dir \ range : D!Owned(g) \cap absorbed = {}
    BY <1>2
  <1>9. \A n \in 0 .. last \ absorbed : \E g \in dir \ range : n \in D!Owned(g)
    BY DEF DocInv, Covering
  <1> QED BY <1>7, <1>8, <1>9

LEMMA DocumentIs ==
  ASSUME NEW n, NEW name, NEW hist, NEW f \in D!DocumentsOf(n, name, hist)
  PROVE  /\ f.num = n /\ f.name = name /\ f.merged = {}
         /\ f.hist = hist \cup {[num |-> n, folder |-> Folder, name |-> name]}
         /\ f.paths \subseteq {[folder |-> Folder, name |-> name]}
         /\ f.size = IF n = 0 THEN "device" ELSE "cylinders"
         /\ D!Owned(f) = {n}
  <1>1. /\ f.num = n /\ f.name = name /\ f.merged = {}
        /\ f.hist = hist \cup {[num |-> n, folder |-> Folder, name |-> name]}
        /\ f.size = IF n = 0 THEN "device" ELSE "cylinders"
    BY DEF D!DocumentsOf, D!Recorded, D!SizeIn
  <1>2. f.paths \subseteq {[folder |-> Folder, name |-> name]}
    BY DEF D!DocumentsOf, D!Made
  <1> QED BY <1>1, <1>2 DEF D!Owned

LEMMA DocInit ==
  ASSUME D!Init
  PROVE  DocInv
  <1>0. PICK name \in Names : \E f \in D!DocumentsOf(0, name, {}) : dir = {f}
    BY DEF D!Init
  <1>1. PICK f \in D!DocumentsOf(0, name, {}) : dir = {f}
    BY <1>0
  <1>2. /\ f.num = 0 /\ f.name = name /\ f.merged = {}
        /\ f.hist = {[num |-> 0, folder |-> Folder, name |-> name]}
        /\ f.paths \subseteq {[folder |-> Folder, name |-> name]}
        /\ f.size = "device" /\ D!Owned(f) = {0}
    BY DocumentIs
  <1>3. last = 0 /\ middle = FALSE /\ MaxNumber \in Nat
    BY PartsAssumption DEF D!Init, D!NameAssumption
  <1>4. FileOK(f)
    <2>1. 0 \in 0 .. last /\ D!Owned(f) = 0 .. 0 /\ f.num <= 0
      BY <1>2, <1>3
    <2>2. f.hist \subseteq Entry
      BY <1>2, <2>1 DEF Entry
    <2>3. /\ f.paths \subseteq [folder : {Folder, NoFolder}, name : Names]
          /\ \A p \in f.paths : p.name = f.name
      BY <1>2
    <2> QED BY <1>2, <2>1, <2>2, <2>3 DEF FileOK
  <1>5. dir = {f}
    BY <1>1
  <1>6. Apart
    BY <1>5 DEF Apart
  <1>7. Covering
    BY <1>2, <1>3, <1>5 DEF Covering
  <1>8. NamesFiles(f)
    BY <1>2, <1>5 DEF NamesFiles
  <1>9. \A g \in dir : FileOK(g) /\ NamesFiles(g)
    BY <1>4, <1>5, <1>8
  <1>10. last \in 0 .. MaxNumber
    BY <1>3
  <1>11. middle \in BOOLEAN
    BY <1>3, Zenon
  <1> QED BY <1>6, <1>7, <1>9, <1>10, <1>11 DEF DocInv

\* A file stays as it is while the numbers grow.
LEMMA FileStays ==
  ASSUME NEW f, FileOK(f), last \in Nat, last' \in Nat, last <= last'
  PROVE  FileOK(f)'
  <1>1. f.num \in 0 .. last' /\ Entry \subseteq Entry'
    BY DEF FileOK, Entry
  <1>2. \E t \in 0 .. last' : f.num <= t /\ D!Owned(f) = f.num .. t
    BY DEF FileOK
  <1>3. FileOK(f)' <=>
          /\ f.num \in 0 .. last' /\ f.name \in Names
          /\ f.hist \subseteq Entry'
          /\ f.paths \subseteq [folder : {Folder, NoFolder}, name : Names]
          /\ \E t \in 0 .. last' : f.num <= t /\ D!Owned(f) = f.num .. t
          /\ \A e, d \in f.hist : e.num = d.num => e = d
          /\ \E e \in f.hist : e.num = f.num /\ e.name = f.name
          /\ \A p \in f.paths : p.name = f.name
          /\ f.merged # {} => \A e \in f.hist \cup f.paths : e.folder = NoFolder
          /\ f.num = 0 => f.size = "device"
    BY DEF FileOK, D!Owned
  <1> QED BY <1>1, <1>2, <1>3 DEF FileOK

LEMMA DocBackup ==
  ASSUME DocInv, D!Backup
  PROVE  DocInv'
  <1> DEFINE n == last + 1
             new == D!Newest
  <1>0. PICK name \in Names \ D!NamesHeld :
          \E f \in D!DocumentsOf(n, name, new.hist) : dir' = dir \cup {f}
    BY DEF D!Backup
  <1>1. PICK f \in D!DocumentsOf(n, name, new.hist) : dir' = dir \cup {f}
    BY <1>0
  <1> HIDE DEF n, new
  <1>2. /\ f.num = n /\ f.name = name /\ f.merged = {}
        /\ f.hist = new.hist \cup {[num |-> n, folder |-> Folder, name |-> name]}
        /\ f.paths \subseteq {[folder |-> Folder, name |-> name]}
        /\ f.size = (IF n = 0 THEN "device" ELSE "cylinders") /\ D!Owned(f) = {n}
    BY <1>1, DocumentIs
  <1> USE DEF n, new
  <1>3. /\ last \in Nat /\ last' = n /\ n \in 0 .. MaxNumber /\ n \in Nat /\ n # 0
        /\ last < n
    BY PartsAssumption DEF DocInv, D!Backup, D!NameAssumption
  <1>4. middle' = middle /\ middle \in BOOLEAN
    BY DEF DocInv, D!Backup
  <1>5. dir' = dir \cup {f}
    BY <1>1
  <1>6. /\ new \in dir /\ FileOK(new) /\ \A g \in dir : g.num <= new.num
    BY NewestIs DEF DocInv
  <1>7. name \in Names /\ \A g \in dir : g.name # name
    BY DEF D!NamesHeld
  <1>8. \A g \in dir : FileOK(g) /\ g.num \in 0 .. last /\ g.num # n
    BY <1>3 DEF DocInv, FileOK
  <1> HIDE DEF new, n
  <1>9. \A e \in new.hist : e \in Entry /\ e.num \in 0 .. last /\ e.num # n
    BY <1>3, <1>6 DEF FileOK, Entry
  <1>10. FileOK(f)'
    <2>1. f.num \in 0 .. last' /\ D!Owned(f) = n .. n /\ f.num <= n /\ n \in 0 .. last'
      BY <1>2, <1>3
    <2>2. f.hist \subseteq Entry'
      <3>1. [num |-> n, folder |-> Folder, name |-> name] \in Entry'
        BY <1>3, <1>7 DEF Entry
      <3>2. Entry \subseteq Entry'
        BY <1>3 DEF Entry
      <3> QED BY <1>2, <1>9, <3>1, <3>2
    <2>3. /\ f.paths \subseteq [folder : {Folder, NoFolder}, name : Names]
          /\ \A p \in f.paths : p.name = f.name
      BY <1>2, <1>7
    <2>4. \A e, d \in f.hist : e.num = d.num => e = d
      BY <1>2, <1>6, <1>9 DEF FileOK
    <2>5. \E e \in f.hist : e.num = f.num /\ e.name = f.name
      <3>1. [num |-> n, folder |-> Folder, name |-> name] \in f.hist
        BY <1>2
      <3> QED BY <3>1, <1>2
    <2> QED BY <1>2, <1>3, <1>7, <2>1, <2>2, <2>3, <2>4, <2>5 DEF FileOK, D!Owned
  <1>11. \A g \in dir' : FileOK(g)'
    BY <1>3, <1>5, <1>8, <1>10, FileStays
  <1>12. Apart'
    <2>1. \A g \in dir : D!Owned(g) \cap D!Owned(f) = {}
      <3> TAKE g \in dir
      <3>1. \A i \in D!Owned(g) : i # n
        BY <1>3, <1>8 DEF FileOK
      <3> QED BY <1>2, <3>1
    <2>2. \A g, h \in dir' : /\ g.num = h.num => g = h
                             /\ g.name = h.name => g = h
                             /\ g # h => D!Owned(g) \cap D!Owned(h) = {}
      BY <1>2, <1>5, <1>7, <1>8, <2>1 DEF DocInv, Apart
    <2> QED BY <2>2 DEF Apart, D!Owned
  <1>13. Covering'
    <2>1. \A i \in 0 .. last' : \E g \in dir' : i \in D!Owned(g)
      <3>1. 0 .. last' = 0 .. last \cup {n}
        BY <1>3 DEF n
      <3>2. f \in dir' /\ n \in D!Owned(f)
        BY <1>2, <1>5
      <3>3. \A i \in 0 .. last : \E g \in dir' : i \in D!Owned(g)
        BY <1>5 DEF DocInv, Covering
      <3> QED BY <3>1, <3>2, <3>3
    <2> QED BY <2>1 DEF Covering, D!Owned
  <1>14. ASSUME ~middle' PROVE \A g \in dir' : NamesFiles(g)'
    <2>1. \A g \in dir : NamesFiles(g)
      BY <1>4, <1>14 DEF DocInv
    <2>2. ASSUME NEW g \in dir PROVE NamesFiles(g)'
      <3>1. ~(f.num <= g.num)
        BY <1>2, <1>3, <1>8
      <3> QED BY <2>1, <1>5, <3>1 DEF NamesFiles
    <2>3. NamesFiles(f)'
      <3>1. ASSUME NEW e \in f.hist
            PROVE  \E g \in dir' : g.num = e.num /\ g.name = e.name /\ g.num <= f.num
        <4>1. CASE e \in new.hist
          <5>1. PICK g \in dir : g.num = e.num /\ g.name = e.name
            BY <1>6, <2>1, <4>1 DEF NamesFiles
          <5> QED BY <5>1, <1>2, <1>3, <1>5, <1>8
        <4>2. CASE e = [num |-> n, folder |-> Folder, name |-> name]
          BY <4>2, <1>2, <1>3, <1>5
        <4> QED BY <1>2, <4>1, <4>2
      <3>2. ASSUME NEW g \in dir'
            PROVE  \E e \in f.hist : e.num = g.num /\ e.name = g.name
        <4>1. CASE g = f
          <5>1. [num |-> n, folder |-> Folder, name |-> name] \in f.hist
            BY <1>2
          <5> QED BY <4>1, <5>1, <1>2
        <4>2. CASE g \in dir
          <5>1. PICK e \in new.hist : e.num = g.num /\ e.name = g.name
            BY <4>2, <1>6, <2>1 DEF NamesFiles
          <5> QED BY <5>1, <1>2
        <4> QED BY <4>1, <4>2, <1>5
      <3> QED BY <3>1, <3>2 DEF NamesFiles
    <2> QED BY <1>5, <2>2, <2>3
  <1> QED BY <1>3, <1>4, <1>11, <1>12, <1>13, <1>14 DEF DocInv

LEMMA DocMerge ==
  ASSUME DocInv, D!Merge
  PROVE  DocInv'
  <1>1. PICK from \in dir, to \in dir, made \in Names \ D!NamesHeld :
          LET range    == {f \in dir : from.num <= f.num /\ f.num <= to.num}
              absorbed == UNION {D!Owned(f) : f \in range}
          IN  /\ from.num < to.num
              /\ dir' = (dir \ range) \cup
                    {[num |-> from.num, name |-> made, merged |-> absorbed \ {from.num},
                      hist |-> D!Patched(from, to, absorbed, made),
                      paths |-> D!PatchedPaths(to.paths, made), size |-> D!PatchedSize(from, to)]}
              /\ middle' = (middle \/ to # D!Newest)
              /\ UNCHANGED last
    BY DEF D!Merge
  <1> DEFINE range    == {f \in dir : from.num <= f.num /\ f.num <= to.num}
             absorbed == UNION {D!Owned(f) : f \in range}
             stays == {e \in to.hist : e.num \notin absorbed}
             own == [num |-> from.num, folder |-> NoFolder, name |-> made]
  <1>0. PICK o :
          o = [num |-> from.num, name |-> made, merged |-> absorbed \ {from.num},
               hist |-> D!Patched(from, to, absorbed, made),
               paths |-> D!PatchedPaths(to.paths, made), size |-> D!PatchedSize(from, to)]
    OBVIOUS
  <1>2. /\ from.num < to.num /\ dir' = (dir \ range) \cup {o} /\ last' = last
        /\ middle' = (middle \/ to # D!Newest)
    BY <1>0, <1>1
  <1>3. /\ \E t \in 0 .. last : from.num <= t /\ absorbed = from.num .. t
        /\ \A g \in dir \ range : D!Owned(g) \cap absorbed = {}
        /\ \A i \in 0 .. last \ absorbed : \E g \in dir \ range : i \in D!Owned(g)
    BY <1>2, AbsorbedIs
  <1>4. /\ last \in 0 .. MaxNumber /\ last \in Nat /\ last' \in Nat
        /\ \A g \in dir : FileOK(g) /\ g.num \in Nat
    BY <1>2, PartsAssumption DEF DocInv, FileOK, D!NameAssumption
  <1>5. made \in Names /\ \A g \in dir : g.name # made
    BY <1>1 DEF D!NamesHeld
  <1>6. from.num \in absorbed /\ from \in range /\ to \in range
    BY <1>2, <1>4, OwnedIs
  <1>7. /\ o.num = from.num /\ o.name = made
        /\ \A p \in o.paths : p.name = made /\ p.folder = NoFolder
        /\ o.paths \subseteq [folder : {Folder, NoFolder}, name : Names]
    <2>1. to.paths \subseteq [folder : {Folder, NoFolder}, name : Names]
      BY <1>4 DEF FileOK
    <2>2. D!PatchedPaths(to.paths, made) \subseteq {[folder |-> NoFolder, name |-> made]}
      <3> SUFFICES ASSUME NEW p \in to.paths
                   PROVE  [p EXCEPT !.folder = NoFolder, !.name = made]
                            = [folder |-> NoFolder, name |-> made]
        BY DEF D!PatchedPaths
      <3>2. p \in [folder : {Folder, NoFolder}, name : Names]
        BY <2>1
      <3>4. PICK a \in {Folder, NoFolder}, b \in Names : p = [folder |-> a, name |-> b]
        BY <3>2
      <3>3. [p EXCEPT !.folder = NoFolder, !.name = made] = [folder |-> NoFolder, name |-> made]
        <4>1. DOMAIN p = {"folder", "name"}
          BY ONLY <3>4
        <4>2. [p EXCEPT !.folder = NoFolder, !.name = made]
               = [i \in {"folder", "name"} |->
                    IF i = "name" THEN made ELSE IF i = "folder" THEN NoFolder ELSE p[i]]
          BY ONLY <4>1
        <4>3. [folder |-> NoFolder, name |-> made]
               = [i \in {"folder", "name"} |-> IF i = "name" THEN made ELSE NoFolder]
          OBVIOUS
        <4> QED BY ONLY <4>2, <4>3
      <3> QED BY <3>3
    <2> HIDE DEF absorbed
    <2> QED BY <1>0, <1>5, <2>2
  <1>8. o.hist = {D!WithoutFolder(e) : e \in stays} \cup {own}
    <2>1. o.hist = D!Patched(from, to, absorbed, made)
      BY <1>0
    <2> HIDE DEF absorbed
    <2> QED BY <2>1 DEF D!Patched, D!Surviving, D!OutputEntry
  <1>9. D!Owned(o) = absorbed
    <2>1. o.merged = absorbed \ {from.num}
      BY <1>0
    <2> HIDE DEF absorbed
    <2> QED BY <1>6, <1>7, <2>1, OwnedIs
  <1>10. o.size = D!PatchedSize(from, to)
    BY <1>0
  <1>11. \A e \in stays : e \in to.hist /\ e.num \notin absorbed
    OBVIOUS
  <1>12. \A e \in to.hist : e.num \notin absorbed => e \in stays
    OBVIOUS
  <1>13. \A g : g \in dir /\ g \notin range => ~(from.num <= g.num /\ g.num <= to.num)
    OBVIOUS
  <1>14. own = [num |-> from.num, folder |-> NoFolder, name |-> made] /\ range \subseteq dir
    OBVIOUS
  <1>15. \A g \in range : D!Owned(g) \subseteq absorbed
    OBVIOUS
  <1> HIDE DEF range, absorbed, stays, own
  <1>16. \A e \in stays : LET w == D!WithoutFolder(e)
                          IN  w \in Entry /\ w.num = e.num /\ w.name = e.name
                              /\ w.folder = NoFolder
    <2> TAKE e \in stays
    <2>1. e \in [num : 0 .. last, folder : {Folder, NoFolder}, name : Names]
      BY <1>4, <1>11 DEF FileOK, Entry
    <2> QED BY <2>1 DEF D!WithoutFolder, Entry
  <1>17. \A w \in o.hist : \/ w = own
                           \/ \E e \in stays : w = D!WithoutFolder(e)
    BY <1>8
  <1>18. FileOK(o)'
    <2>1. from.num \in 0 .. last /\ own \in Entry
      BY <1>4, <1>5, <1>14 DEF FileOK, Entry
    <2>2. o.hist \subseteq Entry /\ Entry' = Entry
      BY <1>2, <1>16, <1>17, <2>1 DEF Entry
    <2>3. \A w, v \in o.hist : w.num = v.num => w = v
      <3> SUFFICES ASSUME NEW w \in o.hist, NEW v \in o.hist, w.num = v.num PROVE w = v
        OBVIOUS
      <3>1. CASE w = own /\ v = own
        BY <3>1
      <3>2. CASE w = own /\ \E e \in stays : v = D!WithoutFolder(e)
        BY <3>2, <1>6, <1>11, <1>14, <1>16
      <3>3. CASE v = own /\ \E e \in stays : w = D!WithoutFolder(e)
        BY <3>3, <1>6, <1>11, <1>14, <1>16
      <3>4. CASE \E e \in stays, d \in stays : w = D!WithoutFolder(e) /\ v = D!WithoutFolder(d)
        <4>1. PICK e \in stays, d \in stays : w = D!WithoutFolder(e) /\ v = D!WithoutFolder(d)
          BY <3>4
        <4>2. e.num = d.num
          BY <4>1, <1>16
        <4>3. e = d
          BY <4>2, <1>4, <1>11 DEF FileOK
        <4> QED BY <4>1, <4>3
      <3> QED BY <1>17, <3>1, <3>2, <3>3, <3>4
    <2>4. \E e \in o.hist : e.num = o.num /\ e.name = o.name
      BY <1>7, <1>8, <1>14
    <2>5. \A e \in o.hist \cup o.paths : e.folder = NoFolder
      BY <1>7, <1>14, <1>16, <1>17
    <2>6. o.num = 0 => o.size = "device"
      <3> SUFFICES ASSUME from.num = 0 PROVE D!PatchedSize(from, to) = "device"
        BY <1>7, <1>10
      <3>1. D!Base \in dir /\ D!Base.num = 0
        BY DEF D!Base
      <3>2. D!Base.size = "device"
        BY <3>1, <1>4 DEF FileOK
      <3> QED BY <3>2 DEF D!PatchedSize
    <2>7. \E t \in 0 .. last : o.num <= t /\ D!Owned(o) = o.num .. t
      BY <1>3, <1>7, <1>9
    <2>8. FileOK(o)' <=>
            /\ o.num \in 0 .. last' /\ o.name \in Names
            /\ o.hist \subseteq Entry'
            /\ o.paths \subseteq [folder : {Folder, NoFolder}, name : Names]
            /\ \E t \in 0 .. last' : o.num <= t /\ D!Owned(o) = o.num .. t
            /\ \A e, d \in o.hist : e.num = d.num => e = d
            /\ \E e \in o.hist : e.num = o.num /\ e.name = o.name
            /\ \A p \in o.paths : p.name = o.name
            /\ o.merged # {} => \A e \in o.hist \cup o.paths : e.folder = NoFolder
            /\ o.num = 0 => o.size = "device"
      BY DEF FileOK, D!Owned
    <2> QED BY <1>2, <1>5, <1>7, <2>1, <2>2, <2>3, <2>4, <2>5, <2>6, <2>7, <2>8
  <1>19. \A g \in dir' : FileOK(g)'
    <2>1. \A g \in dir : FileOK(g)'
      <3>1. last <= last'
        BY <1>2, <1>4
      <3> QED BY <1>4, <3>1, FileStays
    <2> QED BY <1>2, <1>18, <2>1
  <1>20. \A g \in dir \ range : g.num # from.num
    BY <1>6 DEF DocInv, Apart
  <1>21. Apart'
    <2>1. \A g, h \in dir' : /\ g.num = h.num => g = h
                             /\ g.name = h.name => g = h
                             /\ g # h => D!Owned(g) \cap D!Owned(h) = {}
      <3>1. \A g \in dir' : (g \in dir /\ g \in dir \ range) \/ g = o
        BY ONLY <1>2
      <3>2. \A g, h \in dir : /\ g.num = h.num => g = h
                              /\ g.name = h.name => g = h
                              /\ g # h => D!Owned(g) \cap D!Owned(h) = {}
        BY DEF DocInv, Apart
      <3>3. \A g \in dir \ range : /\ g.num # o.num /\ g.name # o.name
                                   /\ D!Owned(g) \cap D!Owned(o) = {}
                                   /\ D!Owned(o) \cap D!Owned(g) = {}
        BY <1>3, <1>5, <1>7, <1>9, <1>20
      <3> HIDE DEF range
      <3> QED BY ONLY <3>1, <3>2, <3>3
    <2> QED BY <2>1 DEF Apart, D!Owned
  <1>22. Covering'
    <2>1. \A i \in 0 .. last' : \E g \in dir' : i \in D!Owned(g)
      BY <1>2, <1>3, <1>9
    <2> QED BY <2>1 DEF Covering, D!Owned
  <1>23. ASSUME ~middle' PROVE \A g \in dir' : NamesFiles(g)'
    <2>1. to = D!Newest /\ \A g \in dir : NamesFiles(g)
      BY <1>2, <1>23 DEF DocInv
    <2>2. \A g \in dir : g.num <= to.num
      BY <2>1, NewestIs
    <2>3. \A g \in dir \ range : g.num < from.num
      BY <1>4, <1>13, <2>2
    <2>4. ASSUME NEW g \in dir \ range PROVE NamesFiles(g)'
      <3>1. ~(o.num <= g.num)
        BY <1>4, <1>7, <2>3
      <3>2. ASSUME NEW e \in g.hist
            PROVE  \E h \in dir' : h.num = e.num /\ h.name = e.name /\ h.num <= g.num
        <4>1. PICK h \in dir : h.num = e.num /\ h.name = e.name /\ h.num <= g.num
          BY <2>1 DEF NamesFiles
        <4>2. h \notin range
          <5>1. h.num < from.num
            BY <4>1, <2>3, <1>4
          <5> QED BY <5>1, <1>4 DEF range
        <4> QED BY <4>1, <4>2, <1>2
      <3>3. ASSUME NEW h \in dir', h.num <= g.num
            PROVE  \E e \in g.hist : e.num = h.num /\ e.name = h.name
        BY <1>2, <2>1, <3>1, <3>3 DEF NamesFiles
      <3> QED BY <3>2, <3>3 DEF NamesFiles
    <2>5. NamesFiles(o)'
      <3>1. ASSUME NEW w \in o.hist
            PROVE  \E h \in dir' : h.num = w.num /\ h.name = w.name /\ h.num <= o.num
        <4>1. CASE w = own
          BY <4>1, <1>2, <1>4, <1>7, <1>14
        <4>2. CASE \E e \in stays : w = D!WithoutFolder(e)
          <5>1. PICK e \in stays : w = D!WithoutFolder(e)
            BY <4>2
          <5>2. PICK h \in dir : h.num = e.num /\ h.name = e.name
            BY <1>11, <2>1 DEF NamesFiles
          <5>3. h \notin range
            BY <5>2, <1>11, <1>15, OwnedIs
          <5>4. h.num <= o.num
            BY <5>3, <2>3, <1>4, <1>7
          <5> QED BY <5>1, <5>2, <5>3, <5>4, <1>2, <1>16
        <4> QED BY <1>17, <4>1, <4>2
      <3>2. ASSUME NEW h \in dir'
            PROVE  \E w \in o.hist : w.num = h.num /\ w.name = h.name
        <4>1. CASE h = o
          BY <4>1, <1>7, <1>8, <1>14
        <4>2. CASE h \in dir \ range
          <5>1. PICK e \in to.hist : e.num = h.num /\ e.name = h.name
            BY <2>1, <2>2, <4>2 DEF NamesFiles
          <5>2. e.num \notin absorbed
            BY <4>2, <5>1, <1>3, OwnedIs
          <5>3. e \in stays
            BY <5>2, <1>12
          <5>4. D!WithoutFolder(e) \in o.hist
            BY <5>3, <1>8
          <5> QED BY <5>1, <5>3, <5>4, <1>16
        <4> QED BY <1>2, <4>1, <4>2
      <3> QED BY <3>1, <3>2 DEF NamesFiles
    <2> QED BY <1>2, <2>4, <2>5
  <1>24. middle' \in BOOLEAN
    BY <1>2 DEF DocInv
  <1> QED BY <1>2, <1>4, <1>19, <1>21, <1>22, <1>23, <1>24 DEF DocInv

LEMMA DocumentsInvariance == FolderSpec => []DocumentsInv
  <1>1. FolderInit => DocumentsInv
    <2> SUFFICES ASSUME FolderInit PROVE DocumentsInv
      OBVIOUS
    <2>1. CASE machine = "documents" /\ D!Init
      BY <2>1, DocInit DEF DocumentsInv
    <2>2. CASE machine # "documents" /\ DocumentsIdle
      BY <2>2 DEF DocumentsInv
    <2> QED BY <2>1, <2>2 DEF FolderInit
  <1>2. DocumentsInv /\ [FolderNext]_<<vars, machine, mounts, documentVars>> => DocumentsInv'
    <2> SUFFICES ASSUME DocumentsInv, [FolderNext]_<<vars, machine, mounts, documentVars>>
                 PROVE  DocumentsInv'
      OBVIOUS
    <2>1. machine' = machine
      BY DEF FolderNext
    <2>2. CASE machine = "documents" /\ D!Next
      BY <2>1, <2>2, DocBackup, DocMerge DEF DocumentsInv, D!Next
    <2>3. CASE UNCHANGED documentVars
      <3>1. dir' = dir /\ last' = last /\ middle' = middle
        BY <2>3 DEF documentVars
      <3>2. \A f : FileOK(f)' <=> FileOK(f)
        BY <3>1 DEF FileOK, Entry, D!Owned
      <3>3. \A f : NamesFiles(f)' <=> NamesFiles(f)
        BY <3>1 DEF NamesFiles
      <3>4. (Apart' <=> Apart) /\ (Covering' <=> Covering)
        BY <3>1 DEF Apart, Covering, D!Owned
      <3>5. DocInv' <=> DocInv
        BY <3>1, <3>2, <3>3, <3>4 DEF DocInv
      <3> QED BY <2>1, <3>1, <3>5 DEF DocumentsInv, DocumentsIdle
    <2> QED BY <2>2, <2>3 DEF FolderNext
  <1> QED BY <1>1, <1>2, PTL DEF FolderSpec

\* A document names its own file under its own number and in its paths, a merged one names no
\* folder, and the file with the full index has the size of the device (write.rs,
\* patch_document and patch_disk_sizes).
THEOREM DocumentsNameTheirFile == FolderSpec => []OwnEntry
  <1>1. DocumentsInv => OwnEntry
    <2> SUFFICES ASSUME DocumentsInv, NEW f \in dir
                 PROVE  /\ \E e \in f.hist : e.num = f.num /\ e.name = f.name
                        /\ \A p \in f.paths : p.name = f.name
                        /\ f.merged # {} => \A e \in f.hist \cup f.paths : e.folder = NoFolder
                        /\ f.num = 0 => f.size = D!SizeIn(0)
      BY DEF OwnEntry, D!OwnEntry
    <2>1. FileOK(f)
      BY DEF DocumentsInv, DocumentsIdle, DocInv
    <2> QED BY <2>1 DEF FileOK, D!SizeIn
  <1> QED BY <1>1, DocumentsInvariance, PTL

\* As long as every merge ended at the newest file, the names in a history lead to the files
\* that hold the numbers up to its own, and to no other (write.rs, patch_partitions).
THEOREM NamesLeadToTheFiles == FolderSpec => []NamesLead
  <1>1. DocumentsInv => NamesLead
    <2> SUFFICES ASSUME DocumentsInv, ~middle, NEW f \in dir
                 PROVE  /\ \A e \in f.hist : \E g \in dir : g.name = e.name /\ g.num = e.num
                        /\ \A n \in 0 .. D!Max(D!Owned(f)) :
                             \E g \in dir : n \in D!Owned(g) /\ \E e \in f.hist : e.name = g.name
                        /\ \A e, d \in f.hist : e.name = d.name => e = d
      BY DEF NamesLead, D!NamesLead
    <2>1. DocInv /\ FileOK(f) /\ NamesFiles(f) /\ last \in Nat
      BY DEF DocumentsInv, DocumentsIdle, DocInv
    <2>2. PICK t \in 0 .. last : f.num <= t /\ D!Owned(f) = f.num .. t
      BY <2>1 DEF FileOK
    <2>3. f.num \in Nat /\ t \in Nat
      BY <2>1, <2>2 DEF FileOK
    <2>4. D!Max(D!Owned(f)) = t
      BY <2>2, <2>3 DEF D!Max
    <2>5. ASSUME NEW n \in 0 .. t
          PROVE  \E g \in dir : n \in D!Owned(g) /\ \E e \in f.hist : e.name = g.name
      <3>1. n \in 0 .. last
        BY <2>1, <2>3
      <3>2. PICK g \in dir : n \in D!Owned(g)
        BY <2>1, <3>1 DEF DocInv, Covering
      <3>3. FileOK(g)
        BY <2>1 DEF DocInv
      <3>4. g.num \in Nat /\ g.num <= n /\ g.num \in D!Owned(g)
        BY <3>2, <3>3, <2>1, OwnedIs DEF FileOK
      <3>5. g.num <= f.num
        <4> SUFFICES ASSUME f.num < g.num PROVE FALSE
          BY <2>3, <3>4
        <4>1. g.num \in D!Owned(f)
          BY <2>2, <2>3, <3>4
        <4>2. f = g
          BY <2>1, <3>4, <4>1 DEF DocInv, Apart
        <4> QED BY <4>2, <2>3
      <3> QED BY <2>1, <3>2, <3>5 DEF NamesFiles
    <2>6. \A e, d \in f.hist : e.name = d.name => e = d
      <3> SUFFICES ASSUME NEW e \in f.hist, NEW d \in f.hist, e.name = d.name PROVE e = d
        OBVIOUS
      <3>1. PICK g \in dir : g.num = e.num /\ g.name = e.name
        BY <2>1 DEF NamesFiles
      <3>2. PICK h \in dir : h.num = d.num /\ h.name = d.name
        BY <2>1 DEF NamesFiles
      <3>3. g = h
        BY <2>1, <3>1, <3>2 DEF DocInv, Apart
      <3> QED BY <2>1, <3>1, <3>2, <3>3 DEF FileOK
    <2> QED BY <2>1, <2>4, <2>5, <2>6 DEF NamesFiles
  <1> QED BY <1>1, DocumentsInvariance, PTL

\* Every variable of a scan and of the documents stays in its set.
ScanInv == IF machine = "scan" THEN Inv ELSE ScanIdle

LEMMA IdleTyped == ScanIdle => TypeOK
  <1> SUFFICES ASSUME ScanIdle PROVE TypeOK
    OBVIOUS
  <1>1. parent \in [Nodes \ {Root} -> Folders \cup {Gone}] /\ faults \in 0 .. MaxFaults
    BY TreeAssumption DEF ScanIdle
  <1>2. closed \cup moved \cup unseen \subseteq Folders
    BY TreeAssumption DEF ScanIdle
  <1>3. out = {} /\ DOMAIN pending = {} /\ pc = "failed"
    BY DEF ScanIdle
  <1> QED BY <1>1, <1>2, <1>3 DEF TypeOK

LEMMA ScanInvariance == FolderSpec => []ScanInv
  <1>1. FolderInit => ScanInv
    BY InitInv DEF FolderInit, ScanInv
  <1>2. ScanInv /\ [FolderNext]_<<vars, machine, mounts, documentVars>> => ScanInv'
    <2> SUFFICES ASSUME ScanInv, [FolderNext]_<<vars, machine, mounts, documentVars>>
                 PROVE  ScanInv'
      OBVIOUS
    <2>1. machine' = machine
      BY DEF FolderNext
    <2>2. CASE machine = "scan" /\ [Next]_vars
      BY <2>1, <2>2, NextInv DEF ScanInv
    <2>3. CASE machine # "scan" /\ UNCHANGED vars
      BY <2>1, <2>3 DEF ScanInv, ScanIdle, vars
    <2> QED BY <2>2, <2>3 DEF FolderNext
  <1> QED BY <1>1, <1>2, PTL DEF FolderSpec

\* Every variable of the scan and of the documents stays in its set, and a history has one
\* entry a number (scan.rs, scan_tree; write.rs, patch_partitions).
THEOREM FolderTypes == FolderSpec => []TypesOK
  <1>1. ScanInv => TypeOK
    BY IdleTyped DEF ScanInv, Inv
  <1>2. DocumentsInv => D!TypeOK
    <2> SUFFICES ASSUME DocumentsInv PROVE D!TypeOK
      OBVIOUS
    <2>1. last \in 0 .. MaxNumber /\ middle \in BOOLEAN
      <3>1. MaxNumber \in Nat
        BY PartsAssumption DEF D!NameAssumption
      <3>2. DocumentsIdle => last \in 0 .. MaxNumber
        BY <3>1 DEF DocumentsIdle
      <3>3. DocumentsIdle => middle \in BOOLEAN
        BY Zenon DEF DocumentsIdle
      <3> QED BY <3>2, <3>3 DEF DocumentsInv, DocInv
    <2>2. ASSUME NEW f \in dir PROVE FileOK(f)
      BY DEF DocumentsInv, DocumentsIdle, DocInv
    <2>3. ASSUME NEW f \in dir PROVE f.merged \subseteq 0 .. last
      <3>1. PICK t \in 0 .. last : f.num <= t /\ f.num \in 0 .. last /\ D!Owned(f) = f.num .. t
        BY <2>2 DEF FileOK
      <3>2. f.num .. t \subseteq 0 .. last
        BY <2>1, <3>1
      <3> QED BY <3>1, <3>2, OwnedIs
    <2> QED BY <2>1, <2>2, <2>3 DEF FileOK, D!TypeOK
  <1> QED BY <1>1, <1>2, ScanInvariance, DocumentsInvariance, PTL DEF TypesOK

-----------------------------------------------------------------------------
(* The mounts.  Where mounts nest, of two mounts whose points lead to a     *)
(* directory the later one has the longer point, so the first of the        *)
(* longest, which the program takes, is the last one made.                  *)

Point == Seq(Plain \cup Spaced)

MountsOK ==
  /\ mounts \in Seq([point : Point, type : FileSystems])
  /\ Len(mounts) > 0 /\ mounts[1].point = <<>>

MountsInv == machine = "mounts" => MountsOK

LEMMA PathsAreSequences ==
  ASSUME NEW p \in MT!Paths
  PROVE  p \in Point
  <1>1. PICK m \in 0 .. Depth : p \in [1 .. m -> Plain \cup Spaced]
    BY DEF MT!Paths, MT!BoundedSeq, MT!SeqOf
  <1>2. m \in Nat
    BY PartsAssumption DEF MT!TableAssumption
  <1> QED BY <1>1, <1>2 DEF Point

\* A point is the start of a directory.
LEMMA StartIs ==
  ASSUME NEW p \in Point, NEW d \in Point
  PROVE  MT!IsPrefix(p, d) <=> Len(p) <= Len(d) /\ \A i \in 1 .. Len(p) : p[i] = d[i]
  <1> DEFINE a == SubSeq(p, 1, Len(p))
             b == SubSeq(d, 1, Len(p))
  <1>1. Len(p) \in Nat /\ Len(d) \in Nat
    BY DEF Point
  <1>2. a \in Point /\ Len(a) = Len(p) /\ \A i \in 1 .. Len(p) : a[i] = p[i]
    BY <1>1 DEF Point
  <1>3. Len(p) <= Len(d) =>
          b \in Point /\ Len(b) = Len(p) /\ \A i \in 1 .. Len(p) : b[i] = d[i]
    BY <1>1 DEF Point
  <1> HIDE DEF a, b
  <1>4. ASSUME Len(p) <= Len(d), \A i \in 1 .. Len(p) : p[i] = d[i] PROVE a = b
    BY <1>2, <1>3, <1>4, SeqEqual DEF Point
  <1> QED BY <1>2, <1>3, <1>4 DEF MT!IsPrefix, a, b

LEMMA MountsInvariance == FolderSpec => []MountsInv
  <1>1. FolderInit => MountsInv
    <2> SUFFICES ASSUME FolderInit, machine = "mounts" PROVE MountsOK
      BY DEF MountsInv
    <2>1. PICK t \in FileSystems : mounts = <<[point |-> <<>>, type |-> t]>>
      BY DEF FolderInit, MT!Init
    <2>2. <<>> \in Point
      BY DEF Point
    <2> QED BY <2>1, <2>2 DEF MountsOK
  <1>2. MountsInv /\ [FolderNext]_<<vars, machine, mounts, documentVars>> => MountsInv'
    <2> SUFFICES ASSUME MountsInv, [FolderNext]_<<vars, machine, mounts, documentVars>>,
                        machine' = "mounts"
                 PROVE  MountsOK'
      BY DEF MountsInv
    <2>1. machine' = machine /\ MountsOK
      BY DEF FolderNext, MountsInv
    <2>2. CASE UNCHANGED mounts
      BY <2>1, <2>2 DEF MountsOK
    <2>3. CASE MT!Next
      <3>1. PICK p \in MT!Paths, t \in FileSystems :
              mounts' = Append(mounts, [point |-> p, type |-> t])
        BY <2>3 DEF MT!Next, MT!Mount
      <3>2. [point |-> p, type |-> t] \in [point : Point, type : FileSystems]
        BY PathsAreSequences
      <3> QED BY <2>1, <3>1, <3>2 DEF MountsOK
    <2> QED BY <2>1, <2>2, <2>3 DEF FolderNext
  <1> QED BY <1>1, <1>2, PTL DEF FolderSpec

\* Where mounts nest and their points have no spaces, a directory is on the mount the program
\* takes it to be on, and one on no local disk gets the careful path (commit.rs,
\* file_system_of, classify).
THEOREM TheLongestPointIsTheMount == FolderSpec => []NestedMountsFound
  <1>1. MountsInv => NestedMountsFound
    <2>0. MT!Classify(None) = "unknown"
      BY PartsAssumption DEF MT!TableAssumption, MT!Classify
    <2> SUFFICES ASSUME MountsOK, MT!Nested, MT!NoSpaces, NEW d \in MT!Paths
                 PROVE  MT!FileSystemOf(d, MT!Lines) = MT!Holder(d).type
      BY <2>0 DEF MountsInv, NestedMountsFound, MT!NestedMountsFound, MT!Of, MT!IsRemote,
                  MT!Classify
    <2> DEFINE lines == MT!Lines
               F == {i \in DOMAIN mounts : MT!IsPrefix(mounts[i].point, d)}
    <2>1. /\ Len(mounts) \in Nat \ {0} /\ DOMAIN mounts = 1 .. Len(mounts)
          /\ \A i \in DOMAIN mounts : mounts[i].point \in Point /\ Len(mounts[i].point) \in Nat
      <3> DEFINE R == [point : Point, type : FileSystems]
      <3>1. mounts \in Seq(R) /\ Len(mounts) > 0
        BY DEF MountsOK
      <3>2. \A m \in R : m.point \in Point
        OBVIOUS
      <3> HIDE DEF R
      <3>3. /\ Len(mounts) \in Nat \ {0} /\ DOMAIN mounts = 1 .. Len(mounts)
            /\ \A i \in DOMAIN mounts : mounts[i] \in R
        BY <3>1
      <3>4. \A p \in Point : Len(p) \in Nat
        BY DEF Point
      <3> QED BY <3>2, <3>3, <3>4
    <2>2. \A i \in DOMAIN mounts : lines[i].point = mounts[i].point
                                   /\ lines[i].type = mounts[i].type
      <3> TAKE i \in DOMAIN mounts
      <3>1. PICK m : m = mounts[i]
        OBVIOUS
      <3>2. m \in [point : Point, type : FileSystems]
        <4> DEFINE R == [point : Point, type : FileSystems]
        <4>1. mounts \in Seq(R)
          BY DEF MountsOK
        <4> HIDE DEF R
        <4>2. m \in R
          BY <2>1, <3>1, <4>1, ElementOfSeq
        <4> QED BY <4>2 DEF R
      <3>3. lines[i] = MT!Line(m)
        BY <3>1 DEF MT!Lines
      <3>4. MT!Line(m).type = m.type
        BY <3>2 DEF MT!Line
      <3>5. MT!Line(m).point = [k \in DOMAIN m.point |-> MT!Written(m.point[k])]
        BY <3>2 DEF MT!Line
      <3>6. \A k \in DOMAIN m.point : MT!Written(m.point[k]) = m.point[k]
        BY <3>1 DEF MT!NoSpaces, MT!Range, MT!Written
      <3>7. m.point = [k \in DOMAIN m.point |-> m.point[k]]
        BY <3>2 DEF Point
      <3> QED BY <3>1, <3>3, <3>4, <3>5, <3>6, <3>7
    <2>3. DOMAIN lines = DOMAIN mounts
      BY DEF MT!Lines
    <2>4. MT!Fitting(d, lines) = F
      BY <2>2, <2>3 DEF MT!Fitting
    <2>5. d \in Point /\ Len(d) \in Nat
      BY PathsAreSequences DEF Point
    <2>6. ASSUME NEW i \in F, NEW j \in F, i < j
          PROVE  Len(mounts[i].point) < Len(mounts[j].point)
      <3>1. PICK p, q : p = mounts[i].point /\ q = mounts[j].point
        OBVIOUS
      <3>2. p \in Point /\ q \in Point /\ Len(p) \in Nat /\ Len(q) \in Nat
        BY <2>1, <3>1
      <3>3. /\ Len(p) <= Len(d) /\ \A k \in 1 .. Len(p) : p[k] = d[k]
            /\ Len(q) <= Len(d) /\ \A k \in 1 .. Len(q) : q[k] = d[k]
        BY <2>5, <3>1, <3>2, StartIs
      <3>4. ~MT!IsPrefix(q, p)
        BY <2>6, <3>1 DEF MT!Nested
      <3>5. ~(Len(q) <= Len(p))
        <4> SUFFICES ASSUME Len(q) <= Len(p) PROVE FALSE
          OBVIOUS
        <4>1. \A k \in 1 .. Len(q) : q[k] = p[k]
          BY <3>2, <3>3
        <4> QED BY <3>2, <3>4, <4>1, StartIs
      <3> QED BY <3>1, <3>2, <3>5
    <2>7. F \in SUBSET Int /\ F # {} /\ (\A x \in F : x <= Len(mounts)) /\ Len(mounts) \in Int
      <3>1. 1 \in DOMAIN mounts /\ mounts[1].point = <<>> /\ <<>> \in Point
        BY <2>1 DEF MountsOK, Point
      <3>2. MT!IsPrefix(<<>>, d)
        <4>1. Len(<<>>) <= Len(d) /\ 1 .. Len(<<>>) = {}
          BY <2>5
        <4> QED BY <2>5, <3>1, <4>1, StartIs
      <3> QED BY <2>1, <3>1, <3>2
    <2>8. PICK h \in F : \A i \in F : i <= h
      <3> HIDE DEF F
      <3> QED BY <2>7, MaxIsMember
    <2>9. MT!Holder(d) = mounts[h]
      <3> DEFINE Latest(i) == /\ MT!IsPrefix(mounts[i].point, d)
                            /\ \A j \in DOMAIN mounts :
                                   MT!IsPrefix(mounts[j].point, d) => j <= i
      <3>1. \A i \in DOMAIN mounts : Latest(i) <=> i = h
        BY <2>1, <2>8
      <3>2. (CHOOSE i \in DOMAIN mounts : Latest(i)) = h
        <4> HIDE DEF Latest
        <4> QED BY <3>1
      <3> QED BY <3>2 DEF MT!Holder
    <2>10. MT!Longest(d, lines) = h
      <3> DEFINE n(i) == Len(lines[i].point)
                 First(i) == \A j \in F : n(j) < n(i) \/ (n(j) = n(i) /\ i <= j)
      <3>1. \A i \in F : n(i) \in Nat /\ i \in Int
        BY <2>1, <2>2
      <3>2. \A i, j \in F : i < j => n(i) < n(j)
        BY <2>2, <2>6
      <3> HIDE DEF n, F
      <3>3. \A i \in F : First(i) <=> i = h
        BY <2>8, <3>1, <3>2
      <3>4. (CHOOSE i \in F : First(i)) = h
        <4> HIDE DEF First
        <4> QED BY <3>3
      <3> HIDE DEF lines
      <3> QED BY <2>4, <3>4 DEF MT!Longest, n
    <2> HIDE DEF lines
    <2>11. MT!FileSystemOf(d, lines) = lines[h].type
      <3> HIDE DEF F
      <3> QED BY <2>4, <2>7, <2>10 DEF MT!FileSystemOf
    <2> QED BY <2>2, <2>8, <2>9, <2>11 DEF lines
  <1> QED BY <1>1, MountsInvariance, PTL

=============================================================================
