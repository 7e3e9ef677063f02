----------------------------- MODULE FileProofs -----------------------------
(***************************************************************************)
(* Theorems about what a file is read for (BackupFile): its metadata, read *)
(* and written, the payload of its indexes, and the test of its blocks.    *)
(***************************************************************************)
EXTENDS BackupFile, DataLemmas

USE DEF HeaderLen, FooterLen

-----------------------------------------------------------------------------
(* Framing: the inductive invariant.                                       *)

HeadType == [name : {"json", "index", "aux"}, len : Nat, last : BOOLEAN,
             form : {"plain", "packed", "encrypted"}]
Block == [at : Nat, head : HeadType]
DocType == [dataEnd : Nat, shape : Seq(Nat), split : BOOLEAN, text : Nat]

\* A list as far as it was walked: no block in it but the newest is the last of the list.
Sound(l) ==
  /\ l \in Seq(Block) /\ Len(l) <= MaxBlocks /\ Contiguous(l)
  /\ \A i \in 1 .. Len(l) - 1 : ~l[i].head.last

\* One that was walked to its end.
Ended(l) == Sound(l) /\ l # <<>> /\ Last(l).head.last

\* The lists of a file that were read begin where they should.
Joined(d, r, ls) ==
  /\ Root \in DOMAIN ls => ls[Root][1].at = r
  /\ <<1, 0>> \in DOMAIN ls => ls[<<1, 0>>][1].at = d.dataEnd
  /\ \A v, w \in DOMAIN ls \ {Root} :
       w = Following(d.shape, v) => ls[w][1].at = ListEnd(ls[v])

\* Where the list being walked begins.
From == IF list = <<>> THEN at ELSE list[1].at

\* A document that says where the lists of the region are.
HasRegion(d) == d \in DocType /\ ~d.split /\ d.shape # <<>>

Types ==
  /\ phase \in {"to", "output"}
  /\ pc \in {"footer", "walk", "listed", "accepted", "refused"}
  /\ size \in Nat /\ root \in Nat /\ at \in Nat
  /\ \A o \in DOMAIN known : known[o] \in HeadType /\ o + HeaderLen <= size
  /\ phase = "output" => HasRegion(doc)

Walking ==
  pc \in {"walk", "listed"} =>
    /\ list # <<>> => at = ListEnd(list)
    /\ pc = "walk" => Len(list) < MaxBlocks /\ \A i \in DOMAIN list : ~list[i].head.last
    /\ pc = "listed" => Ended(list)
    /\ which = Root => DOMAIN lists = {} /\ From = root
    /\ which # Root =>
         /\ HasRegion(doc) /\ which \in ListsOf(doc.shape)
         /\ DOMAIN lists = {Root} \cup {v \in ListsOf(doc.shape) : Before(v, which)}
         /\ Named(lists[Root], "json") # {}
         /\ which = <<1, 0>> => From = doc.dataEnd
         /\ \A v \in ListsOf(doc.shape) :
              Following(doc.shape, v) = which => From = ListEnd(lists[v])

Read ==
  /\ Sound(list)
  /\ \A w \in DOMAIN lists : Ended(lists[w])
  /\ pc # "footer" => Joined(doc, root, lists)

Accepted ==
  pc = "accepted" =>
    /\ doc \in DocType /\ Root \in DOMAIN lists /\ Named(lists[Root], "json") # {}
    /\ ~doc.split =>
         /\ doc.shape # <<>> /\ DOMAIN lists = {Root} \cup ListsOf(doc.shape)
         /\ \A w \in ListsOf(doc.shape) :
              Following(doc.shape, w) \notin ListsOf(doc.shape) => ListEnd(lists[w]) = root

FInv == Types /\ Walking /\ Read /\ Accepted

-----------------------------------------------------------------------------
(* The lists of a region, in their order.                                  *)

LEMMA RootApart == ASSUME NEW shape \in Seq(Nat) PROVE Root \notin ListsOf(shape)
  BY DEF Root, ListsOf

\* What the lists are.
LEMMA ListsAre ==
  ASSUME NEW shape \in Seq(Nat)
  PROVE  /\ \A w \in ListsOf(shape) : /\ w = <<w[1], w[2]>> /\ w[1] \in 1 .. Len(shape)
                                      /\ w[2] \in 0 .. shape[w[1]]
         /\ \A d \in 1 .. Len(shape) : \A p \in 0 .. shape[d] : <<d, p>> \in ListsOf(shape)
  BY DEF ListsOf

\* There are finitely many.
LEMMA ListsFinite ==
  ASSUME NEW shape \in Seq(Nat)
  PROVE  IsFiniteSet(ListsOf(shape))
  <1> DEFINE part == {{d} \X (0 .. shape[d]) : d \in DOMAIN shape}
  <1>1. \A d \in DOMAIN shape : IsFiniteSet({d} \X (0 .. shape[d]))
    <2> TAKE d \in DOMAIN shape
    <2>1. shape[d] \in Nat
      OBVIOUS
    <2>2. IsFiniteSet({d}) /\ IsFiniteSet(0 .. shape[d])
      <3>1. IsFiniteSet(0 .. shape[d])
        BY <2>1, FS_Interval
      <3> QED BY <3>1, FS_Singleton
    <2> QED BY <2>2, FS_Product
  <1>2. IsFiniteSet(part)
    <2>1. IsFiniteSet(DOMAIN shape)
      BY FS_Interval
    <2> DEFINE f == [d \in DOMAIN shape |-> {d} \X (0 .. shape[d])]
    <2>2. f \in Surjection(DOMAIN shape, part)
      BY DEF Surjection
    <2> HIDE DEF f, part
    <2> QED BY <2>1, <2>2, FS_Surjection
  <1> QED BY <1>1, <1>2, FS_UNION DEF ListsOf

\* The one after a list is the next partition of its disk, or the next disk; it is in the
\* region or past it.
LEMMA FollowingIs ==
  ASSUME NEW shape \in Seq(Nat), NEW w \in ListsOf(shape)
  PROVE  LET next == Following(shape, w)
         IN  /\ next \in ListsOf(shape) <=> next[1] <= Len(shape)
             /\ next # Root /\ next # <<1, 0>>
             /\ {v \in ListsOf(shape) : Before(v, next)}
                  = {v \in ListsOf(shape) : Before(v, w)} \cup {w}
             /\ next \notin ListsOf(shape) =>
                  ListsOf(shape) = {v \in ListsOf(shape) : Before(v, w)} \cup {w}
             /\ \A v \in ListsOf(shape) : Following(shape, v) = next => v = w
             /\ ~Before(w, w)
  <1> DEFINE next == Following(shape, w)
  <1>0. /\ w = <<w[1], w[2]>> /\ w[1] \in 1 .. Len(shape) /\ w[2] \in 0 .. shape[w[1]]
        /\ shape[w[1]] \in Nat
    BY ListsAre
  <1>1. \A v \in ListsOf(shape) : /\ v = <<v[1], v[2]>> /\ v[1] \in 1 .. Len(shape)
                                  /\ v[2] \in 0 .. shape[v[1]] /\ shape[v[1]] \in Nat
    BY ListsAre
  <1>2. next \in ListsOf(shape) <=> next[1] <= Len(shape)
    <2>1. CASE w[2] < shape[w[1]]
      BY <1>0, <2>1, ListsAre DEF Following
    <2>2. CASE ~(w[2] < shape[w[1]])
      <3>1. next = <<w[1] + 1, 0>>
        BY <2>2 DEF Following
      <3>2. CASE w[1] + 1 <= Len(shape)
        <4>1. w[1] + 1 \in 1 .. Len(shape) /\ 0 \in 0 .. shape[w[1] + 1]
          BY <1>0, <3>2
        <4> QED BY <3>1, <3>2, <4>1, ListsAre
      <3>3. CASE ~(w[1] + 1 <= Len(shape))
        BY <1>0, <1>1, <3>1, <3>3
      <3> QED BY <3>2, <3>3
    <2> QED BY <2>1, <2>2
  <1>3. next # Root /\ next # <<1, 0>>
    BY <1>0 DEF Following, Root
  <1>4. ASSUME NEW v \in ListsOf(shape)
        PROVE  Before(v, next) <=> Before(v, w) \/ v = w
    <2>1. CASE w[2] < shape[w[1]]
      BY <1>0, <1>1, <2>1 DEF Following, Before
    <2>2. CASE ~(w[2] < shape[w[1]])
      <3>1. next = <<w[1] + 1, 0>> /\ w[2] = shape[w[1]]
        BY <1>0, <2>2 DEF Following
      <3>2. Before(v, next) <=> v[1] <= w[1]
        BY <1>0, <1>1, <3>1 DEF Before
      <3>3. v[1] = w[1] => v[2] <= w[2]
        BY <1>1, <3>1
      <3>4. v = w <=> v[1] = w[1] /\ v[2] = w[2]
        BY <1>0, <1>1
      <3>5. v[1] \in Nat /\ v[2] \in Nat /\ w[1] \in Nat /\ w[2] \in Nat
        BY <1>0, <1>1
      <3> QED BY <3>2, <3>3, <3>4, <3>5 DEF Before
    <2> QED BY <2>1, <2>2
  <1>5. ASSUME NEW v \in ListsOf(shape), next \notin ListsOf(shape)
        PROVE  Before(v, w) \/ v = w
    <2>1. /\ v = <<v[1], v[2]>> /\ v[1] \in 1 .. Len(shape) /\ v[2] \in 0 .. shape[v[1]]
          /\ w = <<w[1], w[2]>> /\ w[1] \in 1 .. Len(shape) /\ w[2] \in 0 .. shape[w[1]]
          /\ shape[v[1]] \in Nat /\ shape[w[1]] \in Nat /\ Len(shape) \in Nat
      BY <1>0, <1>1
    <2>2. next[1] > Len(shape)
      <3>1. next[1] \in Nat
        BY <2>1 DEF Following
      <3> QED BY <1>2, <1>5, <2>1, <3>1
    <2>3. ~(w[2] < shape[w[1]]) /\ next[1] = w[1] + 1
      BY <2>1, <2>2 DEF Following
    <2>4. v[1] <= w[1] /\ w[2] = shape[w[1]]
      BY ONLY <2>1, <2>2, <2>3
    <2>5. v[1] = w[1] => v[2] <= w[2]
      BY ONLY <2>1, <2>4
    <2>6. v = w <=> v[1] = w[1] /\ v[2] = w[2]
      BY ONLY <2>1
    <2> QED BY ONLY <2>1, <2>4, <2>5, <2>6 DEF Before
  <1>6. ASSUME NEW v \in ListsOf(shape), Following(shape, v) = next PROVE v = w
    <2>1. /\ v[1] \in Nat /\ v[2] \in Nat /\ w[1] \in Nat /\ w[2] \in Nat
          /\ v = w <=> v[1] = w[1] /\ v[2] = w[2]
      BY <1>0, <1>1
    <2>2. v[2] <= shape[v[1]] /\ w[2] <= shape[w[1]] /\ shape[v[1]] \in Nat /\ shape[w[1]] \in Nat
      BY <1>0, <1>1
    <2>3. CASE v[2] < shape[v[1]] /\ w[2] < shape[w[1]]
      <3>1. <<v[1], v[2] + 1>> = <<w[1], w[2] + 1>>
        BY <1>6, <2>3 DEF Following
      <3> QED BY <2>1, <3>1
    <2>4. CASE v[2] < shape[v[1]] /\ ~(w[2] < shape[w[1]])
      <3>1. <<v[1], v[2] + 1>> = <<w[1] + 1, 0>>
        BY <1>6, <2>4 DEF Following
      <3> QED BY <2>1, <3>1
    <2>5. CASE ~(v[2] < shape[v[1]]) /\ w[2] < shape[w[1]]
      <3>1. <<v[1] + 1, 0>> = <<w[1], w[2] + 1>>
        BY <1>6, <2>5 DEF Following
      <3> QED BY <2>1, <3>1
    <2>6. CASE ~(v[2] < shape[v[1]]) /\ ~(w[2] < shape[w[1]])
      <3>1. <<v[1] + 1, 0>> = <<w[1] + 1, 0>>
        BY <1>6, <2>6 DEF Following
      <3>2. v[1] = w[1]
        BY <2>1, <3>1
      <3> QED BY <2>1, <2>2, <2>6, <3>2
    <2> QED BY <2>3, <2>4, <2>5, <2>6
  <1>7. ~Before(w, w)
    BY <1>0 DEF Before
  <1> HIDE DEF next
  <1> QED BY <1>2, <1>3, <1>4, <1>5, <1>6, <1>7 DEF next

\* The order is total.
LEMMA BeforeTotal ==
  ASSUME NEW shape \in Seq(Nat), NEW v \in ListsOf(shape), NEW w \in ListsOf(shape)
  PROVE  /\ Before(v, w) \/ Before(w, v) \/ v = w
         /\ ~(Before(v, w) /\ Before(w, v))
  <1>1. /\ v = <<v[1], v[2]>> /\ v[1] \in Nat /\ v[2] \in Nat
        /\ w = <<w[1], w[2]>> /\ w[1] \in Nat /\ w[2] \in Nat
    BY ListsAre
  <1> QED BY <1>1 DEF Before

\* The first list is that of the first disk.
LEMMA FirstList ==
  ASSUME NEW shape \in Seq(Nat), shape # <<>>
  PROVE  /\ <<1, 0>> \in ListsOf(shape) /\ <<1, 0>> # Root
         /\ {v \in ListsOf(shape) : Before(v, <<1, 0>>)} = {}
         /\ \A v \in ListsOf(shape) : Following(shape, v) # <<1, 0>>
  <1>1. 1 \in 1 .. Len(shape) /\ 0 \in 0 .. shape[1]
    <2>1. Len(shape) # 0
      OBVIOUS
    <2> QED BY <2>1
  <1>2. \A v \in ListsOf(shape) : ~Before(v, <<1, 0>>)
    BY ListsAre DEF Before
  <1> QED BY <1>1, <1>2, ListsAre, FollowingIs DEF Root

-----------------------------------------------------------------------------
(* Framing: reading a file.                                                *)

\* A list of one block more.
LEMMA SoundAppend ==
  ASSUME NEW l, Sound(l), NEW b \in Block, Len(l) < MaxBlocks,
         \A i \in DOMAIN l : ~l[i].head.last,
         l # <<>> => b.at = ListEnd(l)
  PROVE  /\ Sound(Append(l, b)) /\ Append(l, b) # <<>>
         /\ Last(Append(l, b)) = b /\ ListEnd(Append(l, b)) = BlockEnd(b)
         /\ Append(l, b)[1] = IF l = <<>> THEN b ELSE l[1]
         /\ \A i \in DOMAIN Append(l, b) : i # Len(l) + 1 => ~Append(l, b)[i].head.last
         /\ Len(Append(l, b)) = Len(l) + 1
  <1> DEFINE m == Append(l, b)
  <1>1. /\ l \in Seq(Block) /\ m \in Seq(Block) /\ Len(m) = Len(l) + 1
        /\ \A i \in 1 .. Len(l) : m[i] = l[i]
        /\ m[Len(l) + 1] = b
    BY DEF Sound
  <1>2. m # <<>> /\ Last(m) = b /\ ListEnd(m) = BlockEnd(b)
    <2>1. Len(l) \in Nat
      BY <1>1
    <2> HIDE DEF m
    <2>2. m # <<>>
      BY <1>1, <2>1
    <2>3. Last(m) = b
      BY <1>1 DEF Last
    <2> QED BY <2>2, <2>3 DEF ListEnd
  <1>3. m[1] = IF l = <<>> THEN b ELSE l[1]
    BY <1>1
  <1>4. \A i \in 1 .. Len(m) - 1 : ~m[i].head.last
    BY <1>1
  <1>5. ASSUME NEW i \in 1 .. Len(m) - 1 PROVE m[i + 1].at = BlockEnd(m[i])
    <2>1. CASE i = Len(l)
      <3>1. l # <<>> /\ Last(l) = l[i] /\ m[i] = l[i] /\ m[i + 1] = b
        BY <1>1, <2>1 DEF Last
      <3> QED BY <3>1 DEF ListEnd
    <2>2. CASE i < Len(l)
      <3>1. i \in 1 .. Len(l) - 1 /\ m[i] = l[i] /\ m[i + 1] = l[i + 1]
        BY <1>1, <2>2
      <3> QED BY <3>1 DEF Sound, Contiguous
    <2> QED BY <1>1, <2>1, <2>2
  <1>6. Len(m) <= MaxBlocks
    BY <1>1, FramingAssumption
  <1>7. Sound(m)
    BY <1>1, <1>4, <1>5, <1>6 DEF Sound, Contiguous
  <1> HIDE DEF m
  <1>8. \A i \in DOMAIN m : i # Len(l) + 1 => ~m[i].head.last
    BY <1>1, <1>4
  <1> QED BY <1>1, <1>2, <1>3, <1>7, <1>8 DEF m

LEMMA HeadersTyped == Headers \subseteq HeadType
  <1>1. Lengths \subseteq Nat /\ 0 \in Nat
    BY FramingAssumption
  <1>2. [name : {"json", "index", "aux"}, len : Lengths, last : BOOLEAN, form : {"plain"}]
          \subseteq HeadType
    BY <1>1 DEF HeadType
  <1>3. [name : {"json"}, len : {0}, last : {TRUE}, form : {"packed", "encrypted"}]
          \subseteq HeadType
    BY <1>1 DEF HeadType
  <1>4. [name : {"index"}, len : {0}, last : {TRUE}, form : {"packed"}] \subseteq HeadType
    BY <1>1 DEF HeadType
  <1> QED BY <1>2, <1>3, <1>4 DEF Headers

\* The end of a block, and of a list, is a number.
LEMMA EndsTyped ==
  ASSUME NEW l, Sound(l), l # <<>>
  PROVE  /\ ListEnd(l) \in Nat /\ Last(l) = l[Len(l)] /\ Last(l) \in Block
         /\ Len(l) \in Nat \ {0} /\ DOMAIN l = 1 .. Len(l)
         /\ \A i \in DOMAIN l : /\ l[i] \in Block /\ l[i].at \in Nat /\ l[i].head \in HeadType
                              /\ BlockEnd(l[i]) \in Nat /\ l[i].at < BlockEnd(l[i])
  <1>1. /\ l \in Seq(Block) /\ Len(l) \in Nat \ {0} /\ DOMAIN l = 1 .. Len(l)
        /\ \A i \in DOMAIN l : l[i] \in Block
    BY DEF Sound
  <1>2. \A b \in Block : /\ b.at \in Nat /\ b.head \in HeadType
                         /\ BlockEnd(b) \in Nat /\ b.at < BlockEnd(b)
    BY DEF Block, HeadType, BlockEnd
  <1>3. Last(l) = l[Len(l)]
    BY DEF Last
  <1> QED BY <1>1, <1>2, <1>3 DEF ListEnd

\* First is a block of the list, and no block before it has the name.
LEMMA FirstIs ==
  ASSUME NEW l \in Seq(Block), NEW name, Named(l, name) # {}
  PROVE  /\ First(l, name) \in Block /\ First(l, name).head.name = name
         /\ \E i \in DOMAIN l : /\ First(l, name) = l[i] /\ i = Min(Named(l, name))
                              /\ \A j \in DOMAIN l : l[j].head.name = name => i <= j
  <1>1. Named(l, name) \in SUBSET Nat
    BY DEF Named
  <1>2. Min(Named(l, name)) \in Named(l, name) /\ \A j \in Named(l, name) : Min(Named(l, name)) <= j
    BY <1>1, MinIsMember
  <1> DEFINE i == Min(Named(l, name))
  <1>3. i \in DOMAIN l /\ l[i].head.name = name
    BY <1>2 DEF Named
  <1>4. \A j \in DOMAIN l : l[j].head.name = name => i <= j
    BY <1>2 DEF Named
  <1>5. First(l, name) = l[i]
    BY DEF First
  <1> HIDE DEF i
  <1>6. l[i] \in Block
    BY <1>3
  <1> QED BY <1>3, <1>4, <1>5, <1>6 DEF i

LEMMA FInit == Init => FInv
  <1> SUFFICES ASSUME Init PROVE FInv
    OBVIOUS
  <1>1. Sound(list)
    BY FramingAssumption DEF Init, Sound, Contiguous
  <1>2. DOMAIN lists = {} /\ DOMAIN known = {}
    BY DEF Init
  <1>3. Types
    BY <1>2 DEF Init, Types
  <1> QED BY <1>1, <1>2, <1>3 DEF Init, FInv, Walking, Read, Accepted

LEMMA FReadFooter == FInv /\ ReadFooter => FInv'
  <1> SUFFICES ASSUME FInv, ReadFooter PROVE FInv'
    OBVIOUS
  <1>1. /\ pc' \in {"walk", "refused"} /\ which' = Root /\ at' = root /\ list' = <<>>
        /\ DOMAIN lists' = {} /\ UNCHANGED <<phase, size, root, known, doc>>
    BY DEF ReadFooter, Go, fileVars
  <1>2. Types'
    BY <1>1 DEF FInv, Types
  <1>3. Sound(list')
    BY <1>1, FramingAssumption DEF Sound, Contiguous
  <1>4. Sound(list)'
    BY <1>3 DEF Sound, Contiguous, BlockEnd
  <1>5. Read'
    BY <1>1, <1>4 DEF Read, Joined
  <1>6. Walking'
    BY <1>1, FramingAssumption DEF Walking, From
  <1>7. Accepted'
    BY <1>1 DEF Accepted
  <1> QED BY <1>2, <1>5, <1>6, <1>7 DEF FInv

\* What a header that is read does.
LEMMA HeaderRead ==
  ASSUME FInv, ReadHeader
  PROVE  /\ pc = "walk" /\ UNCHANGED <<phase, size, root, doc, which, lists, to, projected>>
         /\ \/ pc' = "refused" /\ UNCHANGED <<known, at, list>>
            \/ \E h \in HeadType :
                 /\ at + HeaderLen <= size
                 /\ at \in DOMAIN known => h = known[at]
                 /\ known' = [o \in DOMAIN known \cup {at} |-> IF o = at THEN h ELSE known[o]]
                 /\ list' = Append(list, [at |-> at, head |-> h])
                 /\ at' = BlockEnd([at |-> at, head |-> h])
                 /\ pc' = IF h.last THEN "listed"
                          ELSE IF Len(list') < MaxBlocks THEN "walk" ELSE "refused"
  <1>1. at \in DOMAIN known => known[at] \in HeadType
    BY DEF FInv, Types
  <1>2. CASE ~InFile(at)
    BY <1>2 DEF ReadHeader, Go
  <1>3. CASE InFile(at)
    <2>1. PICK h \in IF at \in DOMAIN known THEN {known[at]} ELSE Headers :
            LET block == [at |-> at, head |-> h]
            IN  /\ known' = [o \in DOMAIN known \cup {at} |-> IF o = at THEN h ELSE known[o]]
                /\ list' = Append(list, block)
                /\ at' = BlockEnd(block)
                /\ Go(IF h.last THEN "listed"
                      ELSE IF MayGoOn(Len(list')) THEN "walk" ELSE "refused")
      BY <1>3 DEF ReadHeader
    <2>2. h \in HeadType /\ (at \in DOMAIN known => h = known[at])
      BY <1>1, <2>1, HeadersTyped
    <2>3. /\ pc = "walk" /\ UNCHANGED <<phase, size, root, doc, which, lists, to, projected>>
      BY DEF ReadHeader
    <2>4. /\ at + HeaderLen <= size
          /\ pc' = IF h.last THEN "listed"
                   ELSE IF Len(list') < MaxBlocks THEN "walk" ELSE "refused"
      BY <1>3, <2>1 DEF InFile, Go, MayGoOn
    <2> QED BY <2>1, <2>2, <2>3, <2>4
  <1> QED BY <1>2, <1>3

LEMMA FReadHeader == FInv /\ ReadHeader => FInv'
  <1> SUFFICES ASSUME FInv, ReadHeader PROVE FInv'
    OBVIOUS
  <1>1. /\ pc = "walk" /\ UNCHANGED <<phase, size, root, doc, which, lists, to, projected>>
    BY HeaderRead
  <1>2. Sound(list) /\ Types /\ Walking /\ Read
    BY DEF FInv, Read
  <1>3. CASE pc' = "refused" /\ UNCHANGED <<known, at, list>>
    <2>1. Types'
      BY <1>1, <1>2, <1>3 DEF Types
    <2>2. Read'
      BY <1>1, <1>2, <1>3 DEF Read, Sound, Contiguous, BlockEnd, Ended, Joined, ListEnd
    <2>3. Walking' /\ Accepted'
      BY <1>3 DEF Walking, Accepted
    <2> QED BY <2>1, <2>2, <2>3 DEF FInv
  <1>4. CASE ~(pc' = "refused" /\ UNCHANGED <<known, at, list>>)
    <2>1. PICK h \in HeadType :
                 /\ at + HeaderLen <= size
                 /\ known' = [o \in DOMAIN known \cup {at} |-> IF o = at THEN h ELSE known[o]]
                 /\ list' = Append(list, [at |-> at, head |-> h])
                 /\ at' = BlockEnd([at |-> at, head |-> h])
                 /\ pc' = IF h.last THEN "listed"
                          ELSE IF Len(list') < MaxBlocks THEN "walk" ELSE "refused"
      BY <1>4, HeaderRead
    <2> DEFINE b == [at |-> at, head |-> h]
    <2>2. b \in Block /\ BlockEnd(b) \in Nat /\ b.head = h /\ b.at = at
      BY <1>2 DEF Types, Block, HeadType, BlockEnd
    <2>3. /\ Len(list) < MaxBlocks /\ \A i \in DOMAIN list : ~list[i].head.last
          /\ list # <<>> => b.at = ListEnd(list)
      BY <1>1, <1>2, <2>2 DEF Walking
    <2> HIDE DEF b
    <2>4. list' = Append(list, b) /\ at' = BlockEnd(b)
      BY <2>1 DEF b
    <2>5. /\ Sound(list') /\ list' # <<>>
          /\ Last(list') = b /\ ListEnd(list') = BlockEnd(b)
          /\ list'[1] = IF list = <<>> THEN b ELSE list[1]
          /\ \A i \in DOMAIN list' : i # Len(list) + 1 => ~list'[i].head.last
          /\ Len(list') = Len(list) + 1
      BY <1>2, <2>2, <2>3, <2>4, SoundAppend
    <2>6. Types'
      BY <1>1, <1>2, <2>1, <2>2, <2>4 DEF Types
    <2>7. Read'
      BY <1>1, <1>2, <2>5 DEF Read, Sound, Contiguous, BlockEnd, Ended, Joined, ListEnd
    <2>8. Accepted'
      BY <2>1 DEF Accepted
    <2>9. From' = From
      BY <2>2, <2>5 DEF From
    <2>10. Walking'
      <3>1. at' = ListEnd(list')
        BY <2>4, <2>5
      <3>2. pc' = "listed" => h.last
        BY <2>1
      <3>3. pc' = "walk" => ~h.last /\ Len(list') < MaxBlocks
        BY <2>1
      <3>4. pc' = "walk" => \A i \in DOMAIN list' : ~list'[i].head.last
        <4>1. Last(list') = list'[Len(list) + 1]
          BY <2>5 DEF Last
        <4> QED BY <2>2, <2>5, <3>3, <4>1
      <3>5. pc' = "listed" => Ended(list)'
        BY <2>2, <2>5, <3>2 DEF Ended, Sound, Contiguous, BlockEnd
      <3>6. ListEnd(list)' = ListEnd(list')
        BY DEF ListEnd, BlockEnd
      <3> QED BY <1>1, <1>2, <2>9, <3>1, <3>3, <3>4, <3>5, <3>6 DEF Walking, ListEnd, BlockEnd
    <2> QED BY <2>6, <2>7, <2>8, <2>10 DEF FInv
  <1> QED BY <1>3, <1>4

\* A list with an end is one of the lists, and the walk goes on or stops.
LEMMA ListKept ==
  ASSUME FInv, pc = "listed",
         lists' = [v \in DOMAIN lists \cup {which} |-> IF v = which THEN list ELSE lists[v]]
  PROVE  /\ DOMAIN lists' = DOMAIN lists \cup {which}
         /\ lists'[which] = list /\ \A v \in DOMAIN lists : v # which => lists'[v] = lists[v]
         /\ which \notin DOMAIN lists
         /\ \A w \in DOMAIN lists' : Ended(lists'[w])
         /\ list # <<>> /\ From = list[1].at /\ at = ListEnd(list)
  <1>1. Walking /\ Read
    BY DEF FInv
  <1>2. Ended(list) /\ list # <<>> /\ at = ListEnd(list)
    BY <1>1 DEF Walking, Ended
  <1>3. which \notin DOMAIN lists
    <2>1. CASE which = Root
      BY <1>1, <2>1 DEF Walking
    <2>2. CASE which # Root
      <3>1. /\ doc.shape \in Seq(Nat) /\ which \in ListsOf(doc.shape)
            /\ DOMAIN lists = {Root} \cup {v \in ListsOf(doc.shape) : Before(v, which)}
        BY <1>1, <2>2 DEF Walking, HasRegion, DocType
      <3> QED BY <2>2, <3>1, FollowingIs
    <2> QED BY <2>1, <2>2
  <1>4. \A w \in DOMAIN lists : Ended(lists[w])
    BY <1>1 DEF Read
  <1> QED BY <1>2, <1>3, <1>4 DEF From

\* The lists that were read, with the one that ended, begin where they should.
LEMMA JoinedKept ==
  ASSUME FInv, pc = "listed", which # Root,
         lists' = [v \in DOMAIN lists \cup {which} |-> IF v = which THEN list ELSE lists[v]]
  PROVE  Joined(doc, root, lists')
  <1> DEFINE ls == lists'
  <1>1. /\ DOMAIN ls = DOMAIN lists \cup {which}
        /\ ls[which] = list /\ \A v \in DOMAIN lists : v # which => ls[v] = lists[v]
        /\ which \notin DOMAIN lists /\ From = list[1].at
    BY ListKept
  <1>2. /\ doc.shape \in Seq(Nat) /\ which \in ListsOf(doc.shape)
        /\ DOMAIN lists = {Root} \cup {v \in ListsOf(doc.shape) : Before(v, which)}
        /\ which = <<1, 0>> => From = doc.dataEnd
        /\ \A v \in ListsOf(doc.shape) : Following(doc.shape, v) = which => From = ListEnd(lists[v])
    BY DEF FInv, Walking, HasRegion, DocType
  <1>3. Joined(doc, root, lists)
    BY DEF FInv, Read
  <1> HIDE DEF ls
  <1>4. ASSUME NEW v \in DOMAIN ls \ {Root}, NEW w \in DOMAIN ls \ {Root}, w = Following(doc.shape, v)
        PROVE  ls[w][1].at = ListEnd(ls[v])
    <2>1. v \in ListsOf(doc.shape) /\ w \in ListsOf(doc.shape)
      BY <1>1, <1>2
    <2>2. Before(v, w) /\ v # w
      BY <1>4, <2>1, <1>2, FollowingIs
    <2>3. CASE v = which
      <3>1. Before(w, which)
        BY <1>1, <1>2, <2>2, <2>3
      <3> QED BY <1>2, <2>1, <2>2, <2>3, <3>1, BeforeTotal
    <2>4. CASE v # which /\ w = which
      BY <1>1, <1>2, <1>4, <2>1, <2>4
    <2>5. CASE v # which /\ w # which
      BY <1>1, <1>3, <1>4, <2>5 DEF Joined
    <2> QED BY <2>3, <2>4, <2>5
  <1>5. Root \in DOMAIN ls => ls[Root][1].at = root
    BY <1>1, <1>2, <1>3, RootApart DEF Joined
  <1>6. <<1, 0>> \in DOMAIN ls => ls[<<1, 0>>][1].at = doc.dataEnd
    BY <1>1, <1>2, <1>3 DEF Joined
  <1>7. Joined(doc, root, ls)
    BY <1>4, <1>5, <1>6 DEF Joined
  <1> QED BY <1>7 DEF ls

LEMMA FReadDocument == FInv /\ ReadDocument => FInv'
  <1> SUFFICES ASSUME FInv, ReadDocument PROVE FInv'
    OBVIOUS
  <1> DEFINE ls == [v \in DOMAIN lists \cup {which} |-> IF v = which THEN list ELSE lists[v]]
  <1>1. /\ pc = "listed" /\ which = Root /\ lists' = ls
        /\ UNCHANGED <<phase, size, root, known, to, projected>>
    BY DEF ReadDocument, Finish, WalkList, fileVars
  <1>2. Types /\ Walking /\ Read
    BY DEF FInv
  <1>3. /\ DOMAIN lists = {} /\ DOMAIN lists' = {Root} /\ lists'[Root] = list
        /\ \A w \in DOMAIN lists' : Ended(lists'[w])
        /\ lists'[Root][1].at = root
    <2>1. DOMAIN lists = {} /\ From = root
      BY <1>1, <1>2 DEF Walking
    <2> QED BY <1>1, <2>1, ListKept
  <1>4. \A d : Joined(d, root, lists')
    <2>1. <<1, 0>> # Root
      BY DEF Root
    <2> QED BY <1>3, <2>1 DEF Joined
  <1>5. \/ pc' = "refused" /\ UNCHANGED <<doc, which, at, list>>
        \/ /\ Named(list, "json") # {} /\ doc' \in DocType
           /\ \/ doc'.split /\ pc' = "accepted" /\ UNCHANGED <<which, at, list>>
              \/ pc' = "refused" /\ UNCHANGED <<which, at, list>>
              \/ /\ HasRegion(doc') /\ pc' = "walk"
                 /\ which' = <<1, 0>> /\ at' = doc'.dataEnd /\ list' = <<>>
    <2> DEFINE block == First(list, "json")
               readable == /\ Named(list, "json") # {} /\ block.head.form # "encrypted"
                           /\ Whole(block)
    <2>1. CASE ~readable
      BY <2>1 DEF ReadDocument, Finish, Go
    <2>2. CASE readable /\ phase = "to" /\ Finish("refused") /\ UNCHANGED doc
      BY <2>2 DEF Finish, Go
    <2>3. CASE /\ readable
               /\ \E d \in IF phase = "output" THEN {doc} ELSE Docs(block.head) :
                   /\ doc' = d
                   /\ IF doc'.split THEN Finish("accepted")
                      ELSE IF doc'.dataEnd >= root THEN Finish("refused")
                      ELSE IF doc'.shape = <<>> THEN Finish("refused")
                      ELSE WalkList(<<1, 0>>, doc'.dataEnd)
      <3>1. list \in Seq(Block)
        BY <1>2 DEF Read, Sound
      <3>2. TextLengths(block.head) \subseteq Nat
        <4>1. block.head.len \in Nat
          BY <2>3, <3>1, FirstIs DEF Block, HeadType
        <4> QED BY <4>1, FramingAssumption DEF TextLengths
      <3>3. Docs(block.head) \subseteq DocType
        <4> DEFINE texts == TextLengths(block.head)
        <4>1. /\ 0 .. size \subseteq Nat /\ Shapes \subseteq Seq(Nat) /\ <<>> \in Seq(Nat)
              /\ texts \subseteq Nat
          BY <1>2, <3>2, FramingAssumption DEF Types
        <4> HIDE DEF texts
        <4>2. ASSUME NEW d \in [dataEnd : 0 .. size, shape : Shapes, split : {FALSE}, text : texts]
              PROVE  d \in DocType
          <5>1. /\ d.dataEnd \in Nat /\ d.shape \in Seq(Nat) /\ d.split \in BOOLEAN
                /\ d.text \in Nat
            BY <4>1
          <5>2. d = [dataEnd |-> d.dataEnd, shape |-> d.shape, split |-> d.split, text |-> d.text]
            OBVIOUS
          <5> QED BY <5>1, <5>2 DEF DocType
        <4>3. ASSUME NEW d \in [dataEnd : {0}, shape : {<<>>}, split : {TRUE}, text : texts]
              PROVE  d \in DocType
          <5>1. d.dataEnd = 0 /\ d.shape = <<>> /\ d.text \in texts
            OBVIOUS
          <5>2. d.split \in BOOLEAN
            <6>1. d.split \in {TRUE}
              OBVIOUS
            <6> QED BY <6>1, Zenon
          <5>3. d = [dataEnd |-> d.dataEnd, shape |-> d.shape, split |-> d.split, text |-> d.text]
            OBVIOUS
          <5>4. d.dataEnd \in Nat /\ d.shape \in Seq(Nat) /\ d.text \in Nat
            <6>1. d.text \in Nat
              BY ONLY <4>1, <5>1
            <6>2. d.dataEnd \in Nat
              BY ONLY <5>1
            <6>3. d.shape \in Seq(Nat)
              BY ONLY <4>1, <5>1
            <6> QED BY ONLY <6>1, <6>2, <6>3
          <5> QED BY <5>2, <5>3, <5>4 DEF DocType
        <4> QED BY <4>2, <4>3 DEF Docs, texts
      <3>4. doc' \in DocType
        <4>1. CASE phase = "output"
          BY <1>2, <2>3, <4>1 DEF Types, HasRegion
        <4>2. CASE phase # "output"
          BY <2>3, <3>3, <4>2
        <4> QED BY <4>1, <4>2
      <3>5. \/ doc'.split /\ Finish("accepted")
            \/ Finish("refused")
            \/ ~doc'.split /\ doc'.shape # <<>> /\ WalkList(<<1, 0>>, doc'.dataEnd)
        BY <2>3
      <3> QED BY <2>3, <3>4, <3>5 DEF Finish, WalkList, Go, HasRegion
    <2>4. \/ ~readable
          \/ readable /\ phase = "to" /\ Finish("refused") /\ UNCHANGED doc
          \/ /\ readable
             /\ \E d \in IF phase = "output" THEN {doc} ELSE Docs(block.head) :
                   /\ doc' = d
                   /\ IF doc'.split THEN Finish("accepted")
                      ELSE IF doc'.dataEnd >= root THEN Finish("refused")
                      ELSE IF doc'.shape = <<>> THEN Finish("refused")
                      ELSE WalkList(<<1, 0>>, doc'.dataEnd)
      BY <1>1 DEF ReadDocument
    <2> QED BY <2>1, <2>2, <2>3, <2>4
  <1>6. doc' = doc \/ doc' \in DocType
    BY <1>5
  <1>7. phase = "output" => HasRegion(doc')
    BY <1>1, <1>2 DEF ReadDocument, Types
  <1>8. Types'
    BY <1>1, <1>2, <1>5, <1>7 DEF Types, DocType
  <1>9. Sound(list')
    <2>1. Sound(<<>>)
      BY FramingAssumption DEF Sound, Contiguous
    <2> QED BY <1>2, <1>5, <2>1 DEF Read
  <1>10. Read'
    <2>1. pc' # "footer"
      BY <1>5
    <2>2. root' = root
      BY <1>1
    <2> HIDE DEF ls
    <2>3. Sound(list)'
      BY <1>9 DEF Sound, Contiguous, BlockEnd
    <2>4. \A w \in DOMAIN lists' : Ended(lists'[w])
      BY <1>3
    <2>5. (\A w \in DOMAIN lists : Ended(lists[w]))'
      BY <2>4 DEF Ended, Sound, Contiguous, BlockEnd
    <2>6. Joined(doc', root', lists')
      BY <1>4, <2>2
    <2>7. Joined(doc, root, lists)'
      BY <2>6 DEF Joined, ListEnd, BlockEnd
    <2> QED BY <2>3, <2>5, <2>7 DEF Read
  <1>11. Walking'
    <2> SUFFICES ASSUME pc' = "walk" PROVE Walking'
      BY <1>5 DEF Walking
    <2>1. /\ HasRegion(doc') /\ which' = <<1, 0>> /\ at' = doc'.dataEnd /\ list' = <<>>
          /\ Named(list, "json") # {}
      BY <1>5
    <2>2. /\ <<1, 0>> \in ListsOf(doc'.shape) /\ <<1, 0>> # Root
          /\ {v \in ListsOf(doc'.shape) : Before(v, <<1, 0>>)} = {}
          /\ \A v \in ListsOf(doc'.shape) : Following(doc'.shape, v) # <<1, 0>>
      BY <2>1, FirstList DEF HasRegion, DocType
    <2>3. Named(lists[Root], "json")' # {}
      BY <1>3, <2>1 DEF Named
    <2> QED BY <1>3, <2>1, <2>2, <2>3, FramingAssumption DEF Walking, From, HasRegion
  <1>12. Accepted'
    <2> SUFFICES ASSUME pc' = "accepted" PROVE Accepted'
      BY DEF Accepted
    <2>1. doc'.split /\ doc' \in DocType /\ Named(list, "json") # {}
      BY <1>5
    <2> QED BY <1>3, <2>1 DEF Accepted, Named
  <1> QED BY <1>8, <1>10, <1>11, <1>12 DEF FInv

LEMMA FEndList == FInv /\ EndList => FInv'
  <1> SUFFICES ASSUME FInv, EndList PROVE FInv'
    OBVIOUS
  <1> DEFINE next == Following(doc.shape, which)
  <1>1. /\ pc = "listed" /\ which # Root
        /\ lists' = [v \in DOMAIN lists \cup {which} |-> IF v = which THEN list ELSE lists[v]]
        /\ UNCHANGED <<phase, size, root, known, doc, to, projected>>
        /\ \/ pc' = "refused" /\ UNCHANGED <<which, at, list>>
           \/ /\ next[1] <= Len(doc.shape) /\ pc' = "walk"
              /\ which' = next /\ at' = at /\ list' = <<>>
           \/ /\ ~(next[1] <= Len(doc.shape)) /\ at = root /\ pc' = "accepted"
              /\ UNCHANGED <<which, at, list>>
    BY DEF EndList, Finish, WalkList, Go, fileVars, EndsAtRoot
  <1>2. Types /\ Walking /\ Read
    BY DEF FInv
  <1>3. /\ HasRegion(doc) /\ doc.shape \in Seq(Nat) /\ which \in ListsOf(doc.shape)
        /\ DOMAIN lists = {Root} \cup {v \in ListsOf(doc.shape) : Before(v, which)}
        /\ Named(lists[Root], "json") # {}
    BY <1>1, <1>2 DEF Walking, HasRegion, DocType
  <1>4. /\ DOMAIN lists' = DOMAIN lists \cup {which}
        /\ lists'[which] = list /\ \A v \in DOMAIN lists : v # which => lists'[v] = lists[v]
        /\ \A w \in DOMAIN lists' : Ended(lists'[w])
        /\ at = ListEnd(list)
    BY <1>1, ListKept
  <1>5. Joined(doc, root, lists')
    BY <1>1, JoinedKept
  <1>6. /\ next \in ListsOf(doc.shape) <=> next[1] <= Len(doc.shape)
        /\ next # Root /\ next # <<1, 0>>
        /\ {v \in ListsOf(doc.shape) : Before(v, next)}
             = {v \in ListsOf(doc.shape) : Before(v, which)} \cup {which}
        /\ next \notin ListsOf(doc.shape) =>
             ListsOf(doc.shape) = {v \in ListsOf(doc.shape) : Before(v, which)} \cup {which}
        /\ \A v \in ListsOf(doc.shape) : Following(doc.shape, v) = next => v = which
    BY <1>3, FollowingIs
  <1> HIDE DEF next
  <1>7. Types'
    BY <1>1, <1>2 DEF Types, HasRegion, DocType
  <1>8. Sound(list')
    <2>1. Sound(<<>>)
      BY FramingAssumption DEF Sound, Contiguous
    <2> QED BY <1>1, <1>2, <2>1 DEF Read
  <1>9. Read'
    <2>1. pc' # "footer"
      BY <1>1
    <2>2. Joined(doc', root', lists')
      BY <1>1, <1>5
    <2>3. Joined(doc, root, lists)'
      BY <2>2 DEF Joined, ListEnd, BlockEnd
    <2> QED BY <1>4, <1>8, <2>1, <2>3 DEF Read, Ended, Sound, Contiguous, BlockEnd
  <1>10. Root \in DOMAIN lists' /\ lists'[Root] = lists[Root]
    BY <1>1, <1>3, <1>4
  <1>11. Walking'
    <2> SUFFICES ASSUME pc' = "walk" PROVE Walking'
      BY <1>1 DEF Walking
    <2>1. /\ next[1] <= Len(doc.shape)
          /\ which' = next /\ at' = at /\ list' = <<>>
      BY <1>1
    <2>2. which' \in ListsOf(doc'.shape) /\ which' # Root /\ which' # <<1, 0>>
      BY <1>1, <1>6, <2>1
    <2>3. DOMAIN lists' = {Root} \cup {v \in ListsOf(doc'.shape) : Before(v, which')}
      BY <1>1, <1>3, <1>4, <1>6, <2>1
    <2>4. ASSUME NEW v \in ListsOf(doc'.shape), Following(doc'.shape, v) = which'
          PROVE  at' = ListEnd(lists'[v])
      <3>1. v = which
        BY <1>1, <1>6, <2>1, <2>4
      <3> QED BY <1>4, <2>1, <3>1
    <2>5. HasRegion(doc')
      BY <1>1, <1>3
    <2>6. Named(lists'[Root], "json") # {}
      BY <1>3, <1>10
    <2>7. Len(list') < MaxBlocks /\ DOMAIN list' = {}
      BY <2>1, FramingAssumption
    <2> QED BY <1>1, <2>1, <2>2, <2>3, <2>4, <2>5, <2>6, <2>7
         DEF Walking, From, HasRegion, Named, ListEnd, BlockEnd
  <1>12. Accepted'
    <2> SUFFICES ASSUME pc' = "accepted" PROVE Accepted'
      BY DEF Accepted
    <2>1. ~(next[1] <= Len(doc.shape)) /\ at = root /\ next \notin ListsOf(doc.shape)
      BY <1>1, <1>6
    <2>2. DOMAIN lists' = {Root} \cup ListsOf(doc.shape)
      BY <1>3, <1>4, <1>6, <2>1
    <2>3. ASSUME NEW w \in ListsOf(doc.shape),
                 Following(doc.shape, w) \notin ListsOf(doc.shape)
          PROVE  ListEnd(lists'[w]) = root
      <3>1. ~Before(w, which)
        <4>1. {v \in ListsOf(doc.shape) : Before(v, w)} \cup {w} = ListsOf(doc.shape)
          BY <1>3, <2>3, FollowingIs
        <4> QED BY <1>3, <4>1, BeforeTotal
      <3>2. w = which
        BY <1>6, <2>1, <3>1
      <3> QED BY <1>4, <2>1, <3>2
    <2>4. doc'.shape # <<>> /\ doc' \in DocType
      BY <1>1, <1>3 DEF HasRegion
    <2>5. Named(lists'[Root], "json") # {}
      BY <1>3, <1>10
    <2> QED BY <1>1, <1>10, <2>2, <2>3, <2>4, <2>5 DEF Accepted, Named, ListEnd, BlockEnd
  <1> QED BY <1>7, <1>9, <1>11, <1>12 DEF FInv

-----------------------------------------------------------------------------
(* Framing: writing an output.                                             *)

\* The blocks of a list do not overlap.
LEMMA Ascending ==
  ASSUME NEW l, Sound(l), NEW i \in DOMAIN l, NEW j \in DOMAIN l, i < j
  PROVE  BlockEnd(l[i]) <= l[j].at
  <1> DEFINE S == {k \in Nat : i + 1 + k \in DOMAIN l => BlockEnd(l[i]) <= l[i + 1 + k].at}
  <1>1. /\ Len(l) \in Nat /\ DOMAIN l = 1 .. Len(l)
        /\ \A k \in DOMAIN l : l[k].at \in Nat /\ BlockEnd(l[k]) \in Nat /\ l[k].at < BlockEnd(l[k])
        /\ \A k \in 1 .. Len(l) - 1 : l[k + 1].at = BlockEnd(l[k])
    <2>1. l # <<>>
      OBVIOUS
    <2> QED BY <2>1, EndsTyped DEF Sound, Contiguous
  <1>2. 0 \in S
    BY <1>1
  <1>3. ASSUME NEW k \in Nat, k \in S PROVE k + 1 \in S
    <2> SUFFICES ASSUME i + 1 + (k + 1) \in DOMAIN l
                 PROVE  BlockEnd(l[i]) <= l[i + 1 + (k + 1)].at
      OBVIOUS
    <2> DEFINE n == i + 1 + k
    <2>1. n \in 1 .. Len(l) - 1 /\ n + 1 = i + 1 + (k + 1)
      BY <1>1
    <2>2. BlockEnd(l[i]) <= l[n].at
      BY <1>1, <1>3, <2>1
    <2> HIDE DEF n
    <2>3. l[n].at \in Nat /\ l[n].at < BlockEnd(l[n]) /\ BlockEnd(l[n]) \in Nat
          /\ l[n + 1].at = BlockEnd(l[n]) /\ BlockEnd(l[i]) \in Nat
      BY <1>1, <2>1
    <2> QED BY <2>1, <2>2, <2>3
  <1>4. Nat \subseteq S
    <2> HIDE DEF S
    <2> QED BY <1>2, <1>3, NatClosed
  <1>5. j - i - 1 \in Nat /\ i + 1 + (j - i - 1) = j
    BY <1>1
  <1>6. j - i - 1 \in S
    BY <1>4, <1>5
  <1> QED BY <1>5, <1>6

\* Where the lists begin when each has its room.
LEMMA Starts ==
  ASSUME NEW shape \in Seq(Nat), NEW rooms, DOMAIN rooms = ListsOf(shape),
         \A w \in ListsOf(shape) : rooms[w] \in Nat
  PROVE  /\ RegionLen(rooms) \in Nat
         /\ \A w \in ListsOf(shape) :
              /\ ListStart(rooms, w) \in Nat
              /\ ListStart(rooms, w) + rooms[w] <= RegionLen(rooms)
              /\ Following(shape, w) \in ListsOf(shape) =>
                   ListStart(rooms, Following(shape, w)) = ListStart(rooms, w) + rooms[w]
              /\ Following(shape, w) \notin ListsOf(shape) =>
                   RegionLen(rooms) = ListStart(rooms, w) + rooms[w]
              /\ \A v \in ListsOf(shape) :
                   Before(v, w) => ListStart(rooms, v) + rooms[v] <= ListStart(rooms, w)
         /\ shape # <<>> => ListStart(rooms, <<1, 0>>) = 0
  <1> DEFINE L == ListsOf(shape)
             B(w) == {v \in L : Before(v, w)}
  <1>1. IsFiniteSet(L) /\ \A w : IsFiniteSet(B(w))
    BY ListsFinite, FS_Subset
  <1>2. RegionLen(rooms) = SumFunctionOnSet(rooms, L)
        /\ \A w : ListStart(rooms, w) = SumFunctionOnSet(rooms, B(w))
    BY DEF RegionLen, ListStart
  <1>3. RegionLen(rooms) \in Nat /\ \A w : ListStart(rooms, w) \in Nat
    <2>1. SumFunctionOnSet(rooms, L) \in Nat
      BY <1>1, SumIsNat
    <2>2. ASSUME NEW w PROVE SumFunctionOnSet(rooms, B(w)) \in Nat
      <3>1. \A v \in B(w) : rooms[v] \in Nat
        OBVIOUS
      <3> QED BY <1>1, <3>1, SumIsNat
    <2> QED BY <1>2, <2>1, <2>2
  <1>4. ASSUME NEW w \in L
        PROVE  /\ SumFunctionOnSet(rooms, B(w) \cup {w}) = ListStart(rooms, w) + rooms[w]
               /\ B(w) \cup {w} \in SUBSET L
    <2>1. w \notin B(w)
      BY FollowingIs
    <2>2. \A v \in B(w) \cup {w} : rooms[v] \in Nat
      OBVIOUS
    <2>3. SumFunctionOnSet(rooms, B(w) \cup {w}) = rooms[w] + SumFunctionOnSet(rooms, B(w))
      <3> HIDE DEF B
      <3> QED BY <1>1, <2>1, <2>2, SumOfOneMore
    <2>4. rooms[w] \in Nat
      OBVIOUS
    <2> HIDE DEF B
    <2>5. SumFunctionOnSet(rooms, B(w) \cup {w}) = ListStart(rooms, w) + rooms[w]
      BY <1>2, <1>3, <2>3, <2>4
    <2> QED BY <2>5 DEF B
  <1>5. ASSUME NEW w \in L
        PROVE  /\ ListStart(rooms, w) + rooms[w] <= RegionLen(rooms)
               /\ Following(shape, w) \in L =>
                   ListStart(rooms, Following(shape, w)) = ListStart(rooms, w) + rooms[w]
               /\ Following(shape, w) \notin L =>
                   RegionLen(rooms) = ListStart(rooms, w) + rooms[w]
    <2> DEFINE next == Following(shape, w)
    <2>1. /\ B(next) = B(w) \cup {w}
          /\ next \notin L => L = B(w) \cup {w}
      BY FollowingIs
    <2>2. SumFunctionOnSet(rooms, B(w) \cup {w}) <= SumFunctionOnSet(rooms, L)
      <3> HIDE DEF B, L
      <3>1. \A v \in L : rooms[v] \in Nat
        BY DEF L
      <3> QED BY <1>1, <1>4, <3>1, SumOfMore
    <2> HIDE DEF next, B, L
    <2>3. ListStart(rooms, w) + rooms[w] <= RegionLen(rooms)
      BY <1>2, <1>4, <2>2
    <2>4. next \in L => ListStart(rooms, next) = ListStart(rooms, w) + rooms[w]
      BY <1>2, <1>4, <2>1
    <2>5. next \notin L => RegionLen(rooms) = ListStart(rooms, w) + rooms[w]
      BY <1>2, <1>4, <2>1
    <2> QED BY <2>3, <2>4, <2>5 DEF next
  <1>6. ASSUME NEW w \in L, NEW v \in L, Before(v, w)
        PROVE  ListStart(rooms, v) + rooms[v] <= ListStart(rooms, w)
    <2>1. B(v) \cup {v} \in SUBSET B(w)
      <3>1. ASSUME NEW u \in L, Before(u, v) PROVE Before(u, w)
        <4>1. \A x \in L : x[1] \in Nat /\ x[2] \in Nat
          BY ListsAre
        <4> QED BY <1>6, <3>1, <4>1 DEF Before
      <3> QED BY <1>6, <3>1
    <2>2. \A x \in B(w) : rooms[x] \in Nat
      OBVIOUS
    <2> HIDE DEF B, L
    <2>3. SumFunctionOnSet(rooms, B(v) \cup {v}) <= SumFunctionOnSet(rooms, B(w))
      BY <1>1, <2>1, <2>2, SumOfMore
    <2> QED BY <1>2, <1>4, <2>3
  <1>7. shape # <<>> => ListStart(rooms, <<1, 0>>) = 0
    <2> SUFFICES ASSUME shape # <<>> PROVE ListStart(rooms, <<1, 0>>) = 0
      OBVIOUS
    <2>1. B(<<1, 0>>) = {}
      BY FirstList
    <2> HIDE DEF B
    <2> QED BY <1>2, <2>1, SumOfNone
  <1> QED BY <1>3, <1>5, <1>6, <1>7

\* What a list is in the output: at another offset, and with another block at the end if it
\* is one of a partition.
Image(l, start, part, head) ==
  [i \in 1 .. Len(l) |->
     [at |-> start + (l[i].at - l[1].at), head |-> IF part /\ i = Len(l) THEN head ELSE l[i].head]]

ImageFacts(m, l, start, part, head) ==
  /\ Ended(m) /\ Len(m) = Len(l) /\ m[1].at = start
  /\ ListEnd(m) = start + (IF part THEN Last(l).at - l[1].at + HeaderLen + head.len
                           ELSE ListEnd(l) - l[1].at)
  /\ start < ListEnd(m)

\* The image of a list that ends is a list that ends, of the length the new places give it.
LEMMA ImageIs ==
  ASSUME NEW l, Ended(l), NEW start \in Nat, NEW part \in BOOLEAN,
         NEW head \in HeadType, head.last
  PROVE  ImageFacts(Image(l, start, part, head), l, start, part, head)
  <1> DEFINE m == Image(l, start, part, head)
             h(i) == IF part /\ i = Len(l) THEN head ELSE l[i].head
  <1>1. /\ Sound(l) /\ l # <<>> /\ Len(l) \in Nat \ {0} /\ DOMAIN l = 1 .. Len(l)
        /\ Last(l) = l[Len(l)] /\ ListEnd(l) \in Nat
        /\ \A i \in 1 .. Len(l) : /\ l[i].at \in Nat /\ l[i].head \in HeadType
                                 /\ BlockEnd(l[i]) \in Nat /\ l[i].at < BlockEnd(l[i])
    BY EndsTyped DEF Ended
  <1>2. \A i \in 1 .. Len(l) : l[1].at <= l[i].at
    <2> TAKE i \in 1 .. Len(l)
    <2>1. CASE i = 1
      BY <1>1, <2>1
    <2>2. CASE i # 1
      <3>1. BlockEnd(l[1]) <= l[i].at
        BY <1>1, <2>2, Ascending
      <3> QED BY <1>1, <3>1
    <2> QED BY <2>1, <2>2
  <1>3. \A i \in 1 .. Len(l) : /\ m[i] \in Block /\ m[i].at = start + (l[i].at - l[1].at)
                             /\ m[i].head = h(i)
    <2> TAKE i \in 1 .. Len(l)
    <2>1. m[i] = [at |-> start + (l[i].at - l[1].at), head |-> h(i)]
      BY DEF Image
    <2>2. start + (l[i].at - l[1].at) \in Nat
      BY <1>1, <1>2
    <2>3. h(i) \in HeadType
      BY <1>1
    <2> HIDE DEF m, h
    <2> QED BY <2>1, <2>2, <2>3 DEF Block
  <1>4. m \in Seq(Block) /\ Len(m) = Len(l) /\ DOMAIN m = 1 .. Len(l)
    <2>1. DOMAIN m = 1 .. Len(l) /\ m = [i \in 1 .. Len(l) |-> m[i]]
      BY DEF Image
    <2> HIDE DEF m
    <2> QED BY <1>1, <1>3, <2>1
  <1>5. m # <<>> /\ Last(m) = m[Len(l)]
    <2> HIDE DEF m
    <2> QED BY <1>1, <1>4 DEF Last
  <1>6. \A i \in 1 .. Len(l) - 1 : ~m[i].head.last
    <2> TAKE i \in 1 .. Len(l) - 1
    <2>0. Len(l) \in Nat
      BY <1>1
    <2>1. i \in 1 .. Len(l) /\ i # Len(l)
      BY <2>0
    <2>2. ~l[i].head.last
      BY <1>1 DEF Sound
    <2>3. m[i].head = h(i)
      BY <1>3, <2>1
    <2>4. h(i) = l[i].head
      BY <2>1
    <2> HIDE DEF m, h
    <2> QED BY <2>2, <2>3, <2>4
  <1>7. Last(m).head.last
    <2>1. l[Len(l)].head.last
      BY <1>1 DEF Ended
    <2>2. h(Len(l)).last
      BY <2>1
    <2> HIDE DEF m, h
    <2> QED BY <1>1, <1>3, <1>5, <2>2
  <1>8. ASSUME NEW i \in 1 .. Len(l) - 1 PROVE m[i + 1].at = BlockEnd(m[i])
    <2>1. l[i + 1].at = BlockEnd(l[i])
      BY <1>1 DEF Sound, Contiguous
    <2>0. Len(l) \in Nat
      BY <1>1
    <2>2. /\ i \in 1 .. Len(l) /\ i + 1 \in 1 .. Len(l) /\ i # Len(l)
          /\ 1 \in 1 .. Len(l)
      BY <2>0
    <2>7. h(i) = l[i].head
      BY <2>2
    <2> HIDE DEF m, h
    <2>3. m[i].head = l[i].head /\ m[i].at = start + (l[i].at - l[1].at)
          /\ m[i + 1].at = start + (l[i + 1].at - l[1].at)
      BY <1>3, <2>2, <2>7
    <2>4. \A g \in HeadType : g.len \in Nat
      BY DEF HeadType
    <2>8. \A k \in 1 .. Len(l) : l[k].at \in Nat /\ l[k].head \in HeadType
      BY <1>1
    <2>9. l[1].at \in Nat
      BY <2>2, <2>8
    <2>5. l[i].head.len \in Nat /\ l[i].at \in Nat /\ l[1].at \in Nat
      BY <2>2, <2>8, <2>9, <2>4
    <2>6. l[i + 1].at = l[i].at + 1 + l[i].head.len
      BY <2>1 DEF BlockEnd
    <2>10. BlockEnd(m[i]) = m[i].at + 1 + l[i].head.len
      BY <2>3 DEF BlockEnd
    <2>11. start \in Nat
      OBVIOUS
    <2>12. PICK a \in Nat, b \in Nat, c \in Nat :
             a = l[1].at /\ b = l[i].at /\ c = l[i].head.len
      BY ONLY <2>5
    <2>13. m[i + 1].at = start + ((b + 1 + c) - a) /\ m[i].at = start + (b - a)
      BY ONLY <2>3, <2>6, <2>12
    <2>14. BlockEnd(m[i]) = (start + (b - a)) + 1 + c
      BY ONLY <2>10, <2>12, <2>13
    <2> QED BY ONLY <2>11, <2>13, <2>14
  <1>9. Ended(m)
    <2> HIDE DEF m
    <2>1. Len(m) <= MaxBlocks
      BY <1>1, <1>4 DEF Sound
    <2> QED BY <1>4, <1>5, <1>6, <1>7, <1>8, <2>1 DEF Ended, Sound, Contiguous
  <1>10. m[1].at = start
    <2>1. 1 \in 1 .. Len(l) /\ l[1].at - l[1].at = 0
      BY <1>1
    <2> HIDE DEF m
    <2> QED BY <1>3, <2>1
  <1>11. ListEnd(m) = start + (IF part THEN Last(l).at - l[1].at + HeaderLen + head.len
                              ELSE ListEnd(l) - l[1].at)
    <2> DEFINE n == Len(l)
    <2>1. n \in 1 .. Len(l) /\ l[n].at \in Nat /\ l[1].at \in Nat /\ l[n].head.len \in Nat
          /\ head.len \in Nat
      BY <1>1 DEF HeadType
    <2>2. ListEnd(m) = m[n].at + HeaderLen + m[n].head.len
      <3> HIDE DEF m
      <3> QED BY <1>5 DEF ListEnd, BlockEnd
    <2>3. m[n].at = start + (l[n].at - l[1].at) /\ m[n].head = IF part THEN head ELSE l[n].head
      <3> HIDE DEF m
      <3> QED BY <1>3, <2>1
    <2>4. Last(l) = l[n] /\ ListEnd(l) = l[n].at + HeaderLen + l[n].head.len
      BY <1>1 DEF ListEnd, BlockEnd
    <2> HIDE DEF m, n
    <2>5. CASE part
      <3>1. m[n].head = head
        BY <2>3, <2>5
      <3> QED BY <2>1, <2>2, <2>3, <2>4, <2>5, <3>1
    <2>6. CASE ~part
      <3>1. m[n].head.len = l[n].head.len
        BY <2>3, <2>6
      <3>2. ListEnd(m) = start + (l[n].at - l[1].at) + 1 + l[n].head.len
        BY <2>2, <2>3, <3>1
      <3> DEFINE a == l[n].at
                 b == l[1].at
                 c == l[n].head.len
      <3>3. ListEnd(l) = a + 1 + c
        BY <2>4
      <3>4. ListEnd(m) = start + (a - b) + 1 + c
        BY <3>2
      <3>5. a \in Nat /\ b \in Nat /\ c \in Nat
        BY <2>1
      <3> HIDE DEF a, b, c
      <3>6. ListEnd(m) = start + (ListEnd(l) - b)
        BY <3>3, <3>4, <3>5
      <3>7. ListEnd(m) = start + (ListEnd(l) - l[1].at)
        BY <3>6 DEF b
      <3> QED BY <2>6, <3>7
    <2> QED BY <2>5, <2>6
  <1>12. start < ListEnd(m)
    <2> HIDE DEF m
    <2>1. 1 \in DOMAIN m /\ Len(m) \in DOMAIN m /\ Sound(m) /\ m # <<>>
      BY <1>1, <1>4, <1>9 DEF Ended
    <2>2. m[1].at < BlockEnd(m[1]) /\ ListEnd(m) = BlockEnd(m[Len(m)])
          /\ \A i \in DOMAIN m : m[i].at \in Nat /\ BlockEnd(m[i]) \in Nat /\ m[i].at < BlockEnd(m[i])
      BY <1>4, <1>5, <2>1, EndsTyped DEF ListEnd
    <2>3. CASE Len(m) = 1
      BY <1>10, <2>2, <2>3
    <2>4. CASE Len(m) # 1
      <3>1. BlockEnd(m[1]) <= m[Len(m)].at
        BY <1>1, <1>4, <2>1, <2>4, Ascending
      <3> QED BY <1>10, <2>1, <2>2, <3>1
    <2> QED BY <2>3, <2>4
  <1> HIDE DEF m
  <1>13. ImageFacts(m, l, start, part, head)
    <2> HIDE DEF m
    <2> QED BY ONLY <1>4, <1>9, <1>10, <1>11, <1>12 DEF ImageFacts
  <1> QED BY ONLY <1>13 DEF m

\* The lists that a file holds, each in its place: those of its region from where its data
\* ends to the root list, and that list from there to the footer.
Laid(target, d, r, n) ==
  /\ \A w \in ListsOf(d.shape) \cup {Root} : Sound(target[w]) /\ target[w] # <<>>
  /\ \A w \in ListsOf(d.shape) :
       /\ Ended(target[w])
       /\ target[IF Following(d.shape, w) \in ListsOf(d.shape) THEN Following(d.shape, w)
                 ELSE Root][1].at = ListEnd(target[w])
  /\ target[<<1, 0>>][1].at = d.dataEnd
  /\ target[Root][1].at = r /\ ListEnd(target[Root]) + FooterLen = n
  /\ d.dataEnd < r

\* No list reaches into another.
Apart(target, shape) ==
  /\ \A w \in ListsOf(shape) \cup {Root} : Sound(target[w]) /\ target[w] # <<>>
  /\ \A w \in ListsOf(shape) :
       /\ ListEnd(target[w]) <= target[Root][1].at
       /\ \A v \in ListsOf(shape) : Before(v, w) => ListEnd(target[v]) <= target[w][1].at

\* The headers that a file is known to have are those of the lists.
Held(target, kn) ==
  /\ \A w \in DOMAIN target : \A i \in DOMAIN target[w] :
       target[w][i].at \in DOMAIN kn /\ kn[target[w][i].at] = target[w][i].head
  /\ \A o \in DOMAIN kn : \E w \in DOMAIN target : \E i \in DOMAIN target[w] : o = target[w][i].at

\* The lists are those of another file, with a new index in each partition; and a document
\* at the start of the root list.
Copies(target, shape, ls) ==
  /\ \A w \in ListsOf(shape) :
       /\ Len(target[w]) = Len(ls[w])
       /\ \A i \in DOMAIN target[w] :
            target[w][i].head = ls[w][i].head \/ (OfPartition(w) /\ i = Len(target[w]))
       /\ OfPartition(w) => /\ Last(target[w]).head.name = "index"
                           /\ Last(target[w]).head.form = "plain"
  /\ target[Root][1].head.name = "json" /\ target[Root][1].head.form = "plain"
  /\ AuxEnds(ls[Root]) => Ended(target[Root])

\* A block lies within its list.
LEMMA Within ==
  ASSUME NEW l, Sound(l), l # <<>>, NEW i \in DOMAIN l
  PROVE  /\ l[1].at \in Nat /\ l[i].at \in Nat /\ BlockEnd(l[i]) \in Nat /\ ListEnd(l) \in Nat
         /\ l[1].at <= l[i].at /\ l[i].at < BlockEnd(l[i]) /\ BlockEnd(l[i]) <= ListEnd(l)
         /\ 1 \in DOMAIN l /\ Len(l) \in DOMAIN l
         /\ i # 1 => BlockEnd(l[1]) <= l[i].at
  <1>1. /\ Len(l) \in Nat \ {0} /\ DOMAIN l = 1 .. Len(l) /\ ListEnd(l) \in Nat
        /\ \A k \in DOMAIN l : l[k].at \in Nat /\ BlockEnd(l[k]) \in Nat /\ l[k].at < BlockEnd(l[k])
        /\ ListEnd(l) = BlockEnd(l[Len(l)])
    BY EndsTyped DEF ListEnd
  <1>2. 1 \in DOMAIN l /\ Len(l) \in DOMAIN l /\ i \in Nat
    BY <1>1
  <1>3. i # 1 => BlockEnd(l[1]) <= l[i].at
    <2>1. i # 1 => 1 < i
      BY <1>1
    <2> QED BY <1>2, <2>1, Ascending
  <1>4. l[1].at <= l[i].at
    BY <1>1, <1>2, <1>3
  <1>5. BlockEnd(l[i]) <= ListEnd(l)
    <2>1. CASE i = Len(l)
      BY <1>1, <2>1
    <2>2. CASE i # Len(l)
      <3>1. i < Len(l)
        BY <1>1, <2>2
      <3>2. BlockEnd(l[i]) <= l[Len(l)].at
        BY <1>2, <3>1, Ascending
      <3> QED BY <1>1, <1>2, <3>2
    <2> QED BY <2>1, <2>2
  <1> QED BY <1>1, <1>2, <1>3, <1>4, <1>5

\* A block of a list lies before the footer.
LEMMA BlockFits ==
  ASSUME NEW d, NEW r \in Nat, NEW n \in Nat, NEW target, Laid(target, d, r, n),
         Apart(target, d.shape), NEW w \in ListsOf(d.shape) \cup {Root}, NEW i \in DOMAIN target[w]
  PROVE  /\ BlockEnd(target[w][i]) + FooterLen <= n
         /\ w # Root => BlockEnd(target[w][i]) <= r
         /\ BlockEnd(target[w][i]) \in Nat
  <1>1. /\ Sound(target[w]) /\ target[w] # <<>> /\ Sound(target[Root]) /\ target[Root] # <<>>
        /\ target[Root][1].at = r /\ ListEnd(target[Root]) + FooterLen = n
    BY DEF Apart, Laid
  <1>2. BlockEnd(target[w][i]) \in Nat /\ ListEnd(target[w]) \in Nat
        /\ BlockEnd(target[w][i]) <= ListEnd(target[w])
    BY <1>1, Within
  <1>3. ListEnd(target[Root]) \in Nat /\ r <= ListEnd(target[Root])
    <2>1. 1 \in DOMAIN target[Root]
      BY <1>1, EndsTyped
    <2>2. /\ BlockEnd(target[Root][1]) \in Nat /\ ListEnd(target[Root]) \in Nat
          /\ target[Root][1].at < BlockEnd(target[Root][1])
          /\ BlockEnd(target[Root][1]) <= ListEnd(target[Root])
      BY <1>1, <2>1, Within
    <2> QED BY <1>1, <2>2
  <1>4. w # Root => ListEnd(target[w]) <= r
    BY <1>1 DEF Apart
  <1> QED BY <1>1, <1>2, <1>3, <1>4

\* No two blocks are at one offset.
LEMMA Distinct ==
  ASSUME NEW shape \in Seq(Nat), NEW target, Apart(target, shape),
         NEW v \in ListsOf(shape) \cup {Root}, NEW i \in DOMAIN target[v],
         NEW w \in ListsOf(shape) \cup {Root}, NEW j \in DOMAIN target[w],
         target[v][i].at = target[w][j].at
  PROVE  v = w /\ i = j
  <1>1. ASSUME NEW a \in ListsOf(shape) \cup {Root}, NEW k \in DOMAIN target[a]
        PROVE  /\ target[a][1].at <= target[a][k].at /\ target[a][k].at < BlockEnd(target[a][k])
               /\ BlockEnd(target[a][k]) <= ListEnd(target[a])
               /\ target[a][1].at \in Nat /\ target[a][k].at \in Nat /\ ListEnd(target[a]) \in Nat
               /\ BlockEnd(target[a][k]) \in Nat
    BY Within DEF Apart
  <1>2. ASSUME NEW a \in ListsOf(shape) \cup {Root}, NEW k \in DOMAIN target[a],
               NEW b \in ListsOf(shape) \cup {Root}, NEW m \in DOMAIN target[b],
               ListEnd(target[a]) <= target[b][1].at
        PROVE  target[a][k].at < target[b][m].at
    <2>1. /\ target[a][k].at < BlockEnd(target[a][k])
          /\ BlockEnd(target[a][k]) <= ListEnd(target[a])
          /\ target[a][k].at \in Nat /\ BlockEnd(target[a][k]) \in Nat
          /\ ListEnd(target[a]) \in Nat
      BY <1>1
    <2>2. /\ target[b][1].at <= target[b][m].at
          /\ target[b][1].at \in Nat /\ target[b][m].at \in Nat
      BY <1>1
    <2> QED BY ONLY <1>2, <2>1, <2>2
  <1>3. v = w
    <2> SUFFICES ASSUME v # w PROVE FALSE
      OBVIOUS
    <2>1. CASE v = Root /\ w \in ListsOf(shape)
      <3>1. ListEnd(target[w]) <= target[v][1].at
        BY <2>1 DEF Apart
      <3> QED BY <1>1, <1>2, <3>1
    <2>2. CASE v \in ListsOf(shape) /\ w = Root
      <3>1. ListEnd(target[v]) <= target[w][1].at
        BY <2>2 DEF Apart
      <3> QED BY <1>1, <1>2, <3>1
    <2>3. CASE v \in ListsOf(shape) /\ w \in ListsOf(shape)
      <3>1. ListEnd(target[v]) <= target[w][1].at \/ ListEnd(target[w]) <= target[v][1].at
        BY <2>3, BeforeTotal DEF Apart
      <3> QED BY <1>1, <1>2, <3>1
    <2> QED BY <2>1, <2>2, <2>3
  <1>4. i = j
    <2> SUFFICES ASSUME i # j PROVE FALSE
      OBVIOUS
    <2>1. Sound(target[v]) /\ i \in Nat /\ j \in Nat /\ j \in DOMAIN target[v]
      <3>1. Sound(target[v])
        BY DEF Apart
      <3>2. target[v] \in Seq(Block)
        BY <3>1 DEF Sound
      <3> QED BY <1>3, <3>1, <3>2
    <2>2. i < j => BlockEnd(target[v][i]) <= target[v][j].at
      BY <2>1, Ascending
    <2>3. j < i => BlockEnd(target[v][j]) <= target[v][i].at
      BY <2>1, Ascending
    <2> QED BY <1>1, <1>3, <2>1, <2>2, <2>3
  <1> QED BY <1>3, <1>4

\* What a function made from pairs is at each of them.
LEMMA PairsAreFunction ==
  ASSUME NEW H, \A g, h \in H : g[1] = h[1] => g = h,
         NEW f, f = [o \in {h[1] : h \in H} |-> (CHOOSE h \in H : h[1] = o)[2]]
  PROVE  /\ DOMAIN f = {h[1] : h \in H}
         /\ \A h \in H : f[h[1]] = h[2]
  <1>1. ASSUME NEW h \in H PROVE (CHOOSE g \in H : g[1] = h[1]) = h
    <2> DEFINE P(g) == g[1] = h[1]
    <2>1. \E g \in H : P(g)
      OBVIOUS
    <2> HIDE DEF P
    <2>2. (CHOOSE g \in H : P(g)) \in H /\ P(CHOOSE g \in H : P(g))
      BY <2>1
    <2>3. (CHOOSE g \in H : P(g)) = h
      BY <2>2 DEF P
    <2> QED BY <2>3 DEF P
  <1>2. \A h \in H : h[1] \in {g[1] : g \in H}
    OBVIOUS
  <1> QED BY <1>1, <1>2

\* The root list that is written.
RootFacts(tail, start, text) ==
  /\ Sound(tail) /\ tail # <<>> /\ tail[1].at = start
  /\ tail[1].head.name = "json" /\ tail[1].head.form = "plain"
  /\ AuxEnds(lists[Root]) => Ended(tail)
  /\ ListEnd(tail) = start + HeaderLen + text + AuxSize
  /\ AuxSize \in Nat

\* The root list written at an offset has these facts.
LEMMA RootWritten ==
  ASSUME FInv, Root \in DOMAIN lists, Named(lists[Root], "json") # {},
         NEW start \in Nat, NEW text \in Nat
  PROVE  RootFacts(RootBlocks(start, text), start, text)
  <1> DEFINE l    == lists[Root]
             aux  == Named(l, "aux")
             json == [at |-> start, head |-> Header("json", text, EndsRoot(aux), "plain")]
             tail == RootBlocks(start, text)
             more == [at |-> BlockEnd(json), head |-> First(l, "aux").head]
  <1>1. Sound(l) /\ l \in Seq(Block)
    BY DEF FInv, Read, Ended, Sound
  <1>2. EndsRoot(aux) \in BOOLEAN /\ (EndsRoot(aux) <=> aux = {})
    BY DEF EndsRoot
  <1>3. /\ json \in Block /\ json.at = start /\ BlockEnd(json) = start + HeaderLen + text
        /\ json.head.name = "json" /\ json.head.form = "plain" /\ json.head.last = EndsRoot(aux)
    BY <1>2 DEF Header, Block, HeadType, BlockEnd
  <1> HIDE DEF json
  <1>4. CASE aux = {}
    <2>1. tail = <<json>>
      BY <1>4 DEF RootBlocks, json
    <2> HIDE DEF tail
    <2>2. Sound(tail) /\ tail # <<>> /\ tail[1] = json /\ Last(tail) = json
      BY <1>3, <2>1, FramingAssumption DEF Sound, Contiguous, Last
    <2>3. AuxSize = 0
      BY <1>4 DEF AuxSize
    <2>4. Ended(tail)
      BY <1>2, <1>3, <1>4, <2>2 DEF Ended
    <2>5. ListEnd(tail) = start + HeaderLen + text + AuxSize
      BY <1>3, <2>2, <2>3 DEF ListEnd
    <2> QED BY <1>3, <2>2, <2>3, <2>4, <2>5 DEF RootFacts, tail, l
  <1>5. CASE aux # {}
    <2>1. tail = <<json, more>>
      BY <1>5 DEF RootBlocks, json
    <2>2. First(l, "aux") \in Block /\ First(l, "aux").head \in HeadType
      BY <1>1, <1>5, FirstIs DEF Block
    <2>3. /\ more \in Block /\ more.at = BlockEnd(json) /\ more.head = First(l, "aux").head
          /\ BlockEnd(more) = start + HeaderLen + text + AuxSize /\ AuxSize \in Nat
      <3>1. AuxSize = HeaderLen + First(l, "aux").head.len /\ First(l, "aux").head.len \in Nat
        BY <1>5, <2>2 DEF AuxSize, HeadType
      <3>2. BlockEnd(json) \in Nat
        BY <1>3
      <3>3. /\ more \in Block /\ more.at = BlockEnd(json) /\ more.head = First(l, "aux").head
        BY <2>2, <3>2 DEF Block
      <3> HIDE DEF more
      <3> QED BY <1>3, <3>1, <3>3 DEF BlockEnd
    <2>4. MaxBlocks >= 2
      <3>1. PICK i \in DOMAIN l : l[i].head.name = "aux"
        BY <1>5 DEF Named
      <3>2. PICK j \in DOMAIN l : l[j].head.name = "json"
        BY DEF Named
      <3>3. i # j /\ DOMAIN l = 1 .. Len(l) /\ Len(l) \in Nat /\ Len(l) <= MaxBlocks
        BY <1>1, <3>1, <3>2 DEF Sound
      <3> QED BY <3>3, FramingAssumption
    <2> HIDE DEF tail, more
    <2>5. /\ tail \in Seq(Block) /\ Len(tail) = 2 /\ tail[1] = json /\ tail[2] = more
      BY <1>3, <2>1, <2>3
    <2>6. Last(tail) = more /\ tail # <<>>
      <3>1. Last(tail) = tail[2]
        BY <2>5 DEF Last
      <3>2. tail # <<>>
        <4>1. Len(tail) = 2
          BY <2>5
        <4> QED BY <4>1
      <3> QED BY <2>5, <3>1, <3>2
    <2>7. Sound(tail)
      <3>1. \A i \in 1 .. Len(tail) - 1 : i = 1
        BY <2>5
      <3>2. ~tail[1].head.last
        BY <1>2, <1>3, <1>5, <2>5
      <3>3. tail[1 + 1].at = BlockEnd(tail[1])
        BY <2>3, <2>5
      <3> QED BY <2>4, <2>5, <3>1, <3>2, <3>3, FramingAssumption DEF Sound, Contiguous
    <2>8. AuxEnds(l) => Ended(tail)
      BY <1>5, <2>3, <2>6, <2>7 DEF AuxEnds, Ended
    <2>9. ListEnd(tail) = start + HeaderLen + text + AuxSize
      BY <2>3, <2>6 DEF ListEnd
    <2> QED BY <1>3, <2>3, <2>5, <2>6, <2>7, <2>8, <2>9 DEF RootFacts, tail, l
  <1> QED BY <1>4, <1>5

\* What WriteOutput does, in terms of the lists as they are in the output.
LEMMA OutputWritten ==
  ASSUME FInv, WriteOutput
  PROVE  /\ HasRegion(doc) /\ HasRegion(doc') /\ doc'.shape = doc.shape
         /\ root' \in Nat /\ size' \in Nat
         /\ \E target : /\ DOMAIN target = ListsOf(doc.shape) \cup {Root}
                       /\ Laid(target, doc', root', size') /\ Apart(target, doc.shape)
                       /\ Held(target, known') /\ Copies(target, doc.shape, lists)
         /\ size' <= projected' + Max({0, doc'.text - doc.text - Allowance})
  <1> DEFINE L     == ListsOf(doc.shape)
             Parts == {w \in L : OfPartition(w)}
  <1>1. /\ HasRegion(doc) /\ doc.shape \in Seq(Nat) /\ doc.shape # <<>>
        /\ Root \in DOMAIN lists /\ Named(lists[Root], "json") # {}
        /\ DOMAIN lists = {Root} \cup L /\ Root \notin L
        /\ doc.text \in Nat
    BY RootApart DEF FInv, Accepted, WriteOutput, HasRegion, DocType
  <1>2. \A w \in L : Ended(lists[w])
    BY <1>1 DEF FInv, Read
  <1>3. PICK indexLen \in [Parts -> Lengths], dataEnd \in DataEnds, grown \in Growth :
          LET text   == doc.text + grown
              indexes == Indexes(indexLen)
              rooms  == [w \in DOMAIN Spans |-> Spans[w] + indexes[w]]
              tail   == RootBlocks(dataEnd + RegionLen(rooms), text)
              start(w) == dataEnd + ListStart(rooms, w)
              heads  == (UNION {Copied(w, start(w), indexLen) : w \in DOMAIN rooms})
                          \cup {<<b.at, b.head>> : b \in Range(tail)}
          IN  /\ root' = dataEnd + RegionLen(rooms)
              /\ known' = [o \in {h[1] : h \in heads} |-> (CHOOSE h \in heads : h[1] = o)[2]]
              /\ size' = ListEnd(tail) + FooterLen
              /\ doc' = [doc EXCEPT !.dataEnd = dataEnd, !.text = text]
              /\ projected' = dataEnd + EstimateMetadata(indexLen)
    BY DEF WriteOutput
  <1> DEFINE text    == doc.text + grown
             indexes == Indexes(indexLen)
             rooms   == [w \in DOMAIN Spans |-> Spans[w] + indexes[w]]
             start(w) == dataEnd + ListStart(rooms, w)
             tail    == RootBlocks(dataEnd + RegionLen(rooms), text)
             heads   == (UNION {Copied(w, start(w), indexLen) : w \in DOMAIN rooms})
                          \cup {<<b.at, b.head>> : b \in Range(tail)}
             fresh(w) == IF OfPartition(w) THEN Header("index", indexLen[w], TRUE, "plain")
                         ELSE Header("index", 0, TRUE, "plain")
             image(w) == Image(lists[w], start(w), OfPartition(w), fresh(w))
             target  == [w \in L \cup {Root} |-> IF w = Root THEN tail ELSE image(w)]
  <1>4. /\ root' = dataEnd + RegionLen(rooms)
        /\ known' = [o \in {h[1] : h \in heads} |-> (CHOOSE h \in heads : h[1] = o)[2]]
        /\ size' = ListEnd(tail) + FooterLen
        /\ doc' = [doc EXCEPT !.dataEnd = dataEnd, !.text = text]
        /\ projected' = dataEnd + EstimateMetadata(indexLen)
    BY <1>3
  <1>5. dataEnd \in Nat /\ text \in Nat /\ grown \in Nat
    BY <1>1, FramingAssumption
  <1>6. ASSUME NEW w \in L
        PROVE  /\ fresh(w) \in HeadType /\ fresh(w).last /\ OfPartition(w) \in BOOLEAN
               /\ fresh(w).name = "index" /\ fresh(w).form = "plain"
               /\ OfPartition(w) => /\ fresh(w) = Header("index", indexLen[w], TRUE, "plain")
                                   /\ fresh(w).len = indexLen[w] /\ indexLen[w] \in Nat
    <2>1. OfPartition(w) => indexLen[w] \in Nat
      BY FramingAssumption
    <2> QED BY <2>1 DEF Header, HeadType, OfPartition
  <1>7. /\ DOMAIN Spans = L /\ DOMAIN indexes = L /\ DOMAIN rooms = L
        /\ \A w \in L : /\ rooms[w] = Spans[w] + indexes[w]
                        /\ Spans[w] = (IF OfPartition(w) THEN Last(lists[w]).at ELSE ListEnd(lists[w]))
                                         - lists[w][1].at
                        /\ indexes[w] = IF OfPartition(w) THEN HeaderLen + indexLen[w] ELSE 0
    BY DEF Spans, Indexes
  <1>8. ASSUME NEW w \in L
        PROVE  /\ Spans[w] \in Nat /\ indexes[w] \in Nat /\ rooms[w] \in Nat /\ rooms[w] > 0
    <2> DEFINE l == lists[w]
    <2>1. /\ Sound(l) /\ l # <<>> /\ Last(l) = l[Len(l)]
      BY <1>2 DEF Ended, Last
    <2>2. /\ l[1].at \in Nat /\ l[Len(l)].at \in Nat /\ ListEnd(l) \in Nat
          /\ l[1].at <= l[Len(l)].at /\ l[1].at < ListEnd(l)
      <3>1. Len(l) \in DOMAIN l
        BY <2>1, EndsTyped
      <3>2. /\ l[1].at \in Nat /\ l[Len(l)].at \in Nat /\ BlockEnd(l[Len(l)]) \in Nat
            /\ ListEnd(l) \in Nat /\ l[1].at <= l[Len(l)].at
            /\ l[Len(l)].at < BlockEnd(l[Len(l)]) /\ BlockEnd(l[Len(l)]) <= ListEnd(l)
        BY <2>1, <3>1, Within
      <3> HIDE DEF l
      <3> QED BY <3>2
    <2>3. /\ rooms[w] = Spans[w] + indexes[w]
          /\ Spans[w] = (IF OfPartition(w) THEN Last(l).at ELSE ListEnd(l)) - l[1].at
          /\ indexes[w] = IF OfPartition(w) THEN HeaderLen + indexLen[w] ELSE 0
      BY <1>7
    <2> HIDE DEF l, rooms, indexes
    <2>4. CASE OfPartition(w)
      <3> DEFINE a == l[1].at
                 b == l[Len(l)].at
                 c == indexLen[w]
      <3>1. a \in Nat /\ b \in Nat /\ c \in Nat /\ a <= b
        BY <1>6, <2>2, <2>4
      <3>2. Spans[w] = b - a /\ indexes[w] = 1 + c
        BY <2>1, <2>3, <2>4
      <3> HIDE DEF a, b, c
      <3> QED BY <2>3, <3>1, <3>2
    <2>5. CASE ~OfPartition(w)
      <3> DEFINE a == l[1].at
      <3>1. a \in Nat /\ ListEnd(l) \in Nat /\ a < ListEnd(l)
        BY <2>2
      <3>2. Spans[w] = ListEnd(l) - a /\ indexes[w] = 0
        BY <2>3, <2>5
      <3> HIDE DEF a
      <3> QED BY <2>3, <3>1, <3>2
    <2> QED BY <2>4, <2>5
  <1>9. /\ RegionLen(rooms) \in Nat
        /\ \A w \in L :
             /\ start(w) \in Nat
             /\ start(w) + rooms[w] <= dataEnd + RegionLen(rooms)
             /\ Following(doc.shape, w) \in L =>
                  start(Following(doc.shape, w)) = start(w) + rooms[w]
             /\ Following(doc.shape, w) \notin L =>
                  dataEnd + RegionLen(rooms) = start(w) + rooms[w]
             /\ \A v \in L : Before(v, w) => start(v) + rooms[v] <= start(w)
        /\ start(<<1, 0>>) = dataEnd
    <2> HIDE DEF rooms
    <2>1. /\ RegionLen(rooms) \in Nat
          /\ \A w \in L :
              /\ ListStart(rooms, w) \in Nat
              /\ ListStart(rooms, w) + rooms[w] <= RegionLen(rooms)
              /\ Following(doc.shape, w) \in L =>
                   ListStart(rooms, Following(doc.shape, w)) = ListStart(rooms, w) + rooms[w]
              /\ Following(doc.shape, w) \notin L =>
                   RegionLen(rooms) = ListStart(rooms, w) + rooms[w]
              /\ \A v \in L :
                   Before(v, w) => ListStart(rooms, v) + rooms[v] <= ListStart(rooms, w)
          /\ ListStart(rooms, <<1, 0>>) = 0
      BY <1>1, <1>7, <1>8, Starts
    <2>2. \A w \in L : rooms[w] \in Nat
      BY <1>8
    <2> HIDE DEF L
    <2> QED BY <1>5, <2>1, <2>2
  <1>10. ASSUME NEW w \in L
         PROVE  /\ Ended(image(w)) /\ Len(image(w)) = Len(lists[w]) /\ image(w)[1].at = start(w)
                /\ ListEnd(image(w)) = start(w) + rooms[w]
    <2>1. /\ Ended(image(w)) /\ Len(image(w)) = Len(lists[w]) /\ image(w)[1].at = start(w)
          /\ ListEnd(image(w)) =
               start(w) + (IF OfPartition(w) THEN Last(lists[w]).at - lists[w][1].at + HeaderLen + fresh(w).len
                           ELSE ListEnd(lists[w]) - lists[w][1].at)
      <3>1. start(w) \in Nat /\ Ended(lists[w])
        BY <1>2, <1>9
      <3> HIDE DEF start, fresh
      <3>2. fresh(w) \in HeadType /\ fresh(w).last /\ OfPartition(w) \in BOOLEAN
        BY <1>6
      <3>3. ImageFacts(Image(lists[w], start(w), OfPartition(w), fresh(w)),
                       lists[w], start(w), OfPartition(w), fresh(w))
        BY ONLY <3>1, <3>2, ImageIs
      <3>4. ImageFacts(image(w), lists[w], start(w), OfPartition(w), fresh(w))
        BY ONLY <3>3
      <3> HIDE DEF image
      <3> QED BY ONLY <3>4 DEF ImageFacts
    <2>2. rooms[w] = IF OfPartition(w) THEN Last(lists[w]).at - lists[w][1].at + HeaderLen + fresh(w).len
                     ELSE ListEnd(lists[w]) - lists[w][1].at
      <3>1. Spans[w] \in Nat
        BY <1>8
      <3> HIDE DEF rooms, indexes, fresh
      <3>2. CASE OfPartition(w)
        <4>1. rooms[w] = Spans[w] + (HeaderLen + indexLen[w]) /\ fresh(w).len = indexLen[w]
              /\ Spans[w] = Last(lists[w]).at - lists[w][1].at /\ indexLen[w] \in Nat
          BY <1>6, <1>7, <3>2
        <4> QED BY <3>1, <3>2, <4>1
      <3>3. CASE ~OfPartition(w)
        BY <1>7, <3>1, <3>3
      <3> QED BY <3>2, <3>3
    <2> HIDE DEF rooms, start, fresh, image
    <2> QED BY <2>1, <2>2
  <1>11. /\ Sound(tail) /\ tail # <<>> /\ tail[1].at = dataEnd + RegionLen(rooms)
         /\ tail[1].head.name = "json" /\ tail[1].head.form = "plain"
         /\ AuxEnds(lists[Root]) => Ended(tail)
         /\ ListEnd(tail) = dataEnd + RegionLen(rooms) + HeaderLen + text + AuxSize
         /\ AuxSize \in Nat
    <2>1. dataEnd + RegionLen(rooms) \in Nat
      BY <1>5, <1>9
    <2> HIDE DEF rooms, text
    <2>2. PICK r \in Nat, t \in Nat : r = dataEnd + RegionLen(rooms) /\ t = text
      BY <1>5, <2>1
    <2>3. FInv /\ r \in Nat /\ t \in Nat
      OBVIOUS
    <2>4. RootFacts(RootBlocks(r, t), r, t)
      BY ONLY <1>1, <2>3, RootWritten
    <2>5. tail = RootBlocks(r, t)
      BY <2>2 DEF text
    <2> HIDE DEF tail
    <2>6. RootFacts(tail, dataEnd + RegionLen(rooms), text)
      BY ONLY <2>2, <2>4, <2>5
    <2> QED BY ONLY <2>6 DEF RootFacts
  <1>12. /\ DOMAIN target = L \cup {Root} /\ target[Root] = tail
         /\ \A w \in L : target[w] = image(w)
    BY <1>1
  <1>13. /\ doc' = [dataEnd |-> dataEnd, shape |-> doc.shape, split |-> FALSE, text |-> text]
    BY <1>1, <1>4 DEF HasRegion, DocType
  <1>14. HasRegion(doc') /\ doc'.shape = doc.shape /\ doc'.dataEnd = dataEnd /\ doc'.text = text
    BY <1>1, <1>5, <1>13 DEF HasRegion, DocType
  <1>15. root' \in Nat /\ size' = ListEnd(target[Root]) + FooterLen /\ size' \in Nat
         /\ root' = dataEnd + RegionLen(rooms)
    <2> HIDE DEF target, tail, rooms, text
    <2> QED BY <1>4, <1>5, <1>9, <1>11, <1>12
  <1> HIDE DEF target, tail, image, rooms, start, text, fresh, indexes
  <1>16. ASSUME NEW w \in L \cup {Root} PROVE Sound(target[w]) /\ target[w] # <<>>
    BY <1>10, <1>11, <1>12 DEF Ended
  <1>17. Laid(target, doc', root', size')
    <2>1. ASSUME NEW w \in L
          PROVE  /\ Ended(target[w])
                 /\ target[IF Following(doc.shape, w) \in L THEN Following(doc.shape, w)
                           ELSE Root][1].at = ListEnd(target[w])
      <3>1. Ended(target[w]) /\ ListEnd(target[w]) = start(w) + rooms[w]
        BY <1>10, <1>12
      <3>2. CASE Following(doc.shape, w) \in L
        BY <1>9, <1>10, <1>12, <3>1, <3>2
      <3>3. CASE Following(doc.shape, w) \notin L
        BY <1>9, <1>11, <1>12, <3>1, <3>3
      <3> QED BY <3>1, <3>2, <3>3
    <2>2. <<1, 0>> \in L
      BY <1>1, FirstList
    <2>3. target[<<1, 0>>][1].at = dataEnd
      BY <1>9, <1>10, <1>12, <2>2
    <2>4. dataEnd < root'
      <3>1. start(<<1, 0>>) + rooms[<<1, 0>>] <= root' /\ rooms[<<1, 0>>] \in Nat /\ rooms[<<1, 0>>] > 0
        BY <1>8, <1>9, <1>15, <2>2
      <3> QED BY <1>5, <1>9, <1>15, <3>1
    <2>5. target[Root][1].at = root'
      BY <1>11, <1>12, <1>15
    <2> QED BY <1>14, <1>15, <1>16, <2>1, <2>3, <2>4, <2>5 DEF Laid
  <1>18. Apart(target, doc.shape)
    <2>1. \A w \in L : ListEnd(target[w]) <= target[Root][1].at
      BY <1>9, <1>10, <1>11, <1>12
    <2>2. \A w \in L : \A v \in L : Before(v, w) => ListEnd(target[v]) <= target[w][1].at
      BY <1>9, <1>10, <1>12
    <2> QED BY <1>16, <2>1, <2>2 DEF Apart
  <1>19. ASSUME NEW w \in L, NEW i \in DOMAIN lists[w]
         PROVE  /\ i \in DOMAIN target[w] /\ DOMAIN lists[w] = 1 .. Len(lists[w])
                /\ target[w][i] =
                     [at |-> start(w) + (lists[w][i].at - lists[w][1].at),
                      head |-> IF OfPartition(w) /\ i = Len(lists[w]) THEN fresh(w)
                               ELSE lists[w][i].head]
    <2>1. DOMAIN lists[w] = 1 .. Len(lists[w])
      BY <1>2 DEF Ended, Sound
    <2>2. target[w] = Image(lists[w], start(w), OfPartition(w), fresh(w))
      BY <1>12 DEF image
    <2> QED BY <2>1, <2>2 DEF Image
  <1>20. Copies(target, doc.shape, lists)
    <2>1. ASSUME NEW w \in L
          PROVE  /\ Len(target[w]) = Len(lists[w])
                 /\ \A i \in DOMAIN target[w] :
                      target[w][i].head = lists[w][i].head
                        \/ (OfPartition(w) /\ i = Len(target[w]))
                 /\ OfPartition(w) => /\ Last(target[w]).head.name = "index"
                                     /\ Last(target[w]).head.form = "plain"
      <3>1. Len(target[w]) = Len(lists[w]) /\ Ended(target[w]) /\ Ended(lists[w])
        BY <1>2, <1>10, <1>12
      <3>2. /\ DOMAIN target[w] = DOMAIN lists[w] /\ Len(lists[w]) \in DOMAIN lists[w]
            /\ Last(target[w]) = target[w][Len(lists[w])]
        BY <3>1, EndsTyped DEF Ended, Sound, Last
      <3>3. \A i \in DOMAIN lists[w] :
              target[w][i].head = IF OfPartition(w) /\ i = Len(lists[w]) THEN fresh(w)
                                  ELSE lists[w][i].head
        <4> TAKE i \in DOMAIN lists[w]
        <4>1. target[w][i] =
                [at |-> start(w) + (lists[w][i].at - lists[w][1].at),
                 head |-> IF OfPartition(w) /\ i = Len(lists[w]) THEN fresh(w)
                          ELSE lists[w][i].head]
          BY <1>19
        <4> QED BY <4>1
      <3>4. fresh(w).name = "index" /\ fresh(w).form = "plain"
        BY <1>6
      <3> QED BY <3>1, <3>2, <3>3, <3>4
    <2> QED BY <1>11, <1>12, <2>1 DEF Copies
  <1> DEFINE Pairs(w) == {<<target[w][i].at, target[w][i].head>> : i \in DOMAIN target[w]}
  <1>21. ASSUME NEW w \in L PROVE Copied(w, start(w), indexLen) = Pairs(w)
    <2>1. DOMAIN target[w] = DOMAIN lists[w]
      BY <1>2, <1>10, <1>12 DEF Ended, Sound
    <2>2. \A i \in DOMAIN lists[w] :
            <<target[w][i].at, target[w][i].head>> =
              <<start(w) + (lists[w][i].at - lists[w][1].at),
                IF OfPartition(w) /\ i = Len(lists[w]) THEN Header("index", indexLen[w], TRUE, "plain")
                ELSE lists[w][i].head>>
      <3> TAKE i \in DOMAIN lists[w]
      <3>1. target[w][i] =
              [at |-> start(w) + (lists[w][i].at - lists[w][1].at),
               head |-> IF OfPartition(w) /\ i = Len(lists[w]) THEN fresh(w)
                        ELSE lists[w][i].head]
        BY <1>19
      <3>2. OfPartition(w) => fresh(w) = Header("index", indexLen[w], TRUE, "plain")
        BY <1>6
      <3>3. /\ target[w][i].at = start(w) + (lists[w][i].at - lists[w][1].at)
            /\ target[w][i].head = IF OfPartition(w) /\ i = Len(lists[w]) THEN fresh(w)
                                   ELSE lists[w][i].head
        BY <3>1
      <3> QED BY <3>2, <3>3
    <2> QED BY <2>1, <2>2 DEF Copied
  <1>22. {<<b.at, b.head>> : b \in Range(tail)} = Pairs(Root)
    BY <1>12 DEF Range
  <1>23. heads = UNION {Pairs(w) : w \in L \cup {Root}}
    <2>1. heads = (UNION {Pairs(w) : w \in L}) \cup Pairs(Root)
      BY <1>7, <1>21, <1>22 DEF heads
    <2> HIDE DEF Pairs
    <2> QED BY <2>1
  <1>24. \A h \in heads : \E w \in L \cup {Root} : \E i \in DOMAIN target[w] :
           h = <<target[w][i].at, target[w][i].head>>
    BY <1>23
  <1>25. \A w \in L \cup {Root} : \A i \in DOMAIN target[w] :
           <<target[w][i].at, target[w][i].head>> \in heads
    BY <1>23
  <1>26. \A g, h \in heads : g[1] = h[1] => g = h
    <2> SUFFICES ASSUME NEW g \in heads, NEW h \in heads, g[1] = h[1] PROVE g = h
      OBVIOUS
    <2>1. PICK v \in L \cup {Root} : \E i \in DOMAIN target[v] :
            g = <<target[v][i].at, target[v][i].head>>
      BY <1>24
    <2>2. PICK i \in DOMAIN target[v] : g = <<target[v][i].at, target[v][i].head>>
      BY <2>1
    <2>3. PICK w \in L \cup {Root} : \E j \in DOMAIN target[w] :
            h = <<target[w][j].at, target[w][j].head>>
      BY <1>24
    <2>4. PICK j \in DOMAIN target[w] : h = <<target[w][j].at, target[w][j].head>>
      BY <2>3
    <2>5. target[v][i].at = target[w][j].at
      BY <2>2, <2>4
    <2>6. v = w /\ i = j
      BY <1>1, <1>18, <2>5, Distinct
    <2> QED BY <2>2, <2>4, <2>6
  <1> HIDE DEF heads, Pairs
  <1>27. /\ DOMAIN known' = {h[1] : h \in heads}
         /\ \A h \in heads : known'[h[1]] = h[2]
    BY <1>4, <1>26, PairsAreFunction
  <1>28. Held(target, known')
    <2>1. ASSUME NEW w \in L \cup {Root}, NEW i \in DOMAIN target[w]
          PROVE  /\ target[w][i].at \in DOMAIN known'
                 /\ known'[target[w][i].at] = target[w][i].head
      <3> DEFINE h == <<target[w][i].at, target[w][i].head>>
      <3>1. h \in heads /\ h[1] = target[w][i].at /\ h[2] = target[w][i].head
        BY <1>25
      <3> HIDE DEF h
      <3> QED BY <1>27, <3>1
    <2>2. ASSUME NEW o \in DOMAIN known'
          PROVE  \E w \in L \cup {Root} : \E i \in DOMAIN target[w] : o = target[w][i].at
      <3>1. PICK h \in heads : o = h[1]
        BY <1>27
      <3>2. PICK w \in L \cup {Root} : \E i \in DOMAIN target[w] :
              h = <<target[w][i].at, target[w][i].head>>
        BY <1>24
      <3> QED BY <3>1, <3>2
    <2> QED BY <1>12, <2>1, <2>2 DEF Held
  <1>29. size' <= projected' + Max({0, doc'.text - doc.text - Allowance})
    <2>1. /\ RegionLen(rooms) = SumFunction(Spans) + SumFunction(indexes)
          /\ SumFunction(Spans) \in Nat /\ SumFunction(indexes) \in Nat
      <3>1. /\ RegionLen(rooms) = SumFunctionOnSet(rooms, L)
            /\ SumFunction(Spans) = SumFunctionOnSet(Spans, L)
            /\ SumFunction(indexes) = SumFunctionOnSet(indexes, L)
        <4>1. /\ SumFunction(Spans) = SumFunctionOnSet(Spans, DOMAIN Spans)
              /\ SumFunction(indexes) = SumFunctionOnSet(indexes, DOMAIN indexes)
          BY DEF SumFunction, SumFunctionOnSet, FoldFunction
        <4> QED BY <1>7, <4>1 DEF RegionLen
      <3>2. IsFiniteSet(L)
        BY <1>1, ListsFinite
      <3>3. \A w \in L : Spans[w] \in Nat /\ indexes[w] \in Nat
                         /\ rooms[w] = Spans[w] + indexes[w]
        BY <1>7, <1>8
      <3> HIDE DEF L
      <3>4. SumFunctionOnSet(rooms, L) = SumFunctionOnSet(Spans, L) + SumFunctionOnSet(indexes, L)
        BY <3>2, <3>3, SumOfTwo
      <3>5. SumFunctionOnSet(Spans, L) \in Nat /\ SumFunctionOnSet(indexes, L) \in Nat
        BY <3>2, <3>3, SumIsNat
      <3> QED BY <3>1, <3>4, <3>5
    <2> DEFINE sum  == SumFunction(Spans) + SumFunction(indexes)
               more == doc'.text - doc.text - Allowance
    <2>2. size' = dataEnd + sum + 1 + text + AuxSize + 1
      BY <1>11, <1>12, <1>15, <2>1
    <2>3. projected' = dataEnd + (sum + 1 + doc.text + AuxSize + Allowance + 1)
      BY <1>4 DEF EstimateMetadata, indexes
    <2>4. more = text - doc.text - Allowance
      BY <1>14
    <2>5. sum \in Nat /\ AuxSize \in Nat /\ doc.text \in Nat /\ Allowance \in Nat
      BY <1>1, <1>11, <2>1, FramingAssumption
    <2> DEFINE a == AuxSize
               d == doc.text
    <2>6. /\ size' = dataEnd + sum + 1 + text + a + 1
          /\ projected' = dataEnd + (sum + 1 + d + a + Allowance + 1)
          /\ more = text - d - Allowance
          /\ sum \in Nat /\ a \in Nat /\ d \in Nat /\ Allowance \in Nat
      BY <2>2, <2>3, <2>4, <2>5
    <2> HIDE DEF sum, more, a, d
    <2>7. more \in Int
      BY <1>5, <2>6
    <2>8. Max({0, more}) = IF 0 >= more THEN 0 ELSE more
      BY <2>7, MaxOfTwo
    <2>9. size' <= projected' + Max({0, more})
      BY <1>5, <2>6, <2>7, <2>8
    <2> QED BY <2>9 DEF more
  <1>30. DOMAIN target = L \cup {Root}
    BY <1>12
  <1> QED BY <1>1, <1>14, <1>15, <1>17, <1>18, <1>20, <1>28, <1>29, <1>30

LEMMA FWriteOutput == FInv /\ WriteOutput => FInv'
  <1> SUFFICES ASSUME FInv, WriteOutput PROVE FInv'
    OBVIOUS
  <1>1. /\ HasRegion(doc') /\ doc'.shape = doc.shape /\ root' \in Nat /\ size' \in Nat
        /\ \E target : /\ DOMAIN target = ListsOf(doc.shape) \cup {Root}
                      /\ Laid(target, doc', root', size') /\ Apart(target, doc.shape)
                      /\ Held(target, known')
    BY OutputWritten
  <1>2. /\ phase' = "output" /\ pc' = "footer" /\ UNCHANGED walkVars
    BY DEF WriteOutput, Go
  <1>3. PICK target : /\ DOMAIN target = ListsOf(doc.shape) \cup {Root}
                      /\ Laid(target, doc', root', size') /\ Apart(target, doc.shape)
                      /\ Held(target, known')
    BY <1>1
  <1>4. ASSUME NEW o \in DOMAIN known' PROVE known'[o] \in HeadType /\ o + HeaderLen <= size'
    <2>1. PICK w \in DOMAIN target : \E i \in DOMAIN target[w] : o = target[w][i].at
      BY <1>3 DEF Held
    <2>2. PICK i \in DOMAIN target[w] : o = target[w][i].at
      BY <2>1
    <2>3. known'[o] = target[w][i].head
      BY <1>3, <2>1, <2>2 DEF Held
    <2>4. target[w][i] \in Block
      <3>1. Sound(target[w])
        BY <1>3 DEF Apart
      <3> QED BY <3>1 DEF Sound
    <2>5. o < BlockEnd(target[w][i])
      BY <1>3, <2>2, Within DEF Apart
    <2>6. BlockEnd(target[w][i]) + FooterLen <= size'
      BY <1>3, BlockFits, <1>1
    <2>7. o \in Nat /\ BlockEnd(target[w][i]) \in Nat
      BY <2>2, <2>4 DEF Block, HeadType, BlockEnd
    <2> QED BY <1>1, <2>3, <2>4, <2>5, <2>6, <2>7 DEF Block
  <1>5. Types'
    BY <1>1, <1>2, <1>4 DEF FInv, Types, HasRegion, DocType, walkVars
  <1>6. Read'
    BY <1>2 DEF FInv, Read, Ended, Sound, Contiguous, BlockEnd, walkVars
  <1> QED BY <1>2, <1>5, <1>6 DEF FInv, Walking, Accepted

LEMMA FStutter == FInv /\ UNCHANGED vars => FInv'
  BY DEF FInv, Types, Walking, Read, Accepted, vars, fileVars, walkVars, Ended, Sound,
         Contiguous, BlockEnd, ListEnd, Joined, From, HasRegion, DocType, Named

\* A file that is not read meets the invariant too.
LEMMA FIdle == FramingIdle => FInv
  <1> SUFFICES ASSUME FramingIdle PROVE FInv
    OBVIOUS
  <1>1. Sound(list)
    BY FramingAssumption DEF FramingIdle, Sound, Contiguous
  <1>2. DOMAIN lists = {} /\ DOMAIN known = {}
    BY DEF FramingIdle
  <1>3. Types
    BY <1>2 DEF FramingIdle, Types
  <1>4. Joined(doc, root, lists)
    BY <1>2 DEF Joined
  <1>5. pc = "refused" /\ \A w \in DOMAIN lists : Ended(lists[w])
    BY <1>2 DEF FramingIdle
  <1> QED BY <1>1, <1>3, <1>4, <1>5 DEF FInv, Walking, Read, Accepted

\* A step of the whole is a step of the framing or leaves it alone.
LEMMA FileStarts == FileInit => (Init \/ FramingIdle)
  BY DEF FileInit
LEMMA FileSteps == [FileNext]_<<vars, machine, indexVars, verifyVars>> => [Next]_vars
  BY DEF FileNext

\* The invariant holds in every state.
LEMMA FileInv == FileSpec => []FInv
  <1>1. FInv /\ [Next]_vars => FInv'
    BY FReadFooter, FReadHeader, FReadDocument, FEndList, FWriteOutput, FStutter DEF Next
  <1> QED BY <1>1, FInit, FIdle, FileStarts, FileSteps, PTL DEF FileSpec

\* No more blocks of a list are read than walk_list allows, in a file that may hold anything.
THEOREM WalksAreBounded == FileSpec => []WalkBounded
  <1>1. FInv => WalkBounded
    BY DEF FInv, Read, Ended, Sound, WalkBounded
  <1> QED BY <1>1, FileInv, PTL

\* An accepted file that is framed has its lists one after another from the end of its data
\* to the footer: what parse and check_framing compare is enough for that.
THEOREM FramedIsTiled == FileSpec => []Tiled
  <1>1. FInv => Tiled
    <2> SUFFICES ASSUME FInv, pc = "accepted", ~doc.split, Framed
                 PROVE  /\ DOMAIN lists = ListsOf(doc.shape) \cup {Root}
                        /\ \A w \in DOMAIN lists : Contiguous(lists[w])
                        /\ lists[<<1, 0>>][1].at = doc.dataEnd
                        /\ \A w \in ListsOf(doc.shape) :
                             LET next == Following(doc.shape, w)
                             IN  lists[IF next \in ListsOf(doc.shape) THEN next ELSE Root][1].at
                                   = ListEnd(lists[w])
                        /\ ListEnd(lists[Root]) + FooterLen = size
      BY DEF Tiled
    <2>1. /\ doc \in DocType /\ doc.shape \in Seq(Nat) /\ doc.shape # <<>>
          /\ DOMAIN lists = {Root} \cup ListsOf(doc.shape)
          /\ \A w \in ListsOf(doc.shape) :
               Following(doc.shape, w) \notin ListsOf(doc.shape) => ListEnd(lists[w]) = root
      BY DEF FInv, Accepted, DocType
    <2>2. /\ \A w \in DOMAIN lists : Ended(lists[w])
          /\ Joined(doc, root, lists)
      BY DEF FInv, Read
    <2>3. <<1, 0>> \in ListsOf(doc.shape) /\ Root \notin ListsOf(doc.shape)
      BY <2>1, FirstList, RootApart
    <2>4. ASSUME NEW w \in ListsOf(doc.shape)
          PROVE  lists[IF Following(doc.shape, w) \in ListsOf(doc.shape)
                       THEN Following(doc.shape, w) ELSE Root][1].at = ListEnd(lists[w])
      <3> DEFINE next == Following(doc.shape, w)
      <3>1. CASE next \in ListsOf(doc.shape)
        BY <2>1, <2>2, <2>3, <3>1 DEF Joined
      <3>2. CASE next \notin ListsOf(doc.shape)
        BY <2>1, <2>2, <3>2 DEF Joined
      <3> QED BY <3>1, <3>2
    <2>5. ListEnd(lists[Root]) + FooterLen = size
      <3>1. ListEnd(lists[Root]) \in Nat /\ size \in Nat
        BY <2>1, <2>2, EndsTyped DEF Ended, FInv, Types
      <3> QED BY <3>1 DEF Framed
    <2> QED BY <2>1, <2>2, <2>3, <2>4, <2>5 DEF Joined, Ended, Sound
  <1> QED BY <1>1, FileInv, PTL

-----------------------------------------------------------------------------
(* Framing: an output is read as it was written.                           *)

\* How far the walk of an output is along the lists that were written to it.
Along(target) ==
  /\ \A w \in DOMAIN lists : lists[w] = target[w]
  /\ pc \in {"walk", "listed"} =>
       which \in DOMAIN target /\ \A i \in DOMAIN list : list[i] = target[which][i]
  /\ pc = "walk" => Len(list) < Len(target[which]) /\ at = target[which][Len(list) + 1].at
  /\ pc = "listed" => list = target[which]

\* The file being read is one with these lists.
Written(target) ==
  /\ DOMAIN target = ListsOf(doc.shape) \cup {Root}
  /\ Laid(target, doc, root, size) /\ Apart(target, doc.shape)
  /\ Held(target, known) /\ Copies(target, doc.shape, to.lists)

OutInv ==
  phase = "output" =>
    /\ DOMAIN to.lists = ListsOf(doc.shape) \cup {Root}
    /\ size <= projected + Max({0, doc.text - to.doc.text - Allowance})
    /\ AuxEnds(to.lists[Root]) =>
         /\ pc # "refused"
         /\ \E target : Written(target) /\ (pc # "footer" => Along(target))

\* A walk of one of its lists begins with a block of it.
LEMMA OReadFooter ==
  ASSUME FInv, phase = "output", NEW target, Written(target), ReadFooter
  PROVE  pc' # "refused" /\ Along(target)'
  <1>1. /\ Sound(target[Root]) /\ target[Root] # <<>> /\ target[Root][1].at = root
        /\ ListEnd(target[Root]) + FooterLen = size /\ Root \in DOMAIN target
    BY DEF Written, Laid
  <1>2. ListEnd(target[Root]) \in Nat /\ Len(target[Root]) \in Nat \ {0}
    BY <1>1, EndsTyped
  <1>3. pc' = "walk"
    BY <1>1, <1>2 DEF ReadFooter, Go
  <1>4. which' = Root /\ at' = root /\ list' = <<>> /\ DOMAIN lists' = {}
    BY DEF ReadFooter
  <1>5. Len(list') = 0 /\ DOMAIN list' = {}
    BY <1>4
  <1> QED BY <1>1, <1>2, <1>3, <1>4, <1>5 DEF Along

\* The next block of a list is read where it is, and ends the walk if it ends the list.
LEMMA OReadHeader ==
  ASSUME FInv, phase = "output", NEW target, Written(target), Along(target),
         AuxEnds(to.lists[Root]), ReadHeader
  PROVE  pc' # "refused" /\ Along(target)' /\ Held(target, known')
  <1> DEFINE l == target[which]
             n == Len(list) + 1
  <1>1. /\ pc = "walk" /\ UNCHANGED <<phase, size, root, doc, which, lists, to, projected>>
    BY HeaderRead
  <1>2. /\ which \in ListsOf(doc.shape) \cup {Root} /\ Len(list) < Len(l) /\ at = l[n].at
        /\ \A i \in DOMAIN list : list[i] = l[i]
    BY <1>1 DEF Along, Written
  <1>3. Ended(l) /\ Sound(l) /\ l # <<>>
    <2>1. CASE which = Root
      BY <2>1 DEF Written, Copies, Ended
    <2>2. CASE which # Root
      BY <1>2, <2>2 DEF Written, Laid, Ended
    <2> QED BY <2>1, <2>2
  <1>4. /\ list \in Seq(Block) /\ Len(list) \in Nat /\ DOMAIN list = 1 .. Len(list)
        /\ Len(l) \in Nat /\ DOMAIN l = 1 .. Len(l) /\ n \in DOMAIN l /\ n \in Nat
        /\ l[n] \in Block /\ l[n].head \in HeadType /\ Last(l) = l[Len(l)] /\ Len(l) <= MaxBlocks
    <2>1. list \in Seq(Block)
      BY DEF FInv, Read, Sound
    <2>2. Len(list) \in Nat /\ DOMAIN list = 1 .. Len(list)
      BY <2>1
    <2>3. Len(l) \in Nat /\ DOMAIN l = 1 .. Len(l) /\ Last(l) = l[Len(l)]
      BY <1>3, EndsTyped
    <2>4. n \in DOMAIN l
      BY <1>2, <2>2, <2>3
    <2>5. l[n] \in Block /\ l[n].head \in HeadType
      BY <1>3, <2>4, EndsTyped
    <2> HIDE DEF l
    <2>6. Len(l) <= MaxBlocks
      BY <1>3 DEF Sound
    <2> QED BY <2>1, <2>2, <2>3, <2>4, <2>5, <2>6
  <1>5. at \in DOMAIN known /\ known[at] = l[n].head
    BY <1>2, <1>4 DEF Written, Held
  <1>6. InFile(at)
    <2>1. BlockEnd(l[n]) + FooterLen <= size /\ BlockEnd(l[n]) \in Nat
      BY <1>2, <1>4, BlockFits DEF Written, FInv, Types
    <2>2. l[n].at < BlockEnd(l[n]) /\ l[n].at \in Nat /\ size \in Nat
      BY <1>3, <1>4, EndsTyped DEF FInv, Types
    <2> HIDE DEF l, n
    <2> QED BY <1>2, <2>1, <2>2 DEF InFile
  <1>7. PICK h \in HeadType :
                 /\ at \in DOMAIN known => h = known[at]
                 /\ known' = [o \in DOMAIN known \cup {at} |-> IF o = at THEN h ELSE known[o]]
                 /\ list' = Append(list, [at |-> at, head |-> h])
                 /\ at' = BlockEnd([at |-> at, head |-> h])
                 /\ pc' = IF h.last THEN "listed"
                          ELSE IF Len(list') < MaxBlocks THEN "walk" ELSE "refused"
    <2>1. ~(pc' = "refused" /\ UNCHANGED <<known, at, list>>)
      <3>1. \E h \in {known[at]} : list' = Append(list, [at |-> at, head |-> h])
        BY <1>5, <1>6 DEF ReadHeader
      <3>2. [at |-> at, head |-> known[at]] \in Block
        BY <1>4, <1>5 DEF FInv, Types, Block
      <3>3. PICK b \in Block : list' = Append(list, b)
        BY <3>1, <3>2
      <3>4. Len(Append(list, b)) # Len(list)
        <4>1. list \in Seq(Block)
          BY <1>4
        <4> HIDE DEF l, n
        <4>2. Len(list) \in Nat /\ Len(Append(list, b)) = Len(list) + 1
          BY <4>1
        <4> QED BY <4>2
      <3> QED BY <3>3, <3>4
    <2> QED BY <2>1, HeaderRead
  <1>8. h = l[n].head /\ [at |-> at, head |-> h] = l[n]
    <2>1. h = l[n].head
      BY <1>5, <1>7
    <2>2. \A b \in Block : b = [at |-> b.at, head |-> b.head]
      BY DEF Block
    <2> HIDE DEF l, n
    <2> QED BY <1>2, <1>4, <2>1, <2>2
  <1>9. Held(target, known')
    <2>1. DOMAIN known' = DOMAIN known /\ \A o \in DOMAIN known : known'[o] = known[o]
      BY <1>5, <1>7
    <2>2. Held(target, known)
      BY DEF Written
    <2> HIDE DEF l, n
    <2> QED BY <2>1, <2>2 DEF Held
  <1> HIDE DEF l, n
  <1>10. list' = Append(list, l[n]) /\ at' = BlockEnd(l[n])
    BY <1>7, <1>8
  <1>11. /\ DOMAIN list' = 1 .. n /\ Len(list') = n
         /\ \A i \in DOMAIN list' : list'[i] = l[i]
    <2>1. n = Len(list) + 1
      BY DEF n
    <2> QED BY <1>2, <1>4, <1>10, <2>1
  <1>12. CASE h.last
    <2>1. n = Len(l)
      <3>1. \A i \in 1 .. Len(l) - 1 : ~l[i].head.last
        BY <1>3 DEF Sound
      <3> QED BY <1>4, <1>8, <1>12, <3>1
    <2>2. list' = l
      <3>1. list' \in Seq(Block) /\ l \in Seq(Block)
        BY <1>3, <1>4, <1>10 DEF Sound
      <3> QED BY <1>4, <1>11, <2>1, <3>1
    <2>3. pc' = "listed"
      BY <1>7, <1>12
    <2> QED BY <1>1, <1>9, <1>11, <2>2, <2>3 DEF Along, l
  <1>13. CASE ~h.last
    <2>1. n # Len(l)
      BY <1>3, <1>4, <1>8, <1>13 DEF Ended
    <2>2. n < Len(l)
      BY <1>4, <2>1
    <2>3. pc' = "walk"
      BY <1>4, <1>7, <1>11, <1>13, <2>2, FramingAssumption
    <2>4. at' = l[n + 1].at
      BY <1>3, <1>4, <1>10, <2>2 DEF Sound, Contiguous
    <2> QED BY <1>1, <1>9, <1>11, <2>2, <2>3, <2>4 DEF Along, l
  <1> QED BY <1>12, <1>13

\* The document is found, and the walk goes on to the region.
LEMMA OReadDocument ==
  ASSUME FInv, phase = "output", NEW target, Written(target), Along(target), ReadDocument
  PROVE  pc' # "refused" /\ Along(target)'
  <1> DEFINE ls == [v \in DOMAIN lists \cup {which} |-> IF v = which THEN list ELSE lists[v]]
  <1>1. pc = "listed" /\ which = Root /\ lists' \in {ls, lists'} /\ list = target[Root]
    BY DEF ReadDocument, Along
  <1>2. /\ Sound(target[Root]) /\ target[Root] # <<>> /\ target[Root][1].head.name = "json"
        /\ target[Root][1].head.form = "plain"
        /\ HasRegion(doc) /\ doc.shape \in Seq(Nat) /\ doc.dataEnd < root
        /\ target[<<1, 0>>][1].at = doc.dataEnd /\ doc.dataEnd \in Nat
    BY DEF Written, Laid, Copies, FInv, Types, HasRegion, DocType
  <1>3. list \in Seq(Block) /\ 1 \in DOMAIN list
    BY <1>1, <1>2, EndsTyped DEF Sound
  <1>4. Named(list, "json") # {} /\ First(list, "json") = list[1]
    <2>1. 1 \in Named(list, "json")
      BY <1>1, <1>2, <1>3 DEF Named
    <2>2. PICK i \in DOMAIN list : /\ First(list, "json") = list[i]
                                  /\ \A j \in DOMAIN list : list[j].head.name = "json" => i <= j
      BY <1>3, <2>1, FirstIs
    <2>3. i <= 1 /\ i \in Nat /\ i >= 1
      BY <1>1, <1>2, <1>3, <2>2
    <2>4. i = 1
      BY <2>3
    <2> QED BY <2>1, <2>2, <2>4
  <1>5. Whole(First(list, "json"))
    <2>1. /\ BlockEnd(target[Root][1]) + FooterLen <= size /\ BlockEnd(target[Root][1]) \in Nat
          /\ size \in Nat
      BY <1>1, <1>3, BlockFits DEF Written, FInv, Types
    <2> QED BY <1>1, <1>4, <2>1 DEF Whole
  <1>6. doc' = doc /\ WalkList(<<1, 0>>, doc.dataEnd)
    <2>1. First(list, "json").head.form # "encrypted"
      BY <1>1, <1>2, <1>4
    <2>2. \E d \in {doc} :
                   /\ doc' = d
                   /\ IF doc'.split THEN Finish("accepted")
                      ELSE IF doc'.dataEnd >= root THEN Finish("refused")
                      ELSE IF doc'.shape = <<>> THEN Finish("refused")
                      ELSE WalkList(<<1, 0>>, doc'.dataEnd)
      BY <1>4, <1>5, <2>1 DEF ReadDocument
    <2>3. ~doc.split /\ doc.shape # <<>> /\ ~(doc.dataEnd >= root)
      BY <1>2 DEF HasRegion, FInv, Types
    <2> QED BY <2>2, <2>3
  <1>7. /\ pc' = "walk" /\ which' = <<1, 0>> /\ at' = doc.dataEnd /\ list' = <<>>
        /\ lists' = ls
    BY <1>6 DEF WalkList, Go
  <1>8. <<1, 0>> \in ListsOf(doc.shape)
    BY <1>2, FirstList DEF HasRegion
  <1>9. /\ <<1, 0>> \in DOMAIN target /\ Len(target[<<1, 0>>]) \in Nat \ {0}
    <2>1. Sound(target[<<1, 0>>]) /\ target[<<1, 0>>] # <<>>
      BY <1>8 DEF Written, Apart
    <2> QED BY <1>8, <2>1, EndsTyped DEF Written
  <1>10. \A w \in DOMAIN lists' : lists'[w] = target[w]
    BY <1>1, <1>7 DEF Along
  <1>11. Len(list') = 0 /\ DOMAIN list' = {}
    BY <1>7
  <1>12. pc' = "walk" => Len(list') < Len(target[which']) /\ at' = target[which'][Len(list') + 1].at
    <2>1. Len(list') + 1 = 1
      BY <1>11
    <2> QED BY <1>2, <1>7, <1>9, <1>11, <2>1
  <1> QED BY <1>7, <1>9, <1>10, <1>11, <1>12 DEF Along

\* The walk goes on to the list that begins where this one ends, or the last ends at the root.
LEMMA OEndList ==
  ASSUME FInv, phase = "output", NEW target, Written(target), Along(target), EndList
  PROVE  pc' # "refused" /\ Along(target)'
  <1> DEFINE next == Following(doc.shape, which)
             ls == [v \in DOMAIN lists \cup {which} |-> IF v = which THEN list ELSE lists[v]]
  <1>1. pc = "listed" /\ which # Root /\ list = target[which]
    BY DEF EndList, Along
  <1>2. /\ HasRegion(doc) /\ doc.shape \in Seq(Nat) /\ which \in ListsOf(doc.shape)
        /\ at = ListEnd(list) /\ root \in Nat
    BY <1>1 DEF FInv, Types, Walking, HasRegion, DocType, Ended
  <1>3. /\ Ended(target[which]) /\ target[Root][1].at = root
        /\ target[IF next \in ListsOf(doc.shape) THEN next ELSE Root][1].at = ListEnd(target[which])
    BY <1>2 DEF Written, Laid
  <1>4. next \in ListsOf(doc.shape) <=> next[1] <= Len(doc.shape)
    BY <1>2, FollowingIs
  <1>5. OfPartition(which) => /\ Last(list).head.name = "index" /\ Last(list).head.form = "plain"
                             /\ Whole(Last(list))
    <2> SUFFICES ASSUME OfPartition(which)
                 PROVE  /\ Last(list).head.name = "index" /\ Last(list).head.form = "plain"
                        /\ Whole(Last(list))
      OBVIOUS
    <2>1. Len(list) \in DOMAIN list /\ Last(list) = list[Len(list)]
      BY <1>1, <1>3, EndsTyped DEF Ended
    <2>2. /\ BlockEnd(Last(list)) + FooterLen <= size /\ BlockEnd(Last(list)) \in Nat
          /\ size \in Nat
      BY <1>1, <1>2, <2>1, BlockFits DEF Written, FInv, Types
    <2>3. Whole(Last(list))
      BY <2>2 DEF Whole
    <2> QED BY <1>1, <1>2, <2>3 DEF Written, Copies
  <1>6. IF next[1] <= Len(doc.shape) THEN WalkList(next, at)
        ELSE Finish(IF EndsAtRoot(at) THEN "accepted" ELSE "refused")
    <2>1. which[2] = 0 \/ (Last(list).head.name = "index" /\ Last(list).head.form = "plain"
                            /\ Whole(Last(list)))
      BY <1>5 DEF OfPartition
    <2> QED BY <2>1 DEF EndList
  <1>7. doc' = doc /\ lists' = ls
    BY <1>6 DEF EndList, WalkList, Finish
  <1>8. \A w \in DOMAIN lists' : lists'[w] = target[w]
    BY <1>1, <1>7 DEF Along
  <1>9. CASE next \in ListsOf(doc.shape)
    <2>1. pc' = "walk" /\ which' = next /\ at' = at /\ list' = <<>>
      BY <1>4, <1>6, <1>9 DEF WalkList, Go
    <2>2. next \in DOMAIN target /\ Len(target[next]) \in Nat \ {0}
      <3>1. Sound(target[next]) /\ target[next] # <<>>
        BY <1>9 DEF Written, Apart
      <3> QED BY <1>9, <3>1, EndsTyped DEF Written
    <2>3. at = target[next][1].at
      BY <1>1, <1>2, <1>3, <1>9
    <2>4. Len(list') = 0 /\ DOMAIN list' = {}
      BY <2>1
    <2> HIDE DEF next
    <2> QED BY <1>8, <2>1, <2>2, <2>3, <2>4 DEF Along
  <1>10. CASE next \notin ListsOf(doc.shape)
    <2>1. EndsAtRoot(at)
      BY <1>1, <1>2, <1>3, <1>10 DEF EndsAtRoot
    <2>2. pc' = "accepted"
      BY <1>4, <1>6, <1>10, <2>1 DEF Finish, Go
    <2> QED BY <1>8, <2>2 DEF Along
  <1> QED BY <1>9, <1>10

\* What an output's lists are stays what they were written as.
LEMMA OutStep == FInv /\ OutInv /\ [Next]_vars => OutInv'
  <1> SUFFICES ASSUME FInv, OutInv, [Next]_vars PROVE OutInv'
    OBVIOUS
  <1>1. CASE WriteOutput
    <2>1. /\ DOMAIN lists = {Root} \cup ListsOf(doc.shape) /\ doc'.shape = doc.shape
          /\ \E target : /\ DOMAIN target = ListsOf(doc.shape) \cup {Root}
                        /\ Laid(target, doc', root', size') /\ Apart(target, doc.shape)
                        /\ Held(target, known') /\ Copies(target, doc.shape, lists)
          /\ size' <= projected' + Max({0, doc'.text - doc.text - Allowance})
      BY <1>1, OutputWritten DEF FInv, Accepted, WriteOutput
    <2>2. to'.lists = lists /\ to'.doc = doc /\ phase' = "output" /\ pc' = "footer"
      BY <1>1 DEF WriteOutput, Go
    <2>3. \E target : Written(target)'
      <3>1. PICK target : /\ DOMAIN target = ListsOf(doc.shape) \cup {Root}
                          /\ Laid(target, doc', root', size') /\ Apart(target, doc.shape)
                          /\ Held(target, known') /\ Copies(target, doc.shape, lists)
        BY <2>1
      <3>2. Written(target)'
        BY <2>1, <2>2, <3>1 DEF Written
      <3> QED BY <3>2
    <2> QED BY <2>1, <2>2, <2>3 DEF OutInv
  <1>2. CASE ~WriteOutput /\ phase = "output"
    <2>1. UNCHANGED <<phase, size, root, to, projected>> /\ doc' = doc
      BY <1>2 DEF Next, vars, fileVars, ReadFooter, ReadHeader, ReadDocument, EndList
    <2>2. /\ DOMAIN to.lists = ListsOf(doc.shape) \cup {Root}
          /\ size <= projected + Max({0, doc.text - to.doc.text - Allowance})
      BY <1>2 DEF OutInv
    <2>3. ASSUME AuxEnds(to.lists[Root])
          PROVE  pc' # "refused" /\ \E target : Written(target)' /\ (pc' # "footer" => Along(target)')
      <3>1. PICK target : Written(target) /\ (pc # "footer" => Along(target))
        BY <1>2, <2>3 DEF OutInv
      <3>2. pc # "refused"
        BY <1>2, <2>3 DEF OutInv
      <3>3. ASSUME Held(target, known') PROVE Written(target)'
        BY <2>1, <3>1, <3>3 DEF Written
      <3>4. Held(target, known)
        BY <3>1 DEF Written
      <3>5. CASE ReadFooter
        <4>1. known' = known
          BY <3>5 DEF ReadFooter, fileVars
        <4> QED BY <1>2, <3>1, <3>3, <3>4, <3>5, <4>1, OReadFooter
      <3>6. CASE ReadHeader
        <4>1. pc # "footer"
          BY <3>6 DEF ReadHeader
        <4> QED BY <1>2, <2>3, <3>1, <3>3, <3>6, <4>1, OReadHeader
      <3>7. CASE ReadDocument
        <4>1. known' = known /\ pc # "footer"
          BY <3>7 DEF ReadDocument, fileVars
        <4> QED BY <1>2, <3>1, <3>3, <3>4, <3>7, <4>1, OReadDocument
      <3>8. CASE EndList
        <4>1. known' = known /\ pc # "footer"
          BY <3>8 DEF EndList, fileVars
        <4> QED BY <1>2, <3>1, <3>3, <3>4, <3>8, <4>1, OEndList
      <3>9. CASE UNCHANGED vars
        <4>1. known' = known /\ UNCHANGED <<pc, which, at, list, lists>>
          BY <3>9 DEF vars, fileVars, walkVars
        <4>2. Along(target) => Along(target)'
          BY <4>1 DEF Along
        <4> QED BY <3>1, <3>2, <3>3, <3>4, <4>1, <4>2
      <3> QED BY <1>2, <3>5, <3>6, <3>7, <3>8, <3>9 DEF Next
    <2> QED BY <2>1, <2>2, <2>3 DEF OutInv
  <1>3. CASE ~WriteOutput /\ phase # "output"
    BY <1>3 DEF Next, vars, ReadFooter, ReadHeader, ReadDocument, EndList, OutInv
  <1> QED BY <1>1, <1>2, <1>3

LEMMA OutputInv == FileSpec => []OutInv
  <1>1. Init \/ FramingIdle => OutInv
    BY DEF Init, FramingIdle, OutInv
  <1> QED BY <1>1, OutStep, FileStarts, FileSteps, FileInv, PTL DEF FileSpec

\* An output that was written from an accepted To file is accepted and framed when it is
\* opened again, with the blocks of that file in its lists.
THEOREM OutputsAreRead == FileSpec => []WrittenIsRead
  <1>1. FInv /\ OutInv => WrittenIsRead
    <2> SUFFICES ASSUME FInv, OutInv, phase = "output", AuxEnds(to.lists[Root])
                 PROVE  /\ pc # "refused"
                        /\ pc = "accepted" =>
                             /\ Framed
                             /\ DOMAIN lists = DOMAIN to.lists
                             /\ \A w \in DOMAIN lists \ {Root} :
                                  /\ Len(lists[w]) = Len(to.lists[w])
                                  /\ \A i \in DOMAIN lists[w] :
                                       \/ lists[w][i].head = to.lists[w][i].head
                                       \/ w[2] # 0 /\ i = Len(lists[w])
      BY DEF WrittenIsRead
    <2>1. pc # "refused"
      BY DEF OutInv
    <2> SUFFICES ASSUME pc = "accepted"
                 PROVE  /\ Framed
                        /\ DOMAIN lists = DOMAIN to.lists
                        /\ \A w \in DOMAIN lists \ {Root} :
                             /\ Len(lists[w]) = Len(to.lists[w])
                             /\ \A i \in DOMAIN lists[w] :
                                  \/ lists[w][i].head = to.lists[w][i].head
                                  \/ w[2] # 0 /\ i = Len(lists[w])
      BY <2>1
    <2>2. PICK target : Written(target) /\ Along(target)
      BY DEF OutInv
    <2>3. /\ DOMAIN lists = {Root} \cup ListsOf(doc.shape)
          /\ DOMAIN lists = DOMAIN to.lists
      BY DEF FInv, Types, Accepted, HasRegion, OutInv
    <2>4. \A w \in DOMAIN lists : lists[w] = target[w]
      BY <2>2 DEF Along
    <2>5. Framed
      <3>1. /\ Sound(target[Root]) /\ target[Root] # <<>>
            /\ ListEnd(target[Root]) + FooterLen = size /\ lists[Root] = target[Root]
        BY <2>2, <2>3, <2>4 DEF Written, Laid
      <3>2. ListEnd(target[Root]) \in Nat
        BY <3>1, EndsTyped
      <3> QED BY <3>1, <3>2 DEF Framed
    <2>6. Copies(target, doc.shape, to.lists)
      BY <2>2 DEF Written
    <2> QED BY <2>3, <2>4, <2>5, <2>6 DEF Copies, OfPartition
  <1> QED BY <1>1, FileInv, OutputInv, PTL

\* The output is no larger than it was projected to be, but for what the document grew by
\* beyond the allowance.
THEOREM ProjectionCovers == FileSpec => []EstimateCovers
  <1>1. OutInv => EstimateCovers
    BY DEF OutInv, EstimateCovers
  <1> QED BY <1>1, OutputInv, PTL

-----------------------------------------------------------------------------
(* The payload of an index.  What is serialized has each count and each     *)
(* word of an array at a place that the counts and the stride give, and     *)
(* parsing reads the words of those places back.                            *)

IndexOK(x) ==
  /\ x.delta \in BOOLEAN
  /\ x.reserved \in Seq(I!Elements(ElementLen))
  /\ x.blocks \in Seq(I!Elements(I!Stride(x.delta)))
  /\ Len(x.reserved) <= MaxCount /\ Len(x.blocks) <= MaxCount
  /\ x = [reserved |-> x.reserved, blocks |-> x.blocks, delta |-> x.delta]

\* What was parsed was accepted; what was refused was not.
IndexInv ==
  IF machine = "index"
  THEN /\ step \in {"serialize", "stored", "parsed", "refused"}
       /\ index \in I!Indexes /\ raw \in Seq(I!Words)
       /\ step \in {"parsed", "refused"} => found.delta \in BOOLEAN
       /\ step = "parsed" => I!Parses(raw, found.delta) /\ found = I!Parsed(raw, found.delta)
       /\ step = "refused" => ~I!Parses(raw, found.delta)
  ELSE IndexIdle

LEMMA StrideIs ==
  /\ ElementLen \in Nat \ {0} /\ DeltaLen \in Nat \ {0} /\ ElementLen < DeltaLen
  /\ \A d : I!Stride(d) \in Nat \ {0}
  /\ MaxWord \in Nat /\ MaxCount \in Nat /\ MaxCount <= MaxWord
  /\ IndexReserved \in Nat /\ IndexBlocks \in Nat
  /\ IndexReserved <= MaxCount /\ IndexBlocks <= MaxCount
  <1>1. /\ ElementLen \in Nat \ {0} /\ DeltaLen \in Nat \ {0} /\ ElementLen < DeltaLen
        /\ MaxWord \in Nat /\ MaxCount \in Nat /\ MaxCount <= MaxWord
        /\ IndexReserved \in Nat /\ IndexBlocks \in Nat
        /\ IndexReserved <= MaxCount /\ IndexBlocks <= MaxCount
    BY PartsAssumption DEF I!LenAssumption
  <1> QED BY <1>1 DEF I!Stride

\* The indexes there may be.
LEMMA IndexTyped ==
  ASSUME NEW x \in I!Indexes
  PROVE  IndexOK(x) /\ Len(x.reserved) <= IndexReserved /\ Len(x.blocks) <= IndexBlocks
  <1>1. PICK d \in BOOLEAN :
          x \in [reserved : I!BoundedSeq(I!Elements(ElementLen), IndexReserved),
                 blocks   : I!BoundedSeq(I!Elements(IF d THEN DeltaLen ELSE ElementLen),
                                         IndexBlocks),
                 delta    : {d}]
    BY Zenon DEF I!Indexes
  <1>2. x.delta = d
    BY <1>1
  <1>3. \A S, n : n \in Nat => \A q \in I!BoundedSeq(S, n) : q \in Seq(S) /\ Len(q) <= n
    <2> TAKE S, n
    <2> SUFFICES ASSUME n \in Nat, NEW q \in I!BoundedSeq(S, n) PROVE q \in Seq(S) /\ Len(q) <= n
      OBVIOUS
    <2>1. PICK m \in 0 .. n : q \in [1 .. m -> S]
      BY DEF I!BoundedSeq, I!SeqOf
    <2> QED BY <2>1
  <1>4. x.reserved \in Seq(I!Elements(ElementLen)) /\ Len(x.reserved) <= IndexReserved
    BY <1>1, <1>3, StrideIs
  <1>5. /\ x.blocks \in Seq(I!Elements(IF d THEN DeltaLen ELSE ElementLen))
        /\ Len(x.blocks) <= IndexBlocks
    BY <1>1, <1>3, StrideIs
  <1>6. x = [reserved |-> x.reserved, blocks |-> x.blocks, delta |-> x.delta]
    BY <1>1
  <1>7. Len(x.reserved) <= MaxCount /\ Len(x.blocks) <= MaxCount
    BY <1>4, <1>5, StrideIs
  <1> QED BY <1>2, <1>4, <1>5, <1>6, <1>7 DEF IndexOK, I!Stride

\* An array, serialized.
LEMMA RowsIs ==
  ASSUME NEW L \in Nat, NEW s \in Seq(I!Elements(L))
  PROVE  /\ I!FlattenSeq(s) \in Seq(I!Words) /\ Len(I!FlattenSeq(s)) = Len(s) * L
         /\ Len(s) \in Nat /\ Len(s) * L \in Nat
         /\ \A i \in 1 .. Len(s), k \in 1 .. L : I!FlattenSeq(s)[(i - 1) * L + k] = s[i][k]
  <1>1. I!FlattenSeq(s) = FlattenSeq(s)
    BY DEF FlattenSeq, I!FlattenSeq
  <1>2. s \in Seq([1 .. L -> I!Words])
    BY DEF I!Elements
  <1>3. /\ FlattenSeq(s) \in Seq(I!Words) /\ Len(FlattenSeq(s)) = Len(s) * L
        /\ \A i \in 1 .. Len(s), k \in 1 .. L : FlattenSeq(s)[(i - 1) * L + k] = s[i][k]
    <2> DEFINE W == I!Words
    <2> HIDE DEF W
    <2>1. s \in Seq([1 .. L -> W])
      BY <1>2 DEF W
    <2>2. IsFlat(FlattenSeq(s), s, W, L)
      BY ONLY <2>1, L \in Nat, Flattened
    <2> QED BY ONLY <2>2 DEF IsFlat, W
  <1>4. Len(s) \in Nat /\ Len(s) * L \in Nat
    OBVIOUS
  <1> QED BY <1>1, <1>3, <1>4

\* Where everything is in the payload b of an index x.
BytesFacts(x, b) ==
  LET n == Len(x.reserved)
      m == Len(x.blocks)
      L == I!Stride(x.delta)
  IN  /\ b \in Seq(Nat) /\ n \in Nat /\ m \in Nat /\ n * ElementLen \in Nat /\ m * L \in Nat
      /\ Len(b) = n * ElementLen + 2 + m * L
      /\ b[1] = n /\ b[n * ElementLen + 2] = m
      /\ \A i \in 1 .. n, k \in 1 .. ElementLen :
           b[1 + ((i - 1) * ElementLen + k)] = x.reserved[i][k]
      /\ \A i \in 1 .. m, k \in 1 .. L :
           b[n * ElementLen + 2 + ((i - 1) * L + k)] = x.blocks[i][k]
      /\ \A j \in 1 .. Len(b) : j # 1 /\ j # n * ElementLen + 2 => b[j] \in I!Words

\* What ToBytes writes of an index: counts and elements, each at its place.
LEMMA BytesIs ==
  ASSUME NEW x, IndexOK(x)
  PROVE  BytesFacts(x, I!ToBytes(x))
  <1> DEFINE n == Len(x.reserved)
             m == Len(x.blocks)
             L == I!Stride(x.delta)
             u == I!FlattenSeq(x.reserved)
             v == I!FlattenSeq(x.blocks)
             N == n * ElementLen
             M == m * L
  <1>1. L \in Nat /\ ElementLen \in Nat
    BY StrideIs
  <1>2. /\ u \in Seq(I!Words) /\ Len(u) = N /\ n \in Nat /\ N \in Nat
        /\ \A i \in 1 .. n, k \in 1 .. ElementLen : u[(i - 1) * ElementLen + k] = x.reserved[i][k]
    BY <1>1, RowsIs DEF IndexOK
  <1>3. /\ v \in Seq(I!Words) /\ Len(v) = M /\ m \in Nat /\ M \in Nat
        /\ \A i \in 1 .. m, k \in 1 .. L : v[(i - 1) * L + k] = x.blocks[i][k]
    <2>1. x.blocks \in Seq(I!Elements(L))
      BY DEF IndexOK
    <2> HIDE DEF L
    <2> QED BY <1>1, <2>1, RowsIs
  <1>4. I!ToBytes(x) = <<n>> \o u \o <<m>> \o v
    <2>1. I!WriteCount(n) = n /\ I!WriteCount(m) = m
      BY <1>2, <1>3, StrideIs DEF IndexOK, I!WriteCount
    <2> HIDE DEF n, m, u, v
    <2>2. I!ToBytes(x) = <<I!WriteCount(n)>> \o u \o <<I!WriteCount(m)>> \o v
      BY DEF I!ToBytes, n, m, u, v
    <2> QED BY ONLY <2>1, <2>2
  <1>5. \A i \in 1 .. n, k \in 1 .. ElementLen : (i - 1) * ElementLen + k \in 1 .. N
    <2> HIDE DEF n
    <2> QED BY <1>1, <1>2, CellIn
  <1>6. \A i \in 1 .. m, k \in 1 .. L : (i - 1) * L + k \in 1 .. M
    <2> HIDE DEF m, L
    <2> QED BY <1>1, <1>3, CellIn
  <1> HIDE DEF n, m, L, u, v, N, M
  <1> DEFINE b == <<n>> \o u \o <<m>> \o v
  <1>7. I!Words \subseteq Nat
    BY StrideIs DEF I!Words
  <1>8. /\ b \in Seq(Nat) /\ Len(b) = N + 2 + M /\ b[1] = n /\ b[N + 2] = m
        /\ \A j \in 1 .. N : b[1 + j] = u[j]
        /\ \A j \in 1 .. M : b[N + 2 + j] = v[j]
    <2>1. u \in Seq(Nat) /\ v \in Seq(Nat) /\ <<n>> \in Seq(Nat) /\ <<m>> \in Seq(Nat)
      <3>1. <<n>> \in Seq(Nat) /\ <<m>> \in Seq(Nat)
        BY <1>2, <1>3
      <3> QED BY <1>2, <1>3, <1>7, <3>1, SeqWidens
    <2>2. PICK p \in Seq(Nat) : p = <<n>> \o u
      BY <2>1, ConcatProperties
    <2>3. Len(p) = 1 + N /\ p[1] = n /\ \A j \in 1 .. N : p[1 + j] = u[j]
      <3>1. /\ Len(p) = 1 + N
            /\ \A i \in 1 .. 1 + N : p[i] = IF i <= 1 THEN <<n>>[i] ELSE u[i - 1]
        BY <1>2, <2>1, <2>2, ConcatProperties
      <3>2. \A j \in 1 .. N : 1 + j \in 1 .. 1 + N /\ ~(1 + j <= 1) /\ (1 + j) - 1 = j
        BY <1>2
      <3>3. 1 \in 1 .. 1 + N
        BY <1>2
      <3> QED BY <3>1, <3>2, <3>3
    <2>4. PICK q \in Seq(Nat) : q = p \o <<m>>
      BY <2>1, <2>2, ConcatProperties
    <2>5. Len(q) = N + 2 /\ q[N + 2] = m /\ \A i \in 1 .. N + 1 : q[i] = p[i]
      <3>1. /\ Len(q) = (1 + N) + 1
            /\ \A i \in 1 .. (1 + N) + 1 : q[i] = IF i <= 1 + N THEN p[i] ELSE <<m>>[i - (1 + N)]
        BY <2>1, <2>2, <2>3, <2>4, ConcatProperties
      <3>2. N + 2 \in 1 .. (1 + N) + 1 /\ ~(N + 2 <= 1 + N) /\ (N + 2) - (1 + N) = 1
            /\ (1 + N) + 1 = N + 2
        BY <1>2
      <3>3. \A i \in 1 .. N + 1 : i \in 1 .. (1 + N) + 1 /\ i <= 1 + N
        BY <1>2
      <3> QED BY <3>1, <3>2, <3>3
    <2>6. b = q \o v
      BY <2>2, <2>4
    <2> HIDE DEF b
    <2>7. /\ b \in Seq(Nat) /\ Len(b) = (N + 2) + M
          /\ \A i \in 1 .. (N + 2) + M : b[i] = IF i <= N + 2 THEN q[i] ELSE v[i - (N + 2)]
      <3>1. /\ b \in Seq(Nat) /\ Len(b) = Len(q) + Len(v)
            /\ \A i \in 1 .. Len(q) + Len(v) : b[i] = IF i <= Len(q) THEN q[i] ELSE v[i - Len(q)]
        BY <2>1, <2>6, ConcatProperties
      <3> QED BY <1>3, <2>5, <3>1
    <2>8. \A j \in 1 .. N : 1 + j \in 1 .. N + 1 /\ 1 + j \in 1 .. (N + 2) + M /\ 1 + j <= N + 2
      BY <1>2, <1>3
    <2>9. \A j \in 1 .. M : /\ N + 2 + j \in 1 .. (N + 2) + M
                            /\ ~(N + 2 + j <= N + 2) /\ (N + 2 + j) - (N + 2) = j
      BY <1>2, <1>3
    <2>10. /\ 1 \in 1 .. (N + 2) + M /\ 1 <= N + 2 /\ 1 \in 1 .. N + 1
           /\ N + 2 \in 1 .. (N + 2) + M
      BY <1>2, <1>3
    <2>11. b[1] = n /\ b[N + 2] = m
      BY <2>3, <2>5, <2>7, <2>10
    <2>12. \A j \in 1 .. N : b[1 + j] = u[j]
      BY <2>3, <2>5, <2>7, <2>8
    <2>13. \A j \in 1 .. M : b[N + 2 + j] = v[j]
      BY <2>7, <2>9
    <2> QED BY <2>7, <2>11, <2>12, <2>13
  <1> HIDE DEF b
  <1>9. ASSUME NEW j \in 1 .. N + 2 + M, j # 1, j # N + 2 PROVE b[j] \in I!Words
    <2>1. CASE j <= N + 1
      <3>1. j - 1 \in 1 .. N /\ 1 + (j - 1) = j
        BY <1>2, <1>3, <1>9, <2>1
      <3>2. b[j] = u[j - 1]
        BY <1>8, <3>1
      <3> QED BY <1>2, <3>1, <3>2, ElementOfSeq
    <2>2. CASE j > N + 2
      <3>1. j - (N + 2) \in 1 .. M /\ N + 2 + (j - (N + 2)) = j
        BY <1>2, <1>3, <2>2
      <3>2. b[j] = v[j - (N + 2)]
        BY <1>8, <3>1
      <3> QED BY <1>3, <3>1, <3>2, ElementOfSeq
    <2> QED BY <1>2, <1>3, <1>9, <2>1, <2>2
  <1>10. \A i \in 1 .. n, k \in 1 .. ElementLen :
           b[1 + ((i - 1) * ElementLen + k)] = x.reserved[i][k]
    <2> TAKE i \in 1 .. n, k \in 1 .. ElementLen
    <2>1. PICK j \in 1 .. N : j = (i - 1) * ElementLen + k
      BY ONLY <1>5
    <2>2. u[j] = x.reserved[i][k]
      BY ONLY <1>2, <2>1
    <2>3. b[1 + j] = u[j]
      BY ONLY <1>8
    <2> QED BY ONLY <2>1, <2>2, <2>3
  <1>11. \A i \in 1 .. m, k \in 1 .. L : b[N + 2 + ((i - 1) * L + k)] = x.blocks[i][k]
    <2> TAKE i \in 1 .. m, k \in 1 .. L
    <2>1. PICK j \in 1 .. M : j = (i - 1) * L + k
      BY ONLY <1>6
    <2>2. v[j] = x.blocks[i][k]
      BY ONLY <1>3, <2>1
    <2>3. b[N + 2 + j] = v[j]
      BY ONLY <1>8
    <2> QED BY ONLY <2>1, <2>2, <2>3
  <1>12. I!ToBytes(x) = b
    BY <1>4 DEF b
  <1>13. BytesFacts(x, b)
    BY <1>2, <1>3, <1>8, <1>9, <1>10, <1>11 DEF BytesFacts, n, m, L, N, M
  <1> QED BY ONLY <1>12, <1>13

\* a is the array parsed from the offset o.
ArrayFacts(a, b, o, n, L) ==
  /\ a \in Seq(I!Elements(L)) /\ Len(a) = n
  /\ \A i \in 1 .. n, k \in 1 .. L : a[i][k] = b[o + ((i - 1) * L + k)]

\* ArrayOf reads an array of the elements that stand from the offset on.
LEMMA ArrayIs ==
  ASSUME NEW b \in Seq(I!Words), NEW o \in Nat, NEW n \in Nat, NEW L \in Nat,
         o + n * L <= Len(b)
  PROVE  ArrayFacts(I!ArrayOf(b, o, n, L), b, o, n, L)
  <1> DEFINE a == I!ArrayOf(b, o, n, L)
             row(i) == SubSeq(b, o + (i - 1) * L + 1, o + i * L)
  <1>1. a = [i \in 1 .. n |-> row(i)]
    BY DEF I!ArrayOf
  <1>2. ASSUME NEW i \in 1 .. n
        PROVE  /\ row(i) \in I!Elements(L)
               /\ \A k \in 1 .. L : row(i)[k] = b[o + ((i - 1) * L + k)]
    <2>1. i - 1 \in Nat /\ (i - 1) + 1 = i /\ i <= n /\ i \in Nat
      OBVIOUS
    <2>2. i * L = (i - 1) * L + L /\ (i - 1) * L \in Nat /\ i * L <= n * L /\ n * L \in Nat
      BY <2>1, Products
    <2> DEFINE p == (i - 1) * L
               q == o + i * L
    <2>3. p \in Nat /\ q \in Nat /\ q = o + p + L /\ q <= Len(b) /\ Len(b) \in Nat
      <3> DEFINE c == i * L
                 d == n * L
      <3>1. p \in Nat /\ c \in Nat /\ d \in Nat /\ c = p + L /\ c <= d /\ o + d <= Len(b)
        BY <2>2
      <3> HIDE DEF p, c, d
      <3>2. o + c \in Nat /\ o + c = o + p + L /\ o + c <= Len(b) /\ Len(b) \in Nat
        BY <3>1
      <3> QED BY <3>1, <3>2 DEF c
    <2> HIDE DEF p, q
    <2>4. \A j \in o + p + 1 .. q : b[j] \in I!Words
      <3>1. \A j \in o + p + 1 .. q : j \in 1 .. Len(b)
        BY <2>3
      <3> QED BY <3>1, ElementOfSeq
    <2> DEFINE m == o + p + 1
               r == SubSeq(b, m, q)
    <2>5. m \in Int /\ q \in Int /\ q - m + 1 = L /\ (m <= q <=> L # 0)
      BY <2>3
    <2>6. /\ r \in Seq(I!Words) /\ Len(r) = (IF m <= q THEN q - m + 1 ELSE 0)
          /\ \A k \in 1 .. q - m + 1 : r[k] = b[m + k - 1]
      <3>1. \A j \in m .. q : b[j] \in I!Words
        BY <2>4
      <3> HIDE DEF m
      <3> QED BY ONLY <2>5, <3>1, SubSeqProperties DEF r
    <2>7. Len(r) = L /\ \A k \in 1 .. L : r[k] = b[o + (p + k)]
      <3>1. \A k \in 1 .. L : m + k - 1 = o + (p + k)
        BY <2>3
      <3> HIDE DEF m, r
      <3> QED BY <2>5, <2>6, <3>1
    <2>8. r \in [1 .. L -> I!Words]
      <3> HIDE DEF r
      <3> QED BY <2>6, <2>7
    <2>9. row(i) = r
      BY DEF p, q
    <2> HIDE DEF r, row
    <2> QED BY <2>7, <2>8, <2>9 DEF I!Elements, p
  <1> HIDE DEF row, a
  <1>3. a \in Seq(I!Elements(L)) /\ Len(a) = n
    BY <1>1, <1>2
  <1>4. \A i \in 1 .. n, k \in 1 .. L : a[i][k] = b[o + ((i - 1) * L + k)]
    BY <1>1, <1>2
  <1>5. ArrayFacts(a, b, o, n, L)
    BY ONLY <1>3, <1>4 DEF ArrayFacts
  <1> QED BY <1>5 DEF a

\* A count, read at the offset o.
LEMMA CountIs ==
  ASSUME NEW b \in Seq(I!Words), NEW o \in 0 .. Len(b) - 1
  PROVE  /\ I!ReadCount(b, o) \in Nat /\ I!ReadCount(b, o) <= MaxCount
         /\ \/ b[o + 1] = I!ReadCount(b, o)
            \/ I!IsNegative(b[o + 1]) /\ I!ReadCount(b, o) = 0
  <1>1. o + 1 \in 1 .. Len(b)
    OBVIOUS
  <1>2. b[o + 1] \in I!Words
    BY <1>1, ElementOfSeq
  <1>3. b[o + 1] \in Nat
    BY <1>2, StrideIs DEF I!Words
  <1> QED BY <1>3, StrideIs DEF I!ReadCount, I!IsNegative

\* What is found in a payload that is accepted.
ParsedFacts(x, b, d) ==
  LET n == I!ReadCount(b, 0)
      m == I!ReadCount(b, 1 + n * ElementLen)
      L == I!Stride(d)
  IN  /\ n \in Nat /\ m \in Nat /\ n * ElementLen \in Nat /\ m * L \in Nat
      /\ Len(b) = n * ElementLen + 2 + m * L
      /\ b[1] = n \/ (I!IsNegative(b[1]) /\ n = 0)
      /\ \/ b[n * ElementLen + 2] = m
         \/ I!IsNegative(b[n * ElementLen + 2]) /\ m = 0
      /\ IndexOK(x) /\ Len(x.reserved) = n /\ Len(x.blocks) = m /\ x.delta = d
      /\ \A i \in 1 .. n, k \in 1 .. ElementLen :
           x.reserved[i][k] = b[1 + ((i - 1) * ElementLen + k)]
      /\ \A i \in 1 .. m, k \in 1 .. L :
           x.blocks[i][k] = b[n * ElementLen + 2 + ((i - 1) * L + k)]

\* What Parsed reads of the bytes: an index whose elements stand at their places.
LEMMA ParsedIs ==
  ASSUME NEW b \in Seq(I!Words), NEW d \in BOOLEAN, I!Parses(b, d)
  PROVE  ParsedFacts(I!Parsed(b, d), b, d)
  <1> DEFINE n == I!ReadCount(b, 0)
             N == n * ElementLen
             m == I!ReadCount(b, 1 + N)
             L == I!Stride(d)
             M == m * L
             x == I!Parsed(b, d)
  <1>1. L \in Nat /\ ElementLen \in Nat /\ Len(b) \in Nat
    BY StrideIs
  <1>2. Len(b) >= 1
    BY DEF I!Parses, I!HasCount
  <1>3. /\ n \in Nat /\ (b[1] = n \/ (I!IsNegative(b[1]) /\ n = 0))
        /\ n <= MaxCount
    <2>1. 0 \in 0 .. Len(b) - 1 /\ 0 + 1 = 1
      BY <1>1, <1>2
    <2> HIDE DEF n
    <2> QED BY <2>1, CountIs DEF n
  <1>4. N \in Nat
    <2> HIDE DEF n
    <2> QED BY <1>1, <1>3
  <1>5. I!BlockCountAt(b) = 1 + N /\ I!BlocksAt(b) = (1 + N) + 1
    BY DEF I!BlockCountAt, I!BlocksAt
  <1>6. Len(b) >= (1 + N) + 1
    <2> HIDE DEF N, n
    <2> QED BY <1>5 DEF I!Parses, I!HasCount
  <1>7. /\ m \in Nat /\ (b[(1 + N) + 1] = m \/ (I!IsNegative(b[(1 + N) + 1]) /\ m = 0))
        /\ m <= MaxCount
    <2> HIDE DEF N, n, m
    <2>1. 1 + N \in 0 .. Len(b) - 1
      BY <1>1, <1>4, <1>6
    <2> QED BY <2>1, CountIs DEF m
  <1>8. M \in Nat
    <2> HIDE DEF m, L
    <2> QED BY <1>1, <1>7
  <1>9. Len(b) = (1 + N) + 1 + M
    <2>1. I!EndsAt(b, d) = (1 + N) + 1 + M
      BY <1>5 DEF I!EndsAt
    <2> HIDE DEF M, N
    <2> QED BY <2>1 DEF I!Parses, I!Consumed
  <1>10. x = [reserved |-> I!ArrayOf(b, 1, n, ElementLen),
              blocks   |-> I!ArrayOf(b, (1 + N) + 1, m, L), delta |-> d]
    BY <1>5 DEF I!Parsed
  <1> HIDE DEF x
  <1>11. /\ x.reserved \in Seq(I!Elements(ElementLen)) /\ Len(x.reserved) = n
         /\ \A i \in 1 .. n, k \in 1 .. ElementLen :
              x.reserved[i][k] = b[1 + ((i - 1) * ElementLen + k)]
    <2>1. x.reserved = I!ArrayOf(b, 1, n, ElementLen)
      BY <1>10
    <2> HIDE DEF n, M
    <2>2. 1 + n * ElementLen <= Len(b)
      BY <1>1, <1>4, <1>6
    <2> DEFINE o == 1
               a == I!ArrayOf(b, o, n, ElementLen)
    <2>3. o \in Nat /\ o + n * ElementLen <= Len(b)
      BY <2>2
    <2> HIDE DEF o
    <2>4. /\ a \in Seq(I!Elements(ElementLen)) /\ Len(a) = n
          /\ \A i \in 1 .. n, k \in 1 .. ElementLen :
               a[i][k] = b[o + ((i - 1) * ElementLen + k)]
      <3>1. ArrayFacts(a, b, o, n, ElementLen)
        BY <1>1, <1>3, <2>3, ArrayIs
      <3> HIDE DEF a
      <3> QED BY ONLY <3>1 DEF ArrayFacts
    <2> HIDE DEF a
    <2> QED BY <2>1, <2>4 DEF a, o
  <1>12. /\ x.blocks \in Seq(I!Elements(L)) /\ Len(x.blocks) = m
         /\ \A i \in 1 .. m, k \in 1 .. L :
              x.blocks[i][k] = b[(1 + N) + 1 + ((i - 1) * L + k)]
    <2>1. x.blocks = I!ArrayOf(b, (1 + N) + 1, m, L)
      BY <1>10
    <2> HIDE DEF n, m, N, L
    <2>2. (1 + N) + 1 + m * L <= Len(b) /\ (1 + N) + 1 \in Nat
      BY <1>1, <1>4, <1>8, <1>9
    <2> DEFINE o == (1 + N) + 1
               a == I!ArrayOf(b, o, m, L)
    <2>3. o \in Nat /\ o + m * L <= Len(b)
      BY <2>2
    <2> HIDE DEF o
    <2>4. /\ a \in Seq(I!Elements(L)) /\ Len(a) = m
          /\ \A i \in 1 .. m, k \in 1 .. L : a[i][k] = b[o + ((i - 1) * L + k)]
      <3>1. ArrayFacts(a, b, o, m, L)
        BY <1>1, <1>7, <2>3, ArrayIs
      <3> HIDE DEF a
      <3> QED BY ONLY <3>1 DEF ArrayFacts
    <2> HIDE DEF a
    <2> QED BY <2>1, <2>4 DEF a, o
  <1>13. /\ x.delta = d
         /\ x = [reserved |-> x.reserved, blocks |-> x.blocks, delta |-> x.delta]
    BY <1>10
  <1>14. IndexOK(x)
    <2> HIDE DEF n, m, N
    <2> QED BY <1>3, <1>7, <1>11, <1>12, <1>13 DEF IndexOK
  <1> HIDE DEF n, m, N, L, M
  <1>15. (1 + N) + 1 = N + 2 /\ \A y \in Nat : (1 + N) + 1 + y = N + 2 + y
    BY <1>4
  <1>16. \A i \in 1 .. m, k \in 1 .. L : x.blocks[i][k] = b[N + 2 + ((i - 1) * L + k)]
    <2> TAKE i \in 1 .. m, k \in 1 .. L
    <2>1. (i - 1) * L + k \in 1 .. m * L
      BY <1>1, <1>7, CellIn
    <2>2. (i - 1) * L + k \in Nat
      BY <2>1
    <2> QED BY <1>12, <1>15, <2>2
  <1>17. ParsedFacts(x, b, d)
    BY <1>3, <1>4, <1>7, <1>8, <1>9, <1>11, <1>12, <1>13, <1>14, <1>15, <1>16
       DEF ParsedFacts, n, m, N, L, M
  <1> QED BY <1>17 DEF x

LEMMA IndexInit ==
  ASSUME I!Init, machine = "index"
  PROVE  IndexInv
  <1>1. step = "serialize" /\ index \in I!Indexes /\ raw = <<>>
    BY DEF I!Init
  <1>2. raw \in Seq(I!Words)
    BY <1>1
  <1> QED BY <1>1, <1>2 DEF IndexInv

LEMMA ISerialize ==
  ASSUME IndexInv, machine = "index", machine' = machine, I!Serialize
  PROVE  IndexInv'
  <1>1. index \in I!Indexes /\ raw' = I!ToBytes(index) /\ step' = "stored" /\ index' = index
    BY DEF IndexInv, I!Serialize
  <1> DEFINE b == I!ToBytes(index)
             n == Len(index.reserved)
             m == Len(index.blocks)
             p == n * ElementLen + 2
  <1>2. /\ b \in Seq(Nat) /\ n \in Nat /\ m \in Nat /\ n * ElementLen \in Nat
        /\ b[1] = n /\ b[p] = m
        /\ \A j \in 1 .. Len(b) : j # 1 /\ j # p => b[j] \in I!Words
    <2>1. BytesFacts(index, I!ToBytes(index))
      BY <1>1, IndexTyped, BytesIs
    <2> QED BY ONLY <2>1 DEF BytesFacts, b, n, m, p
  <1>3. n \in I!Words /\ m \in I!Words
    BY <1>1, <1>2, IndexTyped, StrideIs DEF I!Words
  <1> HIDE DEF b, n, m, p
  <1>4. \A j \in 1 .. Len(b) : b[j] \in I!Words
    BY <1>2, <1>3
  <1>5. b \in Seq(I!Words)
    <2>1. Len(b) \in Nat /\ b = [j \in 1 .. Len(b) |-> b[j]]
      BY <1>2
    <2> QED BY <1>4, <2>1
  <1>6. raw' \in Seq(I!Words)
    BY <1>1, <1>5 DEF b
  <1>7. I!Words' = I!Words /\ I!Indexes' = I!Indexes
    BY DEF I!Words, I!Indexes, I!Elements
  <1> QED BY <1>1, <1>6, <1>7 DEF IndexInv

LEMMA IDamage ==
  ASSUME IndexInv, machine = "index", machine' = machine, I!Damage
  PROVE  IndexInv'
  <1>1. index \in I!Indexes /\ raw \in Seq(I!Words) /\ step = "stored"
        /\ step' = step /\ index' = index
    BY DEF IndexInv, I!Damage
  <1>2. raw' \in Seq(I!Words)
    <2>1. ASSUME NEW n \in 0 .. Len(raw) - 1, raw' = SubSeq(raw, 1, n)
          PROVE  raw' \in Seq(I!Words)
      <3>1. \A i \in 1 .. n : raw[i] \in I!Words
        BY <1>1
      <3> QED BY <2>1, <3>1, SubSeqProperties
    <2>2. ASSUME NEW w \in I!Words, raw' = Append(raw, w)
          PROVE  raw' \in Seq(I!Words)
      BY <1>1, <2>2
    <2>3. ASSUME NEW i \in DOMAIN raw, NEW w \in I!Words, raw' = [raw EXCEPT ![i] = w]
          PROVE  raw' \in Seq(I!Words)
      BY <1>1, <2>3
    <2> QED BY <2>1, <2>2, <2>3 DEF I!Damage
  <1> QED BY <1>1, <1>2 DEF IndexInv

LEMMA IParse ==
  ASSUME IndexInv, machine = "index", machine' = machine, I!Parse
  PROVE  IndexInv'
  <1>1. index \in I!Indexes /\ raw \in Seq(I!Words) /\ raw' = raw /\ index' = index
    BY DEF IndexInv, I!Parse
  <1>2. PICK d \in BOOLEAN :
          \/ I!Parses(raw, d) /\ step' = "parsed" /\ found' = I!Parsed(raw, d)
          \/ ~I!Parses(raw, d) /\ step' = "refused" /\ found' = [index EXCEPT !.delta = d]
    BY Zenon DEF I!Parse
  <1>3. CASE I!Parses(raw, d) /\ step' = "parsed" /\ found' = I!Parsed(raw, d)
    <2>1. found'.delta = d
      BY <1>3 DEF I!Parsed
    <2>2. I!Parses(raw', found'.delta) /\ found' = I!Parsed(raw', found'.delta)
      BY <1>1, <1>3, <2>1
    <2> QED BY <1>1, <1>3, <2>1, <2>2 DEF IndexInv
  <1>4. CASE ~I!Parses(raw, d) /\ step' = "refused" /\ found' = [index EXCEPT !.delta = d]
    <2>1. PICK x : x = index
      OBVIOUS
    <2>2. x = [reserved |-> x.reserved, blocks |-> x.blocks, delta |-> x.delta]
      BY <1>1, <2>1, IndexTyped DEF IndexOK
    <2>3. "delta" \in DOMAIN x
      BY <2>2
    <2>4. found'.delta = d
      BY <1>4, <2>1, <2>3
    <2>5. ~I!Parses(raw', found'.delta)
      BY <1>1, <1>4, <2>4
    <2> QED BY <1>1, <1>4, <2>4, <2>5 DEF IndexInv
  <1> QED BY <1>2, <1>3, <1>4

LEMMA IndexInvariance == FileSpec => []IndexInv
  <1>1. FileInit => IndexInv
    <2> SUFFICES ASSUME FileInit PROVE IndexInv
      OBVIOUS
    <2>1. CASE machine = "index" /\ I!Init
      BY <2>1, IndexInit
    <2>2. CASE machine # "index" /\ IndexIdle
      BY <2>2 DEF IndexInv
    <2> QED BY <2>1, <2>2 DEF FileInit
  <1>2. IndexInv /\ [FileNext]_<<vars, machine, indexVars, verifyVars>> => IndexInv'
    <2> SUFFICES ASSUME IndexInv, [FileNext]_<<vars, machine, indexVars, verifyVars>>
                 PROVE  IndexInv'
      OBVIOUS
    <2>1. machine' = machine
      BY DEF FileNext
    <2>2. CASE machine = "index" /\ I!Next
      BY <2>1, <2>2, ISerialize, IDamage, IParse DEF I!Next
    <2>3. CASE UNCHANGED indexVars
      <3>1. step' = step /\ index' = index /\ raw' = raw /\ found' = found
        BY <2>3 DEF indexVars
      <3> QED BY <2>1, <3>1 DEF IndexInv, IndexIdle
    <2> QED BY <2>2, <2>3 DEF FileNext
  <1> QED BY <1>1, <1>2, PTL DEF FileSpec

\* An index that was serialized is never the empty payload.
LEMMA IdleIsNotSerialized ==
  ASSUME IndexInv, raw = I!ToBytes(index)
  PROVE  machine = "index"
  <1> SUFFICES ASSUME IndexIdle PROVE FALSE
    BY DEF IndexInv
  <1>1. IndexOK(index)
    <2>1. <<>> \in Seq(I!Elements(ElementLen)) /\ <<>> \in Seq(I!Elements(I!Stride(FALSE)))
      OBVIOUS
    <2>2. /\ index.delta = FALSE /\ index.reserved = <<>> /\ index.blocks = <<>>
          /\ index = [reserved |-> <<>>, blocks |-> <<>>, delta |-> FALSE]
      BY DEF IndexIdle
    <2>3. index.delta \in BOOLEAN
      BY <2>2, Zenon
    <2>4. Len(index.reserved) <= MaxCount /\ Len(index.blocks) <= MaxCount
      BY <2>2, StrideIs
    <2> QED BY <2>1, <2>2, <2>3, <2>4, Zenon DEF IndexOK
  <1>2. Len(raw) # 0
    <2> DEFINE b == I!ToBytes(index)
               N == Len(index.reserved) * ElementLen
               M == Len(index.blocks) * I!Stride(index.delta)
    <2>1. N \in Nat /\ M \in Nat /\ Len(b) = N + 2 + M
      <3>1. BytesFacts(index, I!ToBytes(index))
        BY <1>1, BytesIs
      <3> QED BY ONLY <3>1 DEF BytesFacts, b, N, M
    <2>2. b = raw
      OBVIOUS
    <2> HIDE DEF b, N, M
    <2> QED BY <2>1, <2>2
  <1> QED BY <1>2 DEF IndexIdle

\* Where parsing looks for the counts of a payload that nothing happened to.
LEMMA SerializedIs ==
  ASSUME IndexInv, raw = I!ToBytes(index)
  PROVE  LET n == Len(index.reserved)
             m == Len(index.blocks)
         IN  /\ I!ReadCount(raw, 0) = n /\ I!ReadCount(raw, 1 + n * ElementLen) = m
             /\ I!BlockCountAt(raw) = 1 + n * ElementLen /\ I!BlocksAt(raw) = n * ElementLen + 2
             /\ \A d : I!EndsAt(raw, d) = n * ElementLen + 2 + m * I!Stride(d)
  <1> DEFINE n == Len(index.reserved)
             m == Len(index.blocks)
             N == n * ElementLen
  <1>1. machine = "index" /\ index \in I!Indexes
    BY IdleIsNotSerialized DEF IndexInv
  <1>2. n \in Nat /\ m \in Nat /\ N \in Nat /\ raw[1] = n /\ raw[N + 2] = m
    <2>1. BytesFacts(index, raw)
      BY <1>1, IndexTyped, BytesIs
    <2> QED BY ONLY <2>1 DEF BytesFacts, n, m, N
  <1>3. n <= MaxCount /\ m <= MaxCount /\ MaxCount \in Nat
    BY <1>1, <1>2, IndexTyped, StrideIs
  <1> HIDE DEF n, m, N
  <1>4. I!ReadCount(raw, 0) = n
    <2>1. raw[0 + 1] = n /\ ~(n > MaxCount)
      BY <1>2, <1>3
    <2> QED BY <2>1 DEF I!ReadCount, I!IsNegative
  <1>5. I!ReadCount(raw, 1 + N) = m
    <2>1. raw[(1 + N) + 1] = m /\ ~(m > MaxCount)
      <3>1. (1 + N) + 1 = N + 2
        BY <1>2
      <3> QED BY <1>2, <1>3, <3>1
    <2> QED BY <2>1 DEF I!ReadCount, I!IsNegative
  <1>6. I!BlockCountAt(raw) = 1 + N /\ I!BlocksAt(raw) = N + 2
    BY <1>2, <1>4 DEF I!BlockCountAt, I!BlocksAt, N
  <1>7. \A d : I!EndsAt(raw, d) = N + 2 + m * I!Stride(d)
    BY <1>5, <1>6 DEF I!EndsAt
  <1> QED BY <1>4, <1>5, <1>6, <1>7 DEF n, m, N

\* Two arrays with the same words are the same.
LEMMA RowsEqual ==
  ASSUME NEW K \in Nat, NEW s \in Seq(I!Elements(K)), NEW t \in Seq(I!Elements(K)),
         Len(s) = Len(t), \A i \in 1 .. Len(s), k \in 1 .. K : s[i][k] = t[i][k]
  PROVE  s = t
  <1>1. \A i \in 1 .. Len(s) : s[i] \in [1 .. K -> I!Words] /\ t[i] \in [1 .. K -> I!Words]
    <2>1. \A i \in 1 .. Len(s) : s[i] \in I!Elements(K) /\ t[i] \in I!Elements(K)
      BY ElementOfSeq
    <2> QED BY <2>1 DEF I!Elements
  <1>2. \A i \in 1 .. Len(s) : s[i] = t[i]
    BY <1>1
  <1> QED BY <1>2, SeqEqual

\* An index that nothing happened to is parsed as it was (index.rs, parse and to_bytes).
THEOREM IndexesRoundTrip == FileSpec => []RoundTrip
  <1>1. IndexInv => RoundTrip
    <2> SUFFICES ASSUME IndexInv, raw = I!ToBytes(index), found.delta = index.delta,
                        step \in {"parsed", "refused"}
                 PROVE  step = "parsed" /\ found = index
      BY DEF RoundTrip, I!RoundTrip
    <2> DEFINE n == Len(index.reserved)
               m == Len(index.blocks)
               N == n * ElementLen
               d == index.delta
               L == I!Stride(d)
               M == m * L
    <2>1. machine = "index" /\ index \in I!Indexes /\ raw \in Seq(I!Words)
      BY IdleIsNotSerialized DEF IndexInv
    <2>2. /\ n \in Nat /\ m \in Nat /\ N \in Nat /\ M \in Nat /\ Len(raw) = N + 2 + M
          /\ \A i \in 1 .. n, k \in 1 .. ElementLen :
               raw[1 + ((i - 1) * ElementLen + k)] = index.reserved[i][k]
          /\ \A i \in 1 .. m, k \in 1 .. L :
               raw[N + 2 + ((i - 1) * L + k)] = index.blocks[i][k]
      <3>1. BytesFacts(index, raw)
        BY <2>1, IndexTyped, BytesIs
      <3> QED BY ONLY <3>1 DEF BytesFacts, n, m, N, L, M, d
    <2>3. /\ I!ReadCount(raw, 0) = n /\ I!ReadCount(raw, 1 + N) = m
          /\ I!BlockCountAt(raw) = 1 + N /\ I!BlocksAt(raw) = N + 2
          /\ I!EndsAt(raw, d) = N + 2 + M
      BY SerializedIs
    <2>4. IndexOK(index) /\ d \in BOOLEAN
      BY <2>1, IndexTyped DEF IndexOK
    <2> HIDE DEF M
    <2>5. I!Parses(raw, d)
      <3>1. I!HasCount(raw, 0)
        BY <2>2 DEF I!HasCount
      <3>2. I!HasArray(raw, 1, n, ElementLen)
        BY <2>2 DEF I!HasArray
      <3>3. I!HasCount(raw, 1 + N)
        BY <2>2 DEF I!HasCount
      <3>4. I!HasArray(raw, N + 2, m, I!Stride(d))
        BY <2>2 DEF I!HasArray, M
      <3>5. I!Consumed(raw, d)
        BY <2>2, <2>3 DEF I!Consumed
      <3> HIDE DEF n, m, N, d
      <3> QED BY <2>3, <3>1, <3>2, <3>3, <3>4, <3>5 DEF I!Parses
    <2>6. step = "parsed" /\ found = I!Parsed(raw, d)
      BY <2>1, <2>5 DEF IndexInv
    <2>7. PICK x, y : x = index /\ y = I!Parsed(raw, d)
      OBVIOUS
    <2> HIDE DEF n, m, N, L, d
    <2>8. /\ IndexOK(y) /\ Len(y.reserved) = n /\ Len(y.blocks) = m /\ y.delta = d
          /\ \A i \in 1 .. n, k \in 1 .. ElementLen :
               y.reserved[i][k] = raw[1 + ((i - 1) * ElementLen + k)]
          /\ \A i \in 1 .. m, k \in 1 .. I!Stride(d) :
               y.blocks[i][k] = raw[N + 2 + ((i - 1) * I!Stride(d) + k)]
      <3>1. ParsedFacts(y, raw, d)
        BY <2>1, <2>4, <2>5, <2>7, ParsedIs
      <3> QED BY ONLY <2>3, <3>1 DEF ParsedFacts, N
    <2>9. /\ IndexOK(x) /\ Len(x.reserved) = n /\ Len(x.blocks) = m /\ x.delta = d
      BY <2>4, <2>7 DEF n, m, d
    <2>11. y.reserved = x.reserved
      <3>1. \A i \in 1 .. n, k \in 1 .. ElementLen : y.reserved[i][k] = x.reserved[i][k]
        BY <2>2, <2>7, <2>8
      <3>2. /\ y.reserved \in Seq(I!Elements(ElementLen))
            /\ x.reserved \in Seq(I!Elements(ElementLen))
            /\ ElementLen \in Nat /\ Len(y.reserved) = n /\ Len(x.reserved) = n
        BY <2>8, <2>9, StrideIs DEF IndexOK
      <3> QED BY <3>1, <3>2, RowsEqual
    <2>12. y.blocks = x.blocks
      <3>1. \A i \in 1 .. m, k \in 1 .. L : y.blocks[i][k] = x.blocks[i][k]
        BY <2>2, <2>7, <2>8 DEF L
      <3>2. /\ y.blocks \in Seq(I!Elements(L)) /\ x.blocks \in Seq(I!Elements(L))
            /\ L \in Nat /\ Len(y.blocks) = m /\ Len(x.blocks) = m
        BY <2>8, <2>9, StrideIs DEF IndexOK, L
      <3> QED BY <3>1, <3>2, RowsEqual
    <2>13. x = y
      BY <2>8, <2>9, <2>11, <2>12 DEF IndexOK
    <2> QED BY <2>6, <2>7, <2>13
  <1> QED BY <1>1, IndexInvariance, PTL

\* An index that holds a block is not parsed with the wrong delta_index (index.rs, parse).
THEOREM WrongStridesAreRefused == FileSpec => []WrongStrideRefused
  <1>1. IndexInv => WrongStrideRefused
    <2> SUFFICES ASSUME IndexInv, raw = I!ToBytes(index), found.delta # index.delta,
                        index.blocks # <<>>, step = "parsed"
                 PROVE  FALSE
      BY DEF WrongStrideRefused, I!WrongStrideRefused
    <2> DEFINE n == Len(index.reserved)
               m == Len(index.blocks)
               N == n * ElementLen
               a == m * I!Stride(index.delta)
               b == m * I!Stride(found.delta)
    <2>1. machine = "index" /\ index \in I!Indexes /\ found.delta \in BOOLEAN
          /\ I!Parses(raw, found.delta)
      BY IdleIsNotSerialized DEF IndexInv
    <2>2. n \in Nat /\ m \in Nat /\ N \in Nat /\ Len(raw) = N + 2 + a
      <3>1. BytesFacts(index, raw)
        BY <2>1, IndexTyped, BytesIs
      <3> QED BY ONLY <3>1 DEF BytesFacts, n, m, N, a
    <2>3. I!EndsAt(raw, found.delta) = N + 2 + b
      BY SerializedIs
    <2>4. I!EndsAt(raw, found.delta) = Len(raw)
      BY <2>1 DEF I!Parses, I!Consumed
    <2>5. IndexOK(index) /\ index.delta \in BOOLEAN
      BY <2>1, IndexTyped DEF IndexOK
    <2>6. m # 0
      <3>1. index.blocks \in Seq(I!Elements(I!Stride(index.delta)))
        BY <2>5 DEF IndexOK
      <3> QED BY <3>1, EmptySeq
    <2>7. a # b
      <3> DEFINE c == m * ElementLen
                 e == m * DeltaLen
      <3>1. /\ ElementLen * m \in Nat /\ (ElementLen + 1) * m = ElementLen * m + m
            /\ (ElementLen + 1) * m <= DeltaLen * m /\ DeltaLen * m \in Nat
        <4>1. /\ m \in Nat /\ ElementLen \in Nat /\ ElementLen + 1 \in Nat /\ DeltaLen \in Nat
              /\ ElementLen + 1 <= DeltaLen
          BY <2>2, StrideIs
        <4> HIDE DEF m
        <4>2. ElementLen * m \in Nat /\ (ElementLen + 1) * m = ElementLen * m + m
          BY <4>1, Products
        <4>3. (ElementLen + 1) * m <= DeltaLen * m /\ DeltaLen * m \in Nat
          BY <4>1, Products
        <4> QED BY <4>2, <4>3
      <3>2. c # e
        <4>1. c = ElementLen * m /\ e = DeltaLen * m
          BY <2>2, StrideIs
        <4> HIDE DEF c, e
        <4> QED BY <2>2, <2>6, <3>1, <4>1
      <3>3. \/ I!Stride(index.delta) = ElementLen /\ I!Stride(found.delta) = DeltaLen
            \/ I!Stride(index.delta) = DeltaLen /\ I!Stride(found.delta) = ElementLen
        BY <2>1, <2>5 DEF I!Stride
      <3> HIDE DEF m
      <3> QED BY <3>2, <3>3
    <2>8. a \in Nat /\ b \in Nat
      BY <2>2, StrideIs
    <2> HIDE DEF a, b, N
    <2> QED BY <2>2, <2>3, <2>4, <2>7, <2>8
  <1> QED BY <1>1, IndexInvariance, PTL

\* Serializing what was parsed gives the payload back, but for a count below zero: no word of a
\* payload that is accepted went unread (index.rs, parse).
THEOREM NoWordIsUnread == FileSpec => []NothingUnread
  <1>1. IndexInv => NothingUnread
    <2> SUFFICES ASSUME IndexInv, step = "parsed"
                 PROVE  LET again == I!ToBytes(found)
                        IN  /\ Len(again) = Len(raw)
                            /\ \A i \in DOMAIN raw :
                                 \/ again[i] = raw[i]
                                 \/ I!IsNegative(raw[i]) /\ again[i] = 0
      BY DEF NothingUnread, I!NothingUnread
    <2> DEFINE d == found.delta
               n == I!ReadCount(raw, 0)
               N == n * ElementLen
               m == I!ReadCount(raw, 1 + N)
               L == I!Stride(d)
               M == m * L
               again == I!ToBytes(found)
    <2>1. /\ raw \in Seq(I!Words) /\ d \in BOOLEAN /\ I!Parses(raw, d)
          /\ found = I!Parsed(raw, d)
      BY DEF IndexInv, IndexIdle
    <2>2. /\ n \in Nat /\ m \in Nat /\ N \in Nat /\ M \in Nat /\ Len(raw) = N + 2 + M
          /\ raw[1] = n \/ (I!IsNegative(raw[1]) /\ n = 0)
          /\ raw[N + 2] = m \/ (I!IsNegative(raw[N + 2]) /\ m = 0)
          /\ IndexOK(found) /\ Len(found.reserved) = n /\ Len(found.blocks) = m
          /\ \A i \in 1 .. n, k \in 1 .. ElementLen :
               found.reserved[i][k] = raw[1 + ((i - 1) * ElementLen + k)]
          /\ \A i \in 1 .. m, k \in 1 .. L :
               found.blocks[i][k] = raw[N + 2 + ((i - 1) * L + k)]
      <3>1. PICK e : e = d
        OBVIOUS
      <3>2. e \in BOOLEAN /\ I!Parses(raw, e) /\ found = I!Parsed(raw, e)
        BY <2>1, <3>1
      <3>3. ParsedFacts(found, raw, e)
        BY ONLY <2>1, <3>2, ParsedIs
      <3> QED BY ONLY <3>1, <3>3 DEF ParsedFacts, n, m, N, M, L
    <2> HIDE DEF n, m
    <2>3. /\ Len(again) = N + 2 + M /\ again[1] = n /\ again[N + 2] = m
          /\ \A i \in 1 .. n, k \in 1 .. ElementLen :
               again[1 + ((i - 1) * ElementLen + k)] = found.reserved[i][k]
          /\ \A i \in 1 .. m, k \in 1 .. L :
               again[N + 2 + ((i - 1) * L + k)] = found.blocks[i][k]
      <3>1. BytesFacts(found, again)
        BY <2>2, BytesIs
      <3> HIDE DEF again
      <3> QED BY ONLY <2>2, <3>1 DEF BytesFacts, N, M, L, d
    <2>4. L \in Nat /\ ElementLen \in Nat
      BY StrideIs
    <2> HIDE DEF L, again
    <2>5. \A j \in 1 .. N : again[1 + j] = raw[1 + j]
      <3> TAKE j \in 1 .. N
      <3>0. n \in Nat /\ ElementLen \in Nat /\ j \in 1 .. n * ElementLen
        BY <2>2, <2>4
      <3>1. PICK i \in 1 .. n, k \in 1 .. ElementLen : j = (i - 1) * ElementLen + k
        BY ONLY <3>0, CellOf
      <3> QED BY <2>2, <2>3, <3>1
    <2>6. \A j \in 1 .. M : again[N + 2 + j] = raw[N + 2 + j]
      <3> TAKE j \in 1 .. M
      <3>0. m \in Nat /\ L \in Nat /\ j \in 1 .. m * L
        BY <2>2, <2>4
      <3>1. PICK i \in 1 .. m, k \in 1 .. L : j = (i - 1) * L + k
        BY ONLY <3>0, CellOf
      <3> HIDE DEF N, M
      <3> QED BY <2>2, <2>3, <3>1
    <2> HIDE DEF N, M
    <2>7. ASSUME NEW i \in DOMAIN raw
          PROVE  \/ again[i] = raw[i]
                 \/ I!IsNegative(raw[i]) /\ again[i] = 0
      <3>1. i \in 1 .. N + 2 + M
        BY <2>1, <2>2
      <3>2. CASE i = 1
        BY <2>2, <2>3, <3>2
      <3>3. CASE i = N + 2
        BY <2>2, <2>3, <3>3
      <3>4. CASE i \in 2 .. N + 1
        <4>1. i - 1 \in 1 .. N /\ 1 + (i - 1) = i
          BY <2>2, <3>4
        <4>2. again[1 + (i - 1)] = raw[1 + (i - 1)]
          BY <2>5, <4>1
        <4> QED BY <4>1, <4>2
      <3>5. CASE i > N + 2
        <4>1. i - (N + 2) \in 1 .. M /\ N + 2 + (i - (N + 2)) = i
          BY <2>2, <3>1, <3>5
        <4>2. again[N + 2 + (i - (N + 2))] = raw[N + 2 + (i - (N + 2))]
          BY <2>6, <4>1
        <4> QED BY <4>1, <4>2
      <3> QED BY <2>2, <3>1, <3>2, <3>3, <3>4, <3>5
    <2> QED BY <2>2, <2>3, <2>7 DEF again
  <1> QED BY <1>1, IndexInvariance, PTL

-----------------------------------------------------------------------------
(* Verification.  The positions of an index are in order and all of them;   *)
(* every entry of the output that is its own names a block of the payload,  *)
(* which is what the merge copied or noise; and every entry that was        *)
(* walked over holds what its hash says.                                    *)

\* The instance counts as the library does.
LEMMA CountsAlike ==
  ASSUME NEW S
  PROVE  V!Cardinality(S) = Cardinality(S) /\ (V!IsFiniteSet(S) <=> IsFiniteSet(S))
  BY DEF V!Cardinality, Cardinality, V!IsFiniteSet, IsFiniteSet

\* Every finite set of naturals can be put in order.
LEMMA OrderExists ==
  ASSUME NEW n \in Nat, NEW S \in SUBSET (0 .. n - 1)
  PROVE  /\ IsFiniteSet(S) /\ Cardinality(S) \in Nat
         /\ \E s \in [1 .. Cardinality(S) -> S] :
              \A i, j \in DOMAIN s : i < j => s[i] < s[j]
  <1> DEFINE Ordered(Z) == \E s \in [1 .. Cardinality(Z) -> Z] :
                             \A i, j \in DOMAIN s : i < j => s[i] < s[j]
             T == {m \in Nat : \A Z \in SUBSET (0 .. m - 1) : Ordered(Z)}
  <1>1. ASSUME NEW m \in Nat, NEW Z \in SUBSET (0 .. m - 1)
        PROVE  IsFiniteSet(Z) /\ Cardinality(Z) \in Nat
    <2>1. IsFiniteSet(0 .. m - 1)
      BY FS_Interval
    <2>2. IsFiniteSet(Z)
      BY <2>1, FS_Subset
    <2> QED BY <2>2, FS_CardinalityType
  <1>2. 0 \in T
    <2> SUFFICES ASSUME NEW Z \in SUBSET (0 .. 0 - 1) PROVE Ordered(Z)
      OBVIOUS
    <2>1. Z = {} /\ Cardinality(Z) = 0
      <3>1. 0 .. 0 - 1 = {}
        OBVIOUS
      <3>2. Z = {}
        BY <3>1
      <3> QED BY <3>2, FS_EmptySet
    <2>2. <<>> \in [1 .. Cardinality(Z) -> Z] /\ DOMAIN <<>> = {}
      BY <2>1
    <2> QED BY <2>2
  <1>3. ASSUME NEW m \in Nat, m \in T PROVE m + 1 \in T
    <2> SUFFICES ASSUME NEW Z \in SUBSET (0 .. m) PROVE Ordered(Z)
      <3>1. (m + 1) - 1 = m /\ m + 1 \in Nat
        OBVIOUS
      <3> HIDE DEF Ordered
      <3> QED BY <3>1
    <2>1. \A Y \in SUBSET (0 .. m - 1) : Ordered(Y)
      BY <1>3
    <2>2. CASE m \notin Z
      <3>1. Z \in SUBSET (0 .. m - 1)
        BY <2>2
      <3> HIDE DEF Ordered
      <3> QED BY <2>1, <3>1
    <2>3. CASE m \in Z
      <3> DEFINE Y == Z \ {m}
      <3>1. Y \in SUBSET (0 .. m - 1) /\ Z = Y \cup {m} /\ m \notin Y
        BY <2>3
      <3>2. IsFiniteSet(Y) /\ Cardinality(Y) \in Nat
        BY <1>1, <3>1
      <3>3. Cardinality(Z) = Cardinality(Y) + 1
        BY <3>1, <3>2, FS_AddElement
      <3>4. PICK s \in [1 .. Cardinality(Y) -> Y] :
              \A i, j \in DOMAIN s : i < j => s[i] < s[j]
        BY <2>1, <3>1
      <3>5. PICK c \in Nat : c = Cardinality(Y)
        BY <3>2
      <3> HIDE DEF Y
      <3> DEFINE t == [i \in 1 .. c + 1 |-> IF i = c + 1 THEN m ELSE s[i]]
      <3>6. s \in [1 .. c -> Y] /\ \A i \in 1 .. c : s[i] < m
        <4>1. s \in [1 .. c -> Y]
          BY <3>4, <3>5
        <4>2. \A i \in 1 .. c : s[i] \in Y
          BY <4>1
        <4>3. \A y \in Y : y < m
          BY <3>1
        <4> QED BY <4>1, <4>2, <4>3
      <3>7. t \in [1 .. Cardinality(Z) -> Z]
        <4>1. Cardinality(Z) = c + 1 /\ m \in Z /\ Y \subseteq Z
          BY <3>1, <3>3, <3>5
        <4>2. \A i \in 1 .. c + 1 : i # c + 1 => i \in 1 .. c
          OBVIOUS
        <4>3. \A i \in 1 .. c : s[i] \in Y
          BY <3>6
        <4>4. \A i \in 1 .. c + 1 : t[i] \in Z
          BY <4>1, <4>2, <4>3
        <4> QED BY <4>1, <4>4
      <3>8. ASSUME NEW i \in DOMAIN t, NEW j \in DOMAIN t, i < j PROVE t[i] < t[j]
        <4>1. i \in 1 .. c
          BY <3>8
        <4>2. t[i] = s[i] /\ s[i] < m
          BY <3>6, <4>1
        <4>3. CASE j = c + 1
          BY <4>2, <4>3
        <4>4. CASE j # c + 1
          BY <3>4, <3>5, <3>6, <3>8, <4>1, <4>2, <4>4
        <4> QED BY <4>3, <4>4
      <3> HIDE DEF t
      <3> QED BY <3>7, <3>8
    <2> QED BY <2>2, <2>3
  <1>4. n \in T
    <2> HIDE DEF T
    <2>1. Nat \subseteq T
      BY <1>2, <1>3, NatClosed
    <2> QED BY <2>1
  <1> QED BY <1>1, <1>4

\* What is in order has every member of the set, and has each at one place.
LEMMA InOrderIs ==
  ASSUME NEW n \in Nat, NEW S \in SUBSET (0 .. n - 1)
  PROVE  /\ Cardinality(S) \in Nat /\ V!InOrder(S) \in [1 .. Cardinality(S) -> S]
         /\ \A x \in S : \E i \in 1 .. Cardinality(S) : V!InOrder(S)[i] = x
  <1>1. /\ IsFiniteSet(S) /\ Cardinality(S) \in Nat
        /\ \E s \in [1 .. Cardinality(S) -> S] :
              \A i, j \in DOMAIN s : i < j => s[i] < s[j]
    BY OrderExists
  <1>2. PICK s : s = V!InOrder(S)
    OBVIOUS
  <1>3. s \in [1 .. Cardinality(S) -> S] /\ \A i, j \in DOMAIN s : i < j => s[i] < s[j]
    <2> DEFINE P(t) == t \in [1 .. Cardinality(S) -> S]
                         /\ \A i, j \in DOMAIN t : i < j => t[i] < t[j]
    <2>1. s = CHOOSE t : P(t)
      BY <1>2, CountsAlike DEF V!InOrder
    <2>2. \E t : P(t)
      BY <1>1
    <2> HIDE DEF P
    <2>3. P(s)
      BY <2>1, <2>2, Zenon
    <2> QED BY <2>3 DEF P
  <1>4. PICK c \in Nat : c = Cardinality(S)
    BY <1>1
  <1>5. s \in Injection(1 .. c, S)
    <2>1. s \in [1 .. c -> S]
      BY <1>3, <1>4
    <2>2. \A i, j \in 1 .. c : i < j => s[i] < s[j]
      BY <1>3, <1>4
    <2>3. \A i, j \in 1 .. c : s[i] = s[j] => i = j
      <3>1. \A i \in 1 .. c : s[i] \in Int
        <4>1. \A x \in S : x \in Int
          OBVIOUS
        <4> QED BY <2>1, <4>1
      <3>2. \A i, j \in 1 .. c : i = j \/ i < j \/ j < i
        OBVIOUS
      <3> QED BY <2>2, <3>1, <3>2
    <2> QED BY <2>1, <2>3 DEF Injection, IsInjective
  <1>6. IsFiniteSet(1 .. c) /\ Cardinality(1 .. c) = c
    BY FS_Interval
  <1>7. s \in Surjection(1 .. c, S)
    BY <1>1, <1>4, <1>5, <1>6, FS_Injection
  <1> QED BY <1>2, <1>3, <1>4, <1>7 DEF Surjection

\* The set before the merge.
ChainOK ==
  /\ chain \in [full : BOOLEAN, captured : [0 .. 2 -> SUBSET Positions],
                reserved : 0 .. BlocksReserved, place : [1 .. 2 -> Places]]
  /\ storage \in [compressed : BOOLEAN, encrypted : BOOLEAN]

\* The output is the merge's, but for blocks that were damaged.
OutIs ==
  /\ DOMAIN out.payload = DOMAIN V!Payload
  /\ \A k \in DOMAIN V!Payload :
       out.payload[k] \in {V!Payload[k], [V!Payload[k] EXCEPT !.plain = V!Noise]}
  /\ out = [place |-> chain.place[2], delta |-> ~chain.full, reserved |-> V!Output.reserved,
            blocks |-> V!Output.blocks, payload |-> out.payload]

\* How many entries the output has, and which of those walked over are its own.
EntryCount == chain.reserved + Len(V!PositionsOf)
IsOwn(e) == ~V!IsHole(e.entry) /\ e.entry.file = V!Own
IsElsewhere(e) == ~V!IsHole(e.entry) /\ e.entry.file # V!Own
OwnSeen == {i \in 1 .. walked : IsOwn(V!Entries[i])}
ElsewhereSeen == {i \in 1 .. walked : IsElsewhere(V!Entries[i])}
Tested(e) == IsOwn(e) => V!PlainOf(e) = e.entry.hash

VerifyInv ==
  /\ ChainOK
  /\ stage \in {"merge", "written", "verify", "passed", "failed"}
  /\ stage = "merge" => out.reserved = <<>> /\ out.blocks = <<>>
  /\ stage # "merge" => OutIs
  /\ stage \in {"merge", "written"} => walked = 0
  /\ walked \in 0 .. EntryCount
  /\ report = [blocks |-> Cardinality(OwnSeen), elsewhere |-> Cardinality(ElsewhereSeen)]
  /\ \A i \in 1 .. walked : Tested(V!Entries[i])
  /\ stage \in {"verify", "passed"} => V!MayDecrypt
  /\ stage = "passed" => walked = EntryCount
  /\ stage = "failed" =>
       \/ ~V!MayDecrypt
       \/ walked < EntryCount /\ ~Tested(V!Entries[walked + 1])
       \/ walked = EntryCount /\ report.blocks = 0

LEMMA ChainIs ==
  ASSUME ChainOK
  PROVE  /\ chain.full \in BOOLEAN /\ chain.reserved \in Nat
         /\ \A f \in 0 .. 2 : chain.captured[f] \subseteq Positions
         /\ Positions \subseteq Nat /\ Cardinality(Positions) \in Nat
         /\ Positions = 0 .. Cardinality(Positions) - 1
  <1>1. /\ IsFiniteSet(Positions) /\ Positions = 0 .. Cardinality(Positions) - 1
        /\ BlocksReserved \in Nat
    BY PartsAssumption, CountsAlike DEF V!PositionsAssumption
  <1>2. Cardinality(Positions) \in Nat
    BY <1>1, FS_CardinalityType
  <1>3. chain.full \in BOOLEAN /\ chain.reserved \in Nat
    BY <1>1 DEF ChainOK
  <1>4. \A f \in 0 .. 2 : chain.captured[f] \subseteq Positions
    BY DEF ChainOK
  <1> QED BY <1>1, <1>2, <1>3, <1>4

\* The file that holds a position is the newest that does.
LEMMA HolderIs ==
  ASSUME NEW p
  PROVE  /\ V!Holders(p) \subseteq 0 .. 2
         /\ V!Holders(p) # {} => /\ V!Holder(p) \in V!Holders(p)
                                 /\ \A g \in V!Holders(p) : g <= V!Holder(p)
  <1>1. PICK H : H = V!Holders(p)
    OBVIOUS
  <1>2. H \subseteq 0 .. 2
    BY <1>1 DEF V!Holders
  <1>3. H # {} => \E f \in H : \A g \in H : g <= f
    <2>1. \A g \in H : g = 0 \/ g = 1 \/ g = 2
      BY <1>2
    <2>2. CASE 2 \in H
      BY <2>1, <2>2
    <2>3. CASE 2 \notin H /\ 1 \in H
      BY <2>1, <2>3
    <2>4. CASE 2 \notin H /\ 1 \notin H
      BY <2>1, <2>4
    <2> QED BY <2>2, <2>3, <2>4
  <1>4. H # {} => V!Holder(p) \in H /\ \A g \in H : g <= V!Holder(p)
    BY <1>1, <1>3 DEF V!Holder
  <1> QED BY <1>1, <1>2, <1>4

LEMMA PositionsAre ==
  ASSUME ChainOK
  PROVE  /\ V!PositionsOf \in Seq(V!InIndex) /\ V!InIndex \subseteq Positions
         /\ \A p \in V!InIndex : \E j \in 1 .. Len(V!PositionsOf) : V!PositionsOf[j] = p
         /\ \A p : V!Holders(p) \ {0} # {} => p \in V!InIndex
  <1>1. /\ chain.full \in BOOLEAN
        /\ \A f \in 0 .. 2 : chain.captured[f] \subseteq Positions
    BY ChainIs
  <1>2. PICK n \in Nat : n = Cardinality(Positions) /\ Positions = 0 .. n - 1
    BY ChainIs
  <1>3. V!Cardinality(Positions) = n
    BY <1>2, CountsAlike
  <1>4. V!InIndex \subseteq Positions
    BY <1>1 DEF V!InIndex
  <1>5. ASSUME NEW p, V!Holders(p) \ {0} # {} PROVE p \in V!InIndex
    <2>1. PICK f \in 1 .. 2 : p \in chain.captured[f]
      BY <1>5 DEF V!Holders
    <2>2. f \in 0 .. 2
      OBVIOUS
    <2> QED BY <1>1, <2>1, <2>2 DEF V!InIndex
  <1>6. CASE chain.full
    <2>1. V!PositionsOf = [i \in 1 .. n |-> i - 1] /\ V!InIndex = Positions
      BY <1>3, <1>6 DEF V!PositionsOf, V!InIndex
    <2>2. \A i \in 1 .. n : i - 1 \in Positions
      <3>1. \A i \in 1 .. n : i - 1 \in 0 .. n - 1
        OBVIOUS
      <3> QED BY <1>2, <3>1
    <2>3. \A p \in Positions : p + 1 \in 1 .. n /\ (p + 1) - 1 = p
      <3>1. \A p \in 0 .. n - 1 : p + 1 \in 1 .. n /\ (p + 1) - 1 = p
        OBVIOUS
      <3> QED BY <1>2, <3>1
    <2>4. V!PositionsOf \in Seq(V!InIndex) /\ Len(V!PositionsOf) = n
      BY <2>1, <2>2
    <2>5. \A p \in V!InIndex : V!PositionsOf[p + 1] = p
      BY <2>1, <2>3
    <2> QED BY <1>4, <1>5, <2>1, <2>3, <2>4, <2>5
  <1>7. CASE ~chain.full
    <2>1. V!PositionsOf = V!InOrder(V!InIndex)
      BY <1>7 DEF V!PositionsOf
    <2>2. PICK S : S = V!InIndex
      OBVIOUS
    <2>3. S \in SUBSET (0 .. n - 1)
      BY <1>2, <1>4, <2>2
    <2>4. /\ Cardinality(S) \in Nat /\ V!InOrder(S) \in [1 .. Cardinality(S) -> S]
          /\ \A x \in S : \E i \in 1 .. Cardinality(S) : V!InOrder(S)[i] = x
      BY <2>3, InOrderIs
    <2>5. PICK s : s = V!PositionsOf
      OBVIOUS
    <2>8. PICK c \in Nat : c = Cardinality(S)
      BY <2>4
    <2>6. s \in [1 .. c -> S] /\ \A x \in S : \E i \in 1 .. c : s[i] = x
      BY <2>1, <2>2, <2>4, <2>5, <2>8
    <2>7. s \in Seq(S) /\ Len(s) = c
      BY <2>6
    <2> QED BY <1>4, <1>5, <2>2, <2>5, <2>6, <2>7
  <1> QED BY <1>1, <1>6, <1>7

\* The entries of the output, in the order of the walk.
LEMMA EntriesAre ==
  ASSUME ChainOK, OutIs
  PROVE  /\ Len(V!PositionsOf) \in Nat /\ EntryCount \in Nat
         /\ Len(V!Entries) = EntryCount
         /\ \A i \in 1 .. chain.reserved :
              V!Entries[i] = [entry |-> [file |-> V!Own, at |-> <<"reserved", i - 1>>,
                                         length |-> 1, hash |-> V!Plain(2, "reserved", i - 1)],
                              index |-> i - 1]
         /\ \A j \in 1 .. Len(V!PositionsOf) :
              /\ out.blocks[j] = [element |-> V!OutEntry(V!PositionsOf[j]),
                                  block_index |-> V!PositionsOf[j]]
              /\ V!Entries[chain.reserved + j] =
                   [entry |-> V!OutEntry(V!PositionsOf[j]), index |-> V!PositionsOf[j]]
  <1> DEFINE P == V!PositionsOf
  <1>1. PICK m \in Nat : m = chain.reserved
    BY ChainIs
  <1>2. P \in Seq(V!InIndex)
    BY PositionsAre
  <1>3. PICK k \in Nat : k = Len(P)
    BY <1>2
  <1>4. DOMAIN P = 1 .. k
    BY <1>2, <1>3
  <1> HIDE DEF P
  <1>5. \A j \in 1 .. k : V!VectorIndex(j) = P[j]
    <2>3. PICK d : d = ~chain.full
      OBVIOUS
    <2>4. out = [place |-> chain.place[2], delta |-> d, reserved |-> V!Output.reserved,
                 blocks |-> V!Output.blocks, payload |-> out.payload]
      BY <2>3, Zenon DEF OutIs
    <2>5. out.delta = d
      BY <2>4
    <2>1. CASE chain.full
      <3>1. ~out.delta
        BY <2>1, <2>3, <2>5, Zenon
      <3>2. P = [i \in 1 .. V!Cardinality(Positions) |-> i - 1]
        BY <2>1 DEF V!PositionsOf, P
      <3>3. \A j \in 1 .. k : P[j] = j - 1
        BY <1>4, <3>2
      <3> QED BY <3>1, <3>3 DEF V!VectorIndex
    <2>2. CASE ~chain.full
      <3>1. out.delta
        BY <2>2, <2>3, <2>5, Zenon
      <3>2. out.blocks = V!Output.blocks
        BY DEF OutIs
      <3>3. \A j \in 1 .. k : out.blocks[j].block_index = P[j]
        BY <1>4, <3>2 DEF V!Output, P
      <3> QED BY <3>1, <3>3 DEF V!VectorIndex
    <2> QED BY <2>1, <2>2
  <1>6. out.reserved = V!Output.reserved /\ out.blocks = V!Output.blocks
    BY DEF OutIs
  <1> DEFINE A == [i \in 1 .. m |->
                     [entry |-> [file |-> V!Own, at |-> <<"reserved", i - 1>>,
                                 length |-> 1, hash |-> V!Plain(2, "reserved", i - 1)],
                      index |-> i - 1]]
             B == [j \in 1 .. k |-> [entry |-> V!OutEntry(P[j]), index |-> P[j]]]
             W == {A[i] : i \in 1 .. m} \cup {B[j] : j \in 1 .. k}
  <1>7. V!Entries = A \o B
    <2>1. out.reserved = [i \in 1 .. m |->
                            [file |-> V!Own, at |-> <<"reserved", i - 1>>, length |-> 1,
                             hash |-> V!Plain(2, "reserved", i - 1)]]
      BY <1>1, <1>6 DEF V!Output
    <2>2. [i \in DOMAIN out.reserved |-> [entry |-> out.reserved[i], index |-> i - 1]] = A
      BY <2>1
    <2>3. out.blocks = [j \in 1 .. k |-> [element |-> V!OutEntry(P[j]), block_index |-> P[j]]]
      BY <1>4, <1>6 DEF V!Output, P
    <2>4. [j \in DOMAIN out.blocks |->
             [entry |-> out.blocks[j].element, index |-> V!VectorIndex(j)]] = B
      BY <1>5, <2>3
    <2> HIDE DEF A, B
    <2> QED BY <2>2, <2>4 DEF V!Entries
  <1>8. A \in Seq(W) /\ B \in Seq(W) /\ Len(A) = m /\ Len(B) = k
    <2>1. A \in [1 .. m -> W] /\ B \in [1 .. k -> W]
      OBVIOUS
    <2> HIDE DEF A, B, W
    <2> QED BY <2>1
  <1>9. /\ Len(A \o B) = m + k
        /\ \A i \in 1 .. m + k : (A \o B)[i] = IF i <= m THEN A[i] ELSE B[i - m]
    <2> HIDE DEF A, B, W
    <2> QED BY <1>8, ConcatProperties
  <1>10. \A i \in 1 .. m : (A \o B)[i] = A[i]
    <2> HIDE DEF A, B, W
    <2> QED BY <1>9
  <1>11. ASSUME NEW j \in 1 .. k PROVE (A \o B)[m + j] = B[j]
    <2> HIDE DEF A, B, W
    <2>1. m + j \in 1 .. m + k /\ ~(m + j <= m) /\ (m + j) - m = j
      OBVIOUS
    <2> QED BY <1>9, <2>1
  <1>12. EntryCount = m + k
    BY <1>1, <1>3 DEF EntryCount, P
  <1>13. \A j \in 1 .. k : out.blocks[j] = [element |-> V!OutEntry(P[j]), block_index |-> P[j]]
    BY <1>4, <1>6 DEF V!Output, P
  <1>14. \A i \in 1 .. m : V!Entries[i] = A[i]
    <2> HIDE DEF A, B, W
    <2> QED BY <1>7, <1>10
  <1>15. \A j \in 1 .. k : V!Entries[m + j] = B[j]
    <2> HIDE DEF A, B, W
    <2> QED BY <1>7, <1>11
  <1>16. Len(V!Entries) = EntryCount
    <2> HIDE DEF A, B, W
    <2> QED BY <1>7, <1>9, <1>12
  <1>17. \A j \in 1 .. k : B[j] = [entry |-> V!OutEntry(P[j]), index |-> P[j]]
    OBVIOUS
  <1>18. \A i \in 1 .. m :
           A[i] = [entry |-> [file |-> V!Own, at |-> <<"reserved", i - 1>>, length |-> 1,
                              hash |-> V!Plain(2, "reserved", i - 1)], index |-> i - 1]
    OBVIOUS
  <1> HIDE DEF A, B, W
  <1>19. /\ Len(V!PositionsOf) \in Nat
         /\ EntryCount \in Nat
    BY <1>1, <1>3, <1>12 DEF P
  <1>20. \A i \in 1 .. m :
           V!Entries[i] = [entry |-> [file |-> V!Own, at |-> <<"reserved", i - 1>>, length |-> 1,
                                      hash |-> V!Plain(2, "reserved", i - 1)], index |-> i - 1]
    BY <1>14, <1>18, Zenon
  <1>21. \A j \in 1 .. k : V!Entries[m + j] = [entry |-> V!OutEntry(P[j]), index |-> P[j]]
    BY <1>15, <1>17, Zenon
  <1>22. \A j \in 1 .. k :
           /\ out.blocks[j] = [element |-> V!OutEntry(P[j]), block_index |-> P[j]]
           /\ V!Entries[m + j] = [entry |-> V!OutEntry(P[j]), index |-> P[j]]
    BY <1>13, <1>21, Zenon
  <1> QED BY <1>1, <1>3, <1>16, <1>19, <1>20, <1>22, Zenon DEF P

\* What an entry of the output says of a position.
LEMMA OutEntryIs ==
  ASSUME NEW p
  PROVE  LET e == V!OutEntry(p)
         IN  /\ V!Holders(p) \ {0} # {} =>
                  /\ V!Holder(p) \in 1 .. 2
                  /\ e = [file |-> V!Own, at |-> <<"data", p>>, length |-> 1,
                          hash |-> V!Plain(V!Holder(p), "data", p)]
             /\ V!Holders(p) \ {0} = {} => e.file # V!Own
  <1>1. PICK H : H = V!Holders(p)
    OBVIOUS
  <1>2. H \subseteq 0 .. 2 /\ (H # {} => V!Holder(p) \in H /\ \A g \in H : g <= V!Holder(p))
    BY <1>1, HolderIs
  <1>3. CASE H = {}
    BY <1>1, <1>3 DEF V!OutEntry, V!Hole, V!Own
  <1>4. CASE H # {} /\ H \ {0} = {}
    <2>1. V!Holder(p) = 0
      BY <1>2, <1>4
    <2> QED BY <1>1, <1>4, <2>1 DEF V!OutEntry, V!Own
  <1>5. CASE H \ {0} # {}
    <2>1. PICK f \in H : f # 0
      BY <1>5
    <2>2. f \in 1 .. 2 /\ f <= V!Holder(p) /\ V!Holder(p) \in 0 .. 2
      <3>1. V!Holder(p) \in H /\ f <= V!Holder(p)
        BY <1>2, <2>1
      <3>2. \A g \in H : g \in 0 .. 2
        BY <1>2
      <3>3. f \in 0 .. 2 /\ V!Holder(p) \in 0 .. 2
        BY <3>1, <3>2
      <3>4. f \in 1 .. 2
        BY <2>1, <3>3
      <3> QED BY <3>1, <3>3, <3>4
    <2>3. V!Holder(p) \in 1 .. 2
      BY <2>2
    <2> QED BY <1>1, <1>5, <2>1, <2>3 DEF V!OutEntry, V!Own
  <1> QED BY <1>1, <1>3, <1>4, <1>5

\* An entry that is the output's own names a block of the payload, stored with the numbers of a
\* file of the set and the position that the walk gives it.
LEMMA OwnIs ==
  ASSUME ChainOK, OutIs, NEW i \in 1 .. EntryCount, IsOwn(V!Entries[i])
  PROVE  LET e == V!Entries[i]
         IN  /\ e.entry.at \in DOMAIN V!Payload
             /\ \E f \in 1 .. 2 :
                  V!Payload[e.entry.at] = V!StoredBlock(e.entry.hash, chain.place[f], e.index)
  <1>1. PICK m \in Nat, k \in Nat : m = chain.reserved /\ k = Len(V!PositionsOf)
    BY ChainIs, EntriesAre
  <1>2. i \in 1 .. m + k
    BY <1>1 DEF EntryCount
  <1>3. PICK e : e = V!Entries[i]
    OBVIOUS
  <1>4. CASE i \in 1 .. m
    <2>1. e = [entry |-> [file |-> V!Own, at |-> <<"reserved", i - 1>>, length |-> 1,
                          hash |-> V!Plain(2, "reserved", i - 1)], index |-> i - 1]
      BY <1>1, <1>3, <1>4, EntriesAre
    <2>2. PICK r : r = i - 1
      OBVIOUS
    <2>3. r \in V!Reserved
      BY <1>1, <1>4, <2>2 DEF V!Reserved
    <2>4. /\ e.entry.at = <<"reserved", r>> /\ e.index = r
          /\ e.entry.hash = V!Plain(2, "reserved", r)
      BY <2>1, <2>2
    <2>5. <<"reserved", r>> \in ({"reserved"} \X V!Reserved) \cup ({"data"} \X V!Copied)
      BY <2>3
    <2>6. /\ <<"reserved", r>> \in DOMAIN V!Payload
          /\ V!Payload[<<"reserved", r>>]
               = V!StoredBlock(V!Plain(2, "reserved", r), chain.place[2], r)
      BY <2>5 DEF V!Payload
    <2> QED BY <1>3, <2>4, <2>6
  <1>5. CASE i \notin 1 .. m
    <2>1. PICK j \in 1 .. k : i = m + j
      <3>1. i - m \in 1 .. k /\ i = m + (i - m)
        BY <1>2, <1>5
      <3> QED BY <3>1
    <2>2. PICK p : p = V!PositionsOf[j]
      OBVIOUS
    <2>3. e = [entry |-> V!OutEntry(p), index |-> p]
      BY <1>1, <1>3, <2>1, <2>2, EntriesAre
    <2>4. p \in V!InIndex
      BY <1>1, <2>1, <2>2, PositionsAre
    <2>5. V!Holders(p) \ {0} # {}
      <3>1. V!OutEntry(p).file = V!Own
        BY <1>3, <2>3 DEF IsOwn
      <3> QED BY <3>1, OutEntryIs
    <2>6. PICK f \in 1 .. 2 : f = V!Holder(p)
      BY <2>5, OutEntryIs
    <2>7. /\ e.entry.at = <<"data", p>> /\ e.index = p
          /\ e.entry.hash = V!Plain(f, "data", p)
      BY <2>3, <2>5, <2>6, OutEntryIs
    <2>8. p \in V!Copied
      BY <2>4, <2>5 DEF V!Copied
    <2>9. <<"data", p>> \in ({"reserved"} \X V!Reserved) \cup ({"data"} \X V!Copied)
      BY <2>8
    <2>10. /\ <<"data", p>> \in DOMAIN V!Payload
           /\ V!Payload[<<"data", p>>]
                = V!StoredBlock(V!Plain(f, "data", p), chain.place[f], p)
      BY <2>6, <2>9 DEF V!Payload
    <2> QED BY <1>3, <2>7, <2>10
  <1> QED BY <1>4, <1>5

\* What depends on the set and the output alone stays when they do.
LEMMA VerifySame ==
  ASSUME chain' = chain, storage' = storage, password' = password
  PROVE  /\ V!Payload' = V!Payload /\ V!Output' = V!Output
         /\ EntryCount' = EntryCount
         /\ V!MayDecrypt' <=> V!MayDecrypt
         /\ ChainOK' <=> ChainOK
         /\ out' = out => /\ V!Entries' = V!Entries
                          /\ OutIs' <=> OutIs
                          /\ \A e : V!PlainOf(e)' = V!PlainOf(e)
  <1>2. V!InIndex' = V!InIndex /\ \A p : V!Holders(p)' = V!Holders(p)
    BY DEF V!InIndex, V!Holders
  <1>3. \A p : V!Holder(p)' = V!Holder(p)
    BY <1>2 DEF V!Holder
  <1>4. V!PositionsOf' = V!PositionsOf
    BY <1>2 DEF V!PositionsOf, V!InOrder
  <1>5. \A a, b, c : V!StoredBlock(a, b, c)' = V!StoredBlock(a, b, c)
    BY DEF V!StoredBlock, V!BlockIv
  <1>6. V!Payload' = V!Payload
    BY <1>2, <1>3, <1>5 DEF V!Payload, V!Reserved, V!Copied, V!Plain
  <1>7. \A p : V!OutEntry(p)' = V!OutEntry(p)
    BY <1>2, <1>3 DEF V!OutEntry, V!Plain
  <1>8. V!Output' = V!Output
    BY <1>4, <1>6, <1>7 DEF V!Output, V!Plain, V!Own
  <1>9. ASSUME out' = out
        PROVE  V!Entries' = V!Entries /\ \A e : V!PlainOf(e)' = V!PlainOf(e)
    <2>1. V!Entries' = V!Entries
      BY <1>9 DEF V!Entries, V!VectorIndex
    <2>2. \A e : V!PlainOf(e)' = V!PlainOf(e)
      BY <1>9 DEF V!PlainOf, V!Plaintext, V!Decrypted, V!BlockIv, V!Noise
    <2> QED BY <2>1, <2>2
  <1>10. EntryCount' = EntryCount
    BY <1>4 DEF EntryCount
  <1>11. V!MayDecrypt' <=> V!MayDecrypt
    BY DEF V!MayDecrypt
  <1>12. ChainOK' <=> ChainOK
    BY DEF ChainOK
  <1>13. ASSUME out' = out PROVE OutIs' <=> OutIs
    BY <1>6, <1>8, <1>13 DEF OutIs, V!Noise
  <1> QED BY <1>6, <1>8, <1>9, <1>10, <1>11, <1>12, <1>13

\* The entries seen are finitely many.
LEMMA SeenFinite ==
  ASSUME walked \in Nat
  PROVE  /\ IsFiniteSet(OwnSeen) /\ Cardinality(OwnSeen) \in Nat
         /\ IsFiniteSet(ElsewhereSeen) /\ Cardinality(ElsewhereSeen) \in Nat
  <1>1. IsFiniteSet(1 .. walked)
    BY FS_Interval
  <1>2. OwnSeen \in SUBSET (1 .. walked) /\ ElsewhereSeen \in SUBSET (1 .. walked)
    BY DEF OwnSeen, ElsewhereSeen
  <1>3. IsFiniteSet(OwnSeen) /\ IsFiniteSet(ElsewhereSeen)
    BY <1>1, <1>2, FS_Subset
  <1> QED BY <1>3, FS_CardinalityType

\* What walking over one entry adds to the count.
LEMMA SeenOneMore ==
  ASSUME walked \in Nat, walked' = walked + 1, V!Entries' = V!Entries
  PROVE  LET e == V!Entries[walked + 1]
         IN  /\ Cardinality(OwnSeen')
                  = IF IsOwn(e) THEN Cardinality(OwnSeen) + 1 ELSE Cardinality(OwnSeen)
             /\ Cardinality(ElsewhereSeen')
                  = IF IsElsewhere(e) THEN Cardinality(ElsewhereSeen) + 1
                    ELSE Cardinality(ElsewhereSeen)
  <1>1. PICK w \in Nat : w = walked
    OBVIOUS
  <1>2. PICK E : E = V!Entries
    OBVIOUS
  <1>3. 1 .. w + 1 = (1 .. w) \cup {w + 1} /\ w + 1 \notin 1 .. w
    OBVIOUS
  <1>4. /\ OwnSeen = {i \in 1 .. w : IsOwn(E[i])}
        /\ ElsewhereSeen = {i \in 1 .. w : IsElsewhere(E[i])}
    BY <1>1, <1>2 DEF OwnSeen, ElsewhereSeen
  <1>5. /\ OwnSeen' = {i \in 1 .. w + 1 : IsOwn(E[i])}
        /\ ElsewhereSeen' = {i \in 1 .. w + 1 : IsElsewhere(E[i])}
    BY <1>1, <1>2 DEF OwnSeen, ElsewhereSeen, IsOwn, IsElsewhere, V!IsHole, V!Own
  <1>6. /\ OwnSeen' = IF IsOwn(E[w + 1]) THEN OwnSeen \cup {w + 1} ELSE OwnSeen
        /\ ElsewhereSeen' = IF IsElsewhere(E[w + 1]) THEN ElsewhereSeen \cup {w + 1}
                            ELSE ElsewhereSeen
        /\ w + 1 \notin OwnSeen /\ w + 1 \notin ElsewhereSeen
    <2> HIDE DEF OwnSeen, ElsewhereSeen, IsOwn, IsElsewhere
    <2> QED BY <1>3, <1>4, <1>5
  <1>7. IsFiniteSet(OwnSeen) /\ IsFiniteSet(ElsewhereSeen)
    BY SeenFinite
  <1>8. /\ Cardinality(OwnSeen \cup {w + 1}) = Cardinality(OwnSeen) + 1
        /\ Cardinality(ElsewhereSeen \cup {w + 1}) = Cardinality(ElsewhereSeen) + 1
    BY <1>6, <1>7, FS_AddElement
  <1> QED BY <1>1, <1>2, <1>6, <1>8

LEMMA VInit ==
  ASSUME V!Init
  PROVE  VerifyInv
  <1>1. ChainOK
    BY DEF V!Init, ChainOK
  <1>2. /\ stage = "merge" /\ walked = 0 /\ report = [blocks |-> 0, elsewhere |-> 0]
        /\ out.reserved = <<>> /\ out.blocks = <<>>
    BY DEF V!Init
  <1>3. OwnSeen = {} /\ ElsewhereSeen = {}
    BY <1>2 DEF OwnSeen, ElsewhereSeen
  <1>4. Cardinality(OwnSeen) = 0 /\ Cardinality(ElsewhereSeen) = 0
    BY <1>3, FS_EmptySet
  <1>5. EntryCount \in Nat
    BY <1>1, ChainIs, PositionsAre DEF EntryCount
  <1> QED BY <1>1, <1>2, <1>4, <1>5 DEF VerifyInv

\* A step that keeps the set, the output, what was walked over and what was counted.
LEMMA VerifyKept ==
  ASSUME VerifyInv, stage' \in {"merge", "written", "verify", "passed", "failed"},
         UNCHANGED <<chain, storage, out, password, walked, report>>,
         stage' = "merge" => stage = "merge",
         stage' # "merge" => stage # "merge",
         stage' = "written" => stage \in {"merge", "written"},
         stage' \in {"verify", "passed"} => V!MayDecrypt,
         stage' = "passed" => walked = EntryCount,
         stage' = "failed" =>
           \/ ~V!MayDecrypt
           \/ walked < EntryCount /\ ~Tested(V!Entries[walked + 1])
           \/ walked = EntryCount /\ report.blocks = 0
  PROVE  VerifyInv'
  <1>1. /\ V!Entries' = V!Entries /\ EntryCount' = EntryCount
        /\ V!MayDecrypt' <=> V!MayDecrypt
        /\ ChainOK' /\ (OutIs' <=> OutIs)
        /\ \A e : V!PlainOf(e)' = V!PlainOf(e)
    BY VerifySame DEF VerifyInv
  <1>2. OwnSeen' = OwnSeen /\ ElsewhereSeen' = ElsewhereSeen
    BY <1>1 DEF OwnSeen, ElsewhereSeen, IsOwn, IsElsewhere, V!IsHole, V!Own
  <1>4. \A i \in 1 .. walked : Tested(V!Entries[i])
    BY DEF VerifyInv
  <1>5. \A i \in 1 .. walked' : Tested(V!Entries[i])'
    BY <1>1, <1>4 DEF Tested, IsOwn, V!IsHole, V!Own
  <1>6. Tested(V!Entries[walked + 1])' <=> Tested(V!Entries[walked + 1])
    BY <1>1 DEF Tested, IsOwn, V!IsHole, V!Own
  <1> HIDE DEF Tested
  <1> QED BY <1>1, <1>2, <1>5, <1>6 DEF VerifyInv

\* The merge writes each block as it found it.
LEMMA VMerge ==
  ASSUME VerifyInv, V!Merge
  PROVE  VerifyInv'
  <1>1. /\ stage = "merge" /\ stage' = "written" /\ out' = V!Output /\ chain' = chain
        /\ storage' = storage /\ password' = password /\ walked' = walked /\ report' = report
    BY DEF V!Merge
  <1>2. ChainOK' /\ EntryCount' = EntryCount /\ V!Payload' = V!Payload /\ V!Output' = V!Output
    BY <1>1, VerifySame DEF VerifyInv
  <1>3. OutIs'
    <2>1. /\ out'.payload = V!Payload
          /\ V!Output = [place |-> chain.place[2], delta |-> ~chain.full,
                         reserved |-> V!Output.reserved, blocks |-> V!Output.blocks,
                         payload |-> V!Payload]
      BY <1>1 DEF V!Output
    <2> QED BY <1>1, <1>2, <2>1 DEF OutIs
  <1>4. walked = 0 /\ walked' = 0
    BY <1>1 DEF VerifyInv
  <1>5. OwnSeen' = {} /\ ElsewhereSeen' = {} /\ OwnSeen = {} /\ ElsewhereSeen = {}
    BY <1>4 DEF OwnSeen, ElsewhereSeen
  <1>6. report' = [blocks |-> Cardinality(OwnSeen'), elsewhere |-> Cardinality(ElsewhereSeen')]
    BY <1>1, <1>5 DEF VerifyInv
  <1>7. walked' \in 0 .. EntryCount'
    BY <1>1, <1>2 DEF VerifyInv
  <1>8. \A i \in 1 .. walked' : Tested(V!Entries[i])'
    BY <1>4
  <1> QED BY <1>1, <1>2, <1>3, <1>4, <1>6, <1>7, <1>8 DEF VerifyInv

\* Damage turns a block of the payload to noise.
LEMMA VDamage ==
  ASSUME VerifyInv, V!Damage
  PROVE  VerifyInv'
  <1>1. PICK k \in DOMAIN out.payload : out' = [out EXCEPT !.payload[k].plain = V!Noise]
    BY DEF V!Damage
  <1>2. /\ stage = "written" /\ stage' = stage /\ chain' = chain
        /\ storage' = storage /\ password' = password /\ walked' = walked /\ report' = report
    BY DEF V!Damage
  <1>3. ChainOK' /\ EntryCount' = EntryCount /\ V!Payload' = V!Payload /\ V!Output' = V!Output
    BY <1>2, VerifySame DEF VerifyInv
  <1>4. PICK o, q, Q, R, N : o = out /\ q = out.payload /\ Q = V!Payload /\ R = V!Output
                             /\ N = V!Noise
    OBVIOUS
  <1>5. OutIs
    BY <1>2 DEF VerifyInv
  <1>6. /\ DOMAIN q = DOMAIN Q
        /\ \A j \in DOMAIN Q : q[j] \in {Q[j], [Q[j] EXCEPT !.plain = N]}
    BY <1>4, <1>5 DEF OutIs
  <1>7. PICK d : d = ~chain.full
    OBVIOUS
  <1>8. o = [place |-> chain.place[2], delta |-> d, reserved |-> R.reserved,
             blocks |-> R.blocks, payload |-> q]
    BY <1>4, <1>5, <1>7, Zenon DEF OutIs
  <1> DEFINE r == [q EXCEPT ![k] = [q[k] EXCEPT !.plain = N]]
  <1>9. out' = [o EXCEPT !.payload = r]
    BY <1>1, <1>4, <1>8
  <1> HIDE DEF r
  <1>10. out' = [place |-> chain.place[2], delta |-> d, reserved |-> R.reserved,
                 blocks |-> R.blocks, payload |-> r]
    BY <1>8, <1>9
  <1>11. out'.payload = r
    BY <1>10
  <1>12. DOMAIN r = DOMAIN Q
    BY <1>6 DEF r
  <1>13. ASSUME NEW j \in DOMAIN Q PROVE r[j] \in {Q[j], [Q[j] EXCEPT !.plain = N]}
    <2>1. CASE j # k
      BY <1>6, <2>1 DEF r
    <2>2. CASE j = k
      <3>1. r[j] = [q[j] EXCEPT !.plain = N]
        BY <1>6, <2>2 DEF r
      <3>2. PICK x : x = Q[j]
        OBVIOUS
      <3>3. [[x EXCEPT !.plain = N] EXCEPT !.plain = N] = [x EXCEPT !.plain = N]
        OBVIOUS
      <3> QED BY <1>6, <3>1, <3>2, <3>3
    <2> QED BY <2>1, <2>2
  <1>14. OutIs'
    <2>1. DOMAIN out'.payload = DOMAIN V!Payload'
      BY <1>3, <1>4, <1>11, <1>12
    <2>2. V!Noise' = N
      BY <1>4 DEF V!Noise
    <2>3. \A j \in DOMAIN V!Payload' :
            out'.payload[j] \in {V!Payload'[j], [V!Payload'[j] EXCEPT !.plain = V!Noise']}
      BY <1>3, <1>4, <1>11, <1>13, <2>2
    <2>4. out' = [place |-> chain'.place[2], delta |-> ~chain'.full,
                  reserved |-> V!Output'.reserved, blocks |-> V!Output'.blocks,
                  payload |-> out'.payload]
      BY <1>2, <1>3, <1>4, <1>7, <1>10, <1>11, Zenon
    <2> QED BY <2>1, <2>3, <2>4, Zenon DEF OutIs
  <1>15. walked = 0 /\ walked' = 0
    BY <1>2 DEF VerifyInv
  <1>16. OwnSeen' = {} /\ ElsewhereSeen' = {} /\ OwnSeen = {} /\ ElsewhereSeen = {}
    BY <1>15 DEF OwnSeen, ElsewhereSeen
  <1>17. report' = [blocks |-> Cardinality(OwnSeen'), elsewhere |-> Cardinality(ElsewhereSeen')]
    BY <1>2, <1>16 DEF VerifyInv
  <1>18. walked' \in 0 .. EntryCount'
    BY <1>2, <1>3 DEF VerifyInv
  <1>19. \A i \in 1 .. walked' : Tested(V!Entries[i])'
    BY <1>15
  <1> QED BY <1>2, <1>3, <1>14, <1>15, <1>17, <1>18, <1>19 DEF VerifyInv

\* Walking over an entry that is a hole, another file's or as its hash says.
LEMMA VerifyWalk ==
  ASSUME VerifyInv, V!AtEntry, walked' = walked + 1, Tested(V!Here),
         UNCHANGED <<stage, chain, storage, out, password>>,
         report' = [blocks    |-> report.blocks + IF IsOwn(V!Here) THEN 1 ELSE 0,
                    elsewhere |-> report.elsewhere + IF IsElsewhere(V!Here) THEN 1 ELSE 0]
  PROVE  VerifyInv'
  <1>1. /\ V!Entries' = V!Entries /\ EntryCount' = EntryCount
        /\ V!MayDecrypt' <=> V!MayDecrypt
        /\ ChainOK' /\ (OutIs' <=> OutIs)
        /\ \A e : V!PlainOf(e)' = V!PlainOf(e)
    BY VerifySame DEF VerifyInv
  <1>2. /\ stage = "verify" /\ stage' = "verify" /\ ChainOK /\ OutIs /\ V!MayDecrypt
        /\ walked \in 0 .. EntryCount /\ walked < Len(V!Entries)
    BY DEF VerifyInv, V!AtEntry
  <1>3. EntryCount \in Nat /\ Len(V!Entries) = EntryCount
    BY <1>2, EntriesAre
  <1>4. walked \in Nat /\ walked' \in 0 .. EntryCount'
    BY <1>1, <1>2, <1>3
  <1>5. PICK e : e = V!Here /\ e = V!Entries[walked + 1]
    BY DEF V!Here
  <1>6. Cardinality(OwnSeen) \in Nat /\ Cardinality(ElsewhereSeen) \in Nat
    BY <1>4, SeenFinite
  <1>7. /\ report.blocks = Cardinality(OwnSeen)
        /\ report.elsewhere = Cardinality(ElsewhereSeen)
    BY DEF VerifyInv
  <1>8. /\ Cardinality(OwnSeen')
             = IF IsOwn(e) THEN Cardinality(OwnSeen) + 1 ELSE Cardinality(OwnSeen)
        /\ Cardinality(ElsewhereSeen')
             = IF IsElsewhere(e) THEN Cardinality(ElsewhereSeen) + 1
               ELSE Cardinality(ElsewhereSeen)
    BY <1>1, <1>4, <1>5, SeenOneMore
  <1>9. report' = [blocks |-> Cardinality(OwnSeen'), elsewhere |-> Cardinality(ElsewhereSeen')]
    <2> HIDE DEF IsOwn, IsElsewhere, OwnSeen, ElsewhereSeen
    <2>1. report.blocks + (IF IsOwn(e) THEN 1 ELSE 0) = Cardinality(OwnSeen')
      BY <1>6, <1>7, <1>8
    <2>2. report.elsewhere + (IF IsElsewhere(e) THEN 1 ELSE 0) = Cardinality(ElsewhereSeen')
      BY <1>6, <1>7, <1>8
    <2> QED BY <1>5, <2>1, <2>2
  <1>10. \A i \in 1 .. walked' : Tested(V!Entries[i])'
    <2>1. \A i \in 1 .. walked + 1 : Tested(V!Entries[i])
      <3>1. \A i \in 1 .. walked : Tested(V!Entries[i])
        BY DEF VerifyInv
      <3>2. Tested(V!Entries[walked + 1])
        BY <1>5
      <3>3. \A i \in 1 .. walked + 1 : i \in 1 .. walked \/ i = walked + 1
        BY <1>4
      <3> HIDE DEF Tested
      <3> QED BY <3>1, <3>2, <3>3
    <2> QED BY <1>1, <2>1 DEF Tested, IsOwn, V!IsHole, V!Own
  <1> HIDE DEF Tested
  <1> QED BY <1>1, <1>2, <1>4, <1>9, <1>10 DEF VerifyInv

LEMMA VStart ==
  ASSUME VerifyInv, V!Start
  PROVE  VerifyInv'
  <1>1. /\ stage = "written" /\ UNCHANGED <<chain, storage, out, password, walked, report>>
        /\ V!MayDecrypt => stage' = "verify"
        /\ ~V!MayDecrypt => stage' = "failed"
    BY DEF V!Start
  <1> QED BY <1>1, VerifyKept

\* What is walked over is counted when it is not a hole.
LEMMA VWalk ==
  ASSUME VerifyInv, V!Skip \/ V!CountElsewhere
  PROVE  VerifyInv'
  <1>1. /\ report.blocks = Cardinality(OwnSeen) /\ report.elsewhere = Cardinality(ElsewhereSeen)
        /\ report = [blocks |-> report.blocks, elsewhere |-> report.elsewhere]
    BY DEF VerifyInv
  <1>2. walked \in Nat
    <2>1. EntryCount \in Nat
      BY ChainIs, PositionsAre DEF VerifyInv, EntryCount
    <2> QED BY <2>1 DEF VerifyInv
  <1>3. report.blocks \in Nat /\ report.elsewhere \in Nat
    BY <1>1, <1>2, SeenFinite
  <1>4. CASE V!Skip
    <2>1. /\ V!AtEntry /\ walked' = walked + 1 /\ ~IsOwn(V!Here) /\ ~IsElsewhere(V!Here)
          /\ UNCHANGED <<stage, chain, storage, out, password>> /\ report' = report
      BY <1>4 DEF V!Skip, IsOwn, IsElsewhere
    <2>2. Tested(V!Here)
      BY <2>1 DEF Tested
    <2>3. report' = [blocks    |-> report.blocks + IF IsOwn(V!Here) THEN 1 ELSE 0,
                     elsewhere |-> report.elsewhere + IF IsElsewhere(V!Here) THEN 1 ELSE 0]
      BY <1>1, <1>3, <2>1
    <2> QED BY <2>1, <2>2, <2>3, VerifyWalk
  <1>5. CASE V!CountElsewhere
    <2>1. /\ V!AtEntry /\ walked' = walked + 1 /\ ~IsOwn(V!Here) /\ IsElsewhere(V!Here)
          /\ UNCHANGED <<stage, chain, storage, out, password>>
          /\ report' = [report EXCEPT !.elsewhere = @ + 1]
      BY <1>5 DEF V!CountElsewhere, IsOwn, IsElsewhere
    <2>2. Tested(V!Here)
      BY <2>1 DEF Tested
    <2>3. report' = [blocks    |-> report.blocks + IF IsOwn(V!Here) THEN 1 ELSE 0,
                     elsewhere |-> report.elsewhere + IF IsElsewhere(V!Here) THEN 1 ELSE 0]
      BY <1>1, <1>3, <2>1
    <2> QED BY <2>1, <2>2, <2>3, VerifyWalk
  <1> QED BY <1>4, <1>5

\* A block that does not match its hash ends the walk.
LEMMA VTest ==
  ASSUME VerifyInv, V!TestBlock
  PROVE  VerifyInv'
  <1>1. /\ report.blocks = Cardinality(OwnSeen) /\ report.elsewhere = Cardinality(ElsewhereSeen)
        /\ report = [blocks |-> report.blocks, elsewhere |-> report.elsewhere]
    BY DEF VerifyInv
  <1>2. ChainOK /\ OutIs /\ EntryCount \in Nat /\ walked \in Nat /\ Len(V!Entries) = EntryCount
    <2>1. ChainOK /\ stage = "verify" /\ OutIs /\ walked \in 0 .. EntryCount
      BY DEF VerifyInv, V!TestBlock, V!AtEntry
    <2>2. EntryCount \in Nat /\ Len(V!Entries) = EntryCount
      BY <2>1, EntriesAre
    <2> QED BY <2>1, <2>2
  <1>3. report.blocks \in Nat /\ report.elsewhere \in Nat
    BY <1>1, <1>2, SeenFinite
  <1>4. /\ V!AtEntry /\ IsOwn(V!Here) /\ ~IsElsewhere(V!Here)
        /\ UNCHANGED <<chain, storage, out, password>>
    BY DEF V!TestBlock, IsOwn, IsElsewhere
  <1>5. V!Here = V!Entries[walked + 1] /\ stage = "verify" /\ walked < EntryCount
    BY <1>2, <1>4 DEF V!Here, V!AtEntry
  <1>6. CASE V!PlainOf(V!Here) = V!Here.entry.hash
    <2>1. /\ walked' = walked + 1 /\ stage' = stage
          /\ report' = [report EXCEPT !.blocks = @ + 1]
      BY <1>6 DEF V!TestBlock, V!HashMatches
    <2>2. Tested(V!Here)
      BY <1>6 DEF Tested
    <2>3. report' = [blocks    |-> report.blocks + IF IsOwn(V!Here) THEN 1 ELSE 0,
                     elsewhere |-> report.elsewhere + IF IsElsewhere(V!Here) THEN 1 ELSE 0]
      BY <1>1, <1>3, <1>4, <2>1
    <2> QED BY <1>4, <2>1, <2>2, <2>3, VerifyWalk
  <1>7. CASE V!PlainOf(V!Here) # V!Here.entry.hash
    <2>1. stage' = "failed" /\ walked' = walked /\ report' = report
      BY <1>7 DEF V!TestBlock, V!HashMatches
    <2>2. ~Tested(V!Entries[walked + 1])
      BY <1>4, <1>5, <1>7 DEF Tested
    <2> QED BY <1>4, <1>5, <2>1, <2>2, VerifyKept
  <1> QED BY <1>6, <1>7

LEMMA VFinish ==
  ASSUME VerifyInv, V!Finish
  PROVE  VerifyInv'
  <1>1. /\ stage = "verify" /\ walked = Len(V!Entries)
        /\ UNCHANGED <<chain, storage, out, password, walked, report>>
        /\ report.blocks = 0 => stage' = "failed"
        /\ report.blocks # 0 => stage' = "passed"
    BY DEF V!Finish
  <1>2. ChainOK /\ OutIs /\ V!MayDecrypt
    BY <1>1 DEF VerifyInv
  <1>3. walked = EntryCount
    BY <1>1, <1>2, EntriesAre
  <1> QED BY <1>1, <1>2, <1>3, VerifyKept

LEMMA VerifyInvariance == FileSpec => [](machine = "verify" => VerifyInv)
  <1>1. FileInit => (machine = "verify" => VerifyInv)
    BY VInit DEF FileInit
  <1>2. (machine = "verify" => VerifyInv) /\ [FileNext]_<<vars, machine, indexVars, verifyVars>>
          => (machine = "verify" => VerifyInv)'
    <2> SUFFICES ASSUME machine = "verify" => VerifyInv, machine' = "verify",
                        [FileNext]_<<vars, machine, indexVars, verifyVars>>
                 PROVE  VerifyInv'
      OBVIOUS
    <2>1. machine = "verify" /\ VerifyInv
      BY DEF FileNext
    <2>2. CASE V!Next
      BY <2>1, <2>2, VMerge, VDamage, VStart, VWalk, VTest, VFinish DEF V!Next
    <2>3. CASE UNCHANGED verifyVars
      <3>1. stage' = stage /\ UNCHANGED <<chain, storage, out, password, walked, report>>
        BY <2>3 DEF verifyVars
      <3>2. /\ stage \in {"merge", "written", "verify", "passed", "failed"}
            /\ stage \in {"verify", "passed"} => V!MayDecrypt
            /\ stage = "passed" => walked = EntryCount
            /\ stage = "failed" =>
                 \/ ~V!MayDecrypt
                 \/ walked < EntryCount /\ ~Tested(V!Entries[walked + 1])
                 \/ walked = EntryCount /\ report.blocks = 0
        BY <2>1 DEF VerifyInv
      <3> QED BY <2>1, <3>1, <3>2, VerifyKept
    <2> QED BY <2>1, <2>2, <2>3 DEF FileNext
  <1> QED BY <1>1, <1>2, PTL DEF FileSpec

\* A merged file that passes --verify-md5 gives back, at every position it holds, what the set
\* held there before the merge (verify.rs, verify_file).
THEOREM PassedIsIntact == FileSpec => []PassMeansIntact
  <1>1. (machine = "verify" => VerifyInv) => PassMeansIntact
    <2> SUFFICES ASSUME VerifyInv, stage = "passed" PROVE V!PassMeansIntact
      BY DEF PassMeansIntact, V!PassMeansIntact
    <2>1. ChainOK /\ OutIs /\ walked = EntryCount
          /\ \A i \in 1 .. walked : Tested(V!Entries[i])
      BY DEF VerifyInv
    <2>2. PICK m \in Nat, k \in Nat : m = chain.reserved /\ k = Len(V!PositionsOf)
      BY <2>1, ChainIs, EntriesAre
    <2>3. \A i \in 1 .. m + k : Tested(V!Entries[i])
      BY <2>1, <2>2 DEF EntryCount
    <2>4. ASSUME NEW p \in Positions, V!Holders(p) \ {0} # {}
          PROVE  \E i \in DOMAIN out.blocks :
                   /\ out.blocks[i].block_index = p /\ out.blocks[i].element.file = V!Own
                   /\ V!Plaintext(out.payload[out.blocks[i].element.at], out.place, p)
                        = V!Plain(V!Holder(p), "data", p)
      <3>1. PICK j \in 1 .. k : V!PositionsOf[j] = p
        BY <2>1, <2>2, <2>4, PositionsAre
      <3>2. PICK e : e = V!Entries[m + j]
        OBVIOUS
      <3>3. /\ e = [entry |-> V!OutEntry(p), index |-> p]
            /\ out.blocks[j] = [element |-> V!OutEntry(p), block_index |-> p]
        BY <2>1, <2>2, <3>1, <3>2, EntriesAre
      <3>4. V!OutEntry(p) = [file |-> V!Own, at |-> <<"data", p>>, length |-> 1,
                             hash |-> V!Plain(V!Holder(p), "data", p)]
        BY <2>4, OutEntryIs
      <3>5. IsOwn(e)
        BY <3>3, <3>4 DEF IsOwn, V!IsHole
      <3>6. V!PlainOf(e) = V!Plain(V!Holder(p), "data", p)
        <4>1. m + j \in 1 .. m + k
          OBVIOUS
        <4>2. Tested(e)
          BY <2>3, <3>2, <4>1
        <4>3. V!PlainOf(e) = e.entry.hash
          BY <3>5, <4>2 DEF Tested
        <4> QED BY <3>3, <3>4, <4>3
      <3>7. V!PlainOf(e) = V!Plaintext(out.payload[out.blocks[j].element.at], out.place, p)
        BY <3>3 DEF V!PlainOf
      <3>8. j \in DOMAIN out.blocks
        <4>1. out.blocks = V!Output.blocks /\ V!PositionsOf \in Seq(V!InIndex)
          BY <2>1, PositionsAre DEF OutIs
        <4>2. DOMAIN out.blocks = DOMAIN V!PositionsOf /\ DOMAIN V!PositionsOf = 1 .. k
          BY <2>2, <4>1 DEF V!Output
        <4> QED BY <4>2
      <3> QED BY <3>3, <3>4, <3>6, <3>7, <3>8
    <2>5. ASSUME NEW i \in V!Reserved
          PROVE  V!Plaintext(out.payload[out.reserved[i + 1].at], out.place, i)
                   = V!Plain(2, "reserved", i)
      <3>1. i \in 0 .. m - 1 /\ i + 1 \in 1 .. m /\ i + 1 \in 1 .. m + k /\ (i + 1) - 1 = i
        BY <2>2 DEF V!Reserved
      <3>2. PICK e : e = V!Entries[i + 1]
        OBVIOUS
      <3>3. e = [entry |-> [file |-> V!Own, at |-> <<"reserved", i>>, length |-> 1,
                            hash |-> V!Plain(2, "reserved", i)], index |-> i]
        BY <2>1, <2>2, <3>1, <3>2, EntriesAre
      <3>4. IsOwn(e)
        BY <3>3 DEF IsOwn, V!IsHole
      <3>5. V!PlainOf(e) = V!Plain(2, "reserved", i)
        <4>1. Tested(e)
          BY <2>3, <3>1, <3>2
        <4>2. V!PlainOf(e) = e.entry.hash
          BY <3>4, <4>1 DEF Tested
        <4> QED BY <3>3, <4>2
      <3>6. out.reserved[i + 1].at = <<"reserved", i>>
        <4>1. out.reserved = V!Output.reserved
          BY <2>1 DEF OutIs
        <4> QED BY <2>2, <3>1, <4>1 DEF V!Output
      <3>7. V!PlainOf(e) = V!Plaintext(out.payload[out.reserved[i + 1].at], out.place, i)
        BY <3>3, <3>6 DEF V!PlainOf
      <3> QED BY <3>5, <3>7
    <2> QED BY <2>4, <2>5 DEF V!PassMeansIntact
  <1> QED BY <1>1, VerifyInvariance, PTL

\* The output of a merge that nothing damaged, when it holds a block and the merged files number
\* their disk and partition alike, passes with the right password (verify.rs, verify_file).
THEOREM NoFalseAlarms == FileSpec => []NoFalseAlarm
  <1>1. (machine = "verify" => VerifyInv) => NoFalseAlarm
    <2> SUFFICES ASSUME VerifyInv, V!MayDecrypt, out = V!Output, DOMAIN out.payload # {},
                        storage.encrypted => chain.place[1] = chain.place[2],
                        stage = "failed"
                 PROVE  FALSE
      BY DEF NoFalseAlarm, V!NoFalseAlarm
    <2>1. /\ ChainOK /\ OutIs /\ walked \in 0 .. EntryCount
          /\ \/ walked < EntryCount /\ ~Tested(V!Entries[walked + 1])
             \/ walked = EntryCount /\ report.blocks = 0
          /\ report.blocks = Cardinality(OwnSeen)
      BY DEF VerifyInv
    <2>2. PICK m \in Nat, k \in Nat : m = chain.reserved /\ k = Len(V!PositionsOf)
      BY <2>1, ChainIs, EntriesAre
    <2>3. EntryCount = m + k /\ EntryCount \in Nat
      BY <2>2 DEF EntryCount
    <2>4. out.payload = V!Payload /\ out.place = chain.place[2]
      BY DEF V!Output
    <2>5. ASSUME NEW i \in 1 .. EntryCount PROVE Tested(V!Entries[i])
      <3> SUFFICES ASSUME IsOwn(V!Entries[i])
                   PROVE  V!PlainOf(V!Entries[i]) = V!Entries[i].entry.hash
        BY DEF Tested
      <3>1. PICK e : e = V!Entries[i]
        OBVIOUS
      <3>2. PICK f \in 1 .. 2 :
              V!Payload[e.entry.at] = V!StoredBlock(e.entry.hash, chain.place[f], e.index)
        BY <2>1, <3>1, OwnIs
      <3>3. storage.encrypted => chain.place[f] = chain.place[2]
        <4>1. f = 1 \/ f = 2
          OBVIOUS
        <4> QED BY <4>1
      <3>4. PICK b : b = V!Payload[e.entry.at]
        OBVIOUS
      <3>5. /\ b.plain = e.entry.hash
            /\ storage.encrypted => b.iv = V!BlockIv(chain.place[2], e.index)
        BY <3>2, <3>3, <3>4 DEF V!StoredBlock
      <3>6. V!Decrypted(b, V!BlockIv(chain.place[2], e.index)) = b
        BY <3>5 DEF V!Decrypted
      <3> QED BY <2>4, <3>1, <3>4, <3>5, <3>6 DEF V!PlainOf, V!Plaintext
    <2>6. ASSUME walked < EntryCount PROVE FALSE
      <3>1. walked + 1 \in 1 .. EntryCount
        BY <2>1, <2>3, <2>6
      <3>2. walked # EntryCount
        BY <2>1, <2>3, <2>6
      <3> QED BY <2>1, <2>5, <3>1, <3>2
    <2>7. walked = EntryCount /\ report.blocks = 0
      BY <2>1, <2>6
    <2>8. OwnSeen = {}
      <3>1. walked \in Nat
        BY <2>3, <2>7
      <3> QED BY <2>1, <2>7, <3>1, SeenFinite, FS_EmptySet
    <2>9. PICK q \in DOMAIN V!Payload : TRUE
      BY <2>4
    <2>10. q \in ({"reserved"} \X V!Reserved) \cup ({"data"} \X V!Copied)
      BY <2>9 DEF V!Payload
    <2>11. \E i \in 1 .. m + k : IsOwn(V!Entries[i])
      <3>1. CASE q \in {"reserved"} \X V!Reserved
        <4>1. PICK r : r \in V!Reserved
          BY <3>1
        <4>2. r + 1 \in 1 .. m /\ r + 1 \in 1 .. m + k
          BY <2>2, <4>1 DEF V!Reserved
        <4>3. PICK e : e = V!Entries[r + 1]
          OBVIOUS
        <4>4. e.entry.file = V!Own /\ e.entry.length = 1
          <5>1. V!Entries[r + 1] =
                  [entry |-> [file |-> V!Own, at |-> <<"reserved", (r + 1) - 1>>, length |-> 1,
                              hash |-> V!Plain(2, "reserved", (r + 1) - 1)],
                   index |-> (r + 1) - 1]
            BY <2>1, <2>2, <4>2, EntriesAre
          <5> QED BY <4>3, <5>1
        <4>5. IsOwn(e)
          BY <4>4 DEF IsOwn, V!IsHole
        <4> QED BY <4>2, <4>3, <4>5
      <3>2. CASE q \in {"data"} \X V!Copied
        <4>1. PICK p : p \in V!Copied
          BY <3>2
        <4>2. p \in V!InIndex /\ V!Holders(p) \ {0} # {}
          BY <4>1 DEF V!Copied
        <4>3. PICK j \in 1 .. k : V!PositionsOf[j] = p
          BY <2>1, <2>2, <4>2, PositionsAre
        <4>4. PICK e : e = V!Entries[m + j]
          OBVIOUS
        <4>5. e.entry = V!OutEntry(p)
          <5>1. V!Entries[m + j] = [entry |-> V!OutEntry(p), index |-> p]
            BY <2>1, <2>2, <4>3, EntriesAre
          <5> QED BY <4>4, <5>1
        <4>6. e.entry.file = V!Own /\ e.entry.length = 1
          BY <4>2, <4>5, OutEntryIs
        <4>7. IsOwn(e)
          BY <4>6 DEF IsOwn, V!IsHole
        <4>8. m + j \in 1 .. m + k
          OBVIOUS
        <4> QED BY <4>4, <4>7, <4>8
      <3> QED BY <2>10, <3>1, <3>2
    <2> QED BY <2>3, <2>7, <2>8, <2>11 DEF OwnSeen
  <1> QED BY <1>1, VerifyInvariance, PTL

-----------------------------------------------------------------------------
(* The types of the whole.                                                 *)

\* What was counted is what the index names, each entry once.
LEMMA VerifyTypes ==
  ASSUME VerifyInv
  PROVE  V!TypeOK
  <1>1. /\ ChainOK /\ walked \in 0 .. EntryCount
        /\ report.blocks = Cardinality(OwnSeen)
        /\ report.elsewhere = Cardinality(ElsewhereSeen)
    BY DEF VerifyInv
  <1>2. EntryCount \in Nat
    BY <1>1, ChainIs, PositionsAre DEF EntryCount
  <1>3. walked \in Nat
    BY <1>1, <1>2
  <1>4. walked \in 0 .. Len(V!Entries)
    <2>1. CASE stage = "merge"
      <3>1. walked = 0 /\ V!Entries = <<>> \o <<>>
        BY <2>1 DEF VerifyInv, V!Entries
      <3>2. Len(V!Entries) = 0
        BY <3>1
      <3> QED BY <3>1, <3>2
    <2>2. CASE stage # "merge"
      BY <1>1, <2>2, EntriesAre DEF VerifyInv
    <2> QED BY <2>1, <2>2
  <1>5. stage = "passed" => walked = Len(V!Entries)
    BY EntriesAre DEF VerifyInv
  <1>6. PICK O, E : O = OwnSeen /\ E = ElsewhereSeen
    OBVIOUS
  <1>7. /\ IsFiniteSet(O) /\ IsFiniteSet(E)
        /\ Cardinality(O) \in Nat /\ Cardinality(E) \in Nat
    BY <1>3, <1>6, SeenFinite
  <1>8. V!Captured = O \cup E /\ O \cap E = {}
    BY <1>6 DEF V!Captured, OwnSeen, ElsewhereSeen, IsOwn, IsElsewhere
  <1>9. Cardinality(O \cup E) = Cardinality(O) + Cardinality(E)
    <2>1. Cardinality(O \cap E) = 0
      BY <1>8, FS_EmptySet
    <2>2. Cardinality(O \cup E) = Cardinality(O) + Cardinality(E) - Cardinality(O \cap E)
      BY <1>7, FS_Union, Zenon
    <2> QED BY <1>7, <2>1, <2>2
  <1>10. V!Cardinality(V!Captured) = Cardinality(O) + Cardinality(E)
    BY <1>8, <1>9, CountsAlike
  <1>11. stage \in {"merge", "written", "verify", "passed", "failed"}
    BY DEF VerifyInv
  <1> QED BY <1>1, <1>4, <1>5, <1>6, <1>7, <1>10, <1>11 DEF V!TypeOK

LEMMA IndexTypes ==
  ASSUME IndexInv
  PROVE  I!TypeOK
  <1>1. step \in {"serialize", "stored", "parsed", "refused"}
    BY DEF IndexInv, IndexIdle
  <1>2. ASSUME step = "parsed"
        PROVE  /\ \A i \in DOMAIN found.reserved : found.reserved[i] \in I!Elements(ElementLen)
               /\ \A i \in DOMAIN found.blocks :
                    found.blocks[i]
                      \in I!Elements(IF found.delta THEN DeltaLen ELSE ElementLen)
    <2>1. /\ raw \in Seq(I!Words) /\ found.delta \in BOOLEAN
          /\ I!Parses(raw, found.delta) /\ found = I!Parsed(raw, found.delta)
      BY <1>2 DEF IndexInv, IndexIdle
    <2>2. IndexOK(found)
      <3> DEFINE d == found.delta
      <3>1. d \in BOOLEAN /\ I!Parses(raw, d) /\ found = I!Parsed(raw, d)
        BY <2>1
      <3> HIDE DEF d
      <3>2. ParsedFacts(found, raw, d)
        BY ONLY <2>1, <3>1, ParsedIs
      <3> QED BY ONLY <3>2 DEF ParsedFacts
    <2>3. I!Stride(found.delta) = IF found.delta THEN DeltaLen ELSE ElementLen
      BY DEF I!Stride
    <2> QED BY <2>2, <2>3 DEF IndexOK
  <1> QED BY <1>1, <1>2 DEF I!TypeOK

\* Every variable of the three machines stays in its set: nothing of a file is known beyond its
\* end, what was parsed has the words of an index, and every entry of the output that was walked
\* over was counted once (reader.rs, open; index.rs, parse; verify.rs, verify_file).
THEOREM FileTypes == FileSpec => []TypesOK
  <1>1. FInv => TypeOK
    BY DEF FInv, Types, TypeOK
  <1>2. FInv /\ IndexInv /\ (machine = "verify" => VerifyInv) => TypesOK
    BY <1>1, IndexTypes, VerifyTypes DEF TypesOK
  <1> QED BY <1>2, FileInv, IndexInvariance, VerifyInvariance, PTL
=============================================================================
