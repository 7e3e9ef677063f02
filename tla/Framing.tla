------------------------------ MODULE Framing ------------------------------
(***************************************************************************)
(* The metadata of a backup file (src/block.rs, src/reader.rs, and         *)
(* write_metadata_region and write_output of src/write.rs).  A file that   *)
(* may hold anything is opened as the To file of a merge; if it is         *)
(* accepted, an output is written from it, and the output is opened the    *)
(* way check_output opens it.  Bytes nobody has read may be anything: a    *)
(* header is chosen when it is first read, and known keeps it.             *)
(*                                                                         *)
(* A header is one unit of a file's length and so is a footer.  A header   *)
(* says name, len (of the payload), last, and form: "plain", "packed"      *)
(* (compressed) or "encrypted".                                            *)
(***************************************************************************)
EXTENDS Integers, SequencesExt

CONSTANTS
  MaxBlocks,   \* MAX_BLOCKS_PER_LIST
  MaxSize,     \* the largest To file
  Lengths,     \* the lengths a payload may have
  Shapes,      \* what the document may declare: a sequence of partition counts
  Growth,      \* how much longer than that of the To file the new document may be
  Allowance,   \* what estimate_metadata adds for that
  DataEnds,    \* where the data region of an output may end
  NoDoc

HeaderLen == 1
FooterLen == 1

VARIABLES
  phase,  \* "to" or "output"
  pc,     \* "footer", "walk", "listed", "accepted" or "refused"
  size, root, known,  \* the file being read: length, what the footer says, its headers
  doc,    \* its document, once read: dataEnd, shape, split, and the length of its text
  which,  \* the list being walked: <<0, 0>>, <<disk, 0>> or <<disk, partition>>
  at,     \* where the walk is
  list,   \* the blocks found so far, with their offsets
  lists,  \* [which -> list] of those that ended
  to,     \* what was read of the To file
  projected  \* projected_size() of the merge

fileVars == <<size, root, known>>
walkVars == <<which, at, list, lists>>
vars == <<phase, pc, fileVars, doc, walkVars, to, projected>>

ASSUME FramingAssumption ==
  /\ MaxBlocks \in Nat \ {0} /\ MaxSize \in Nat /\ Allowance \in Nat
  /\ Lengths \subseteq Nat /\ Growth \subseteq Nat /\ DataEnds \subseteq Nat
  /\ Shapes \subseteq Seq(Nat)

Root == <<0, 0>>

\* A block of a name that a list is not searched for stands for those of any other name.
Header(name, len, last, form) == [name |-> name, len |-> len, last |-> last, form |-> form]
Headers ==
  [name : {"json", "index", "aux"}, len : Lengths, last : BOOLEAN, form : {"plain"}]
  \cup [name : {"json"}, len : {0}, last : {TRUE}, form : {"packed", "encrypted"}]
  \cup [name : {"index"}, len : {0}, last : {TRUE}, form : {"packed"}]

\* Where a block ends, and the next begins.
BlockEnd(b) == b.at + HeaderLen + b.head.len
ListEnd(l) == BlockEnd(Last(l))

\* The blocks of a list that have a name, and the first of them.
Named(l, name) == {i \in DOMAIN l : l[i].head.name = name}
First(l, name) == l[Min(Named(l, name))]

Init ==
  /\ phase = "to" /\ pc = "footer"
  /\ size \in 0 .. MaxSize /\ root \in 0 .. MaxSize /\ known = <<>>
  /\ doc = NoDoc
  /\ which = Root /\ at = 0 /\ list = <<>> /\ lists = <<>>
  /\ to = NoDoc /\ projected = 0

Go(step) == pc' = step

-----------------------------------------------------------------------------
(* BackupFile::parse, with its index.                                      *)

\* read_footer: the file is long enough, and ends with the magic bytes.
ReadFooter ==
  /\ pc = "footer"
  /\ \/ size >= FooterLen /\ Go("walk")
     \/ (size < FooterLen \/ phase = "to") /\ Go("refused")
  /\ which' = Root /\ at' = root /\ list' = <<>> /\ lists' = <<>>
  /\ UNCHANGED <<phase, fileVars, doc, to, projected>>

\* Whether the walk of a list goes on after n blocks.  (Mutant: it always does.)
NoLimit(n) == n \in Nat
MayGoOn(n) == n < MaxBlocks

\* A whole header can be read.  (Mutant: a part of one will do.)
Begins(offset) == offset <= size
InFile(offset) == offset + HeaderLen <= size

\* One block of a list: walk_list.
ReadHeader ==
  /\ pc = "walk"
  /\ IF ~InFile(at) THEN Go("refused") /\ UNCHANGED <<known, at, list>>
     ELSE \E h \in IF at \in DOMAIN known THEN {known[at]} ELSE Headers :
            LET block == [at |-> at, head |-> h]
            IN  /\ known' = [o \in DOMAIN known \cup {at} |-> IF o = at THEN h ELSE known[o]]
                /\ list' = Append(list, block)
                /\ at' = BlockEnd(block)
                /\ Go(IF h.last THEN "listed"
                      ELSE IF MayGoOn(Len(list')) THEN "walk" ELSE "refused")
  /\ UNCHANGED <<phase, size, root, doc, which, lists, to, projected>>

\* The walk goes on to another list, at an offset.
WalkList(w, offset) ==
  /\ which' = w /\ at' = offset /\ list' = <<>>
  /\ lists' = [v \in DOMAIN lists \cup {which} |-> IF v = which THEN list ELSE lists[v]]
  /\ Go("walk")

\* The regions end where the root list begins.  (Mutant: wherever they end.)
AnyEnd(offset) == offset \in Nat
EndsAtRoot(offset) == offset = root

Finish(verdict) ==
  /\ Go(verdict)
  /\ lists' = [v \in DOMAIN lists \cup {which} |-> IF v = which THEN list ELSE lists[v]]
  /\ UNCHANGED <<which, at, list>>

\* A payload is within the file.
Whole(b) == BlockEnd(b) <= size

\* The text of a document is its payload, unless that was compressed.
TextLengths(head) == IF head.form = "packed" THEN Lengths ELSE {head.len}

\* What the document of a file may say.
Docs(head) ==
  [dataEnd : 0 .. size, shape : Shapes, split : {FALSE}, text : TextLengths(head)]
  \cup [dataEnd : {0}, shape : {<<>>}, split : {TRUE}, text : TextLengths(head)]

\* The root list has ended: the document is found and read, or is damaged.
ReadDocument ==
  /\ pc = "listed" /\ which = Root
  /\ LET json == Named(list, "json")
         block == First(list, "json")
         readable == json # {} /\ block.head.form # "encrypted" /\ Whole(block)
     IN  IF ~readable THEN Finish("refused") /\ UNCHANGED doc
         ELSE \/ /\ phase = "to"
                 /\ Finish("refused") /\ UNCHANGED doc
              \/ \E d \in IF phase = "output" THEN {doc} ELSE Docs(block.head) :
                   /\ doc' = d
                   /\ IF doc'.split THEN Finish("accepted")
                      ELSE IF doc'.dataEnd >= root THEN Finish("refused")
                      ELSE IF doc'.shape = <<>> THEN Finish("refused")
                      ELSE WalkList(<<1, 0>>, doc'.dataEnd)
  /\ UNCHANGED <<phase, fileVars, to, projected>>

\* The list after w: the next partition of the disk, or the next disk.
Following(shape, w) == IF w[2] < shape[w[1]] THEN <<w[1], w[2] + 1>> ELSE <<w[1] + 1, 0>>

\* A list of the metadata region has ended.  That of a partition ends with its index, which
\* is stored plain and is parsed.
EndList ==
  /\ pc = "listed" /\ which # Root
  /\ LET index == Last(list)
         sound == which[2] = 0 \/ (index.head.name = "index" /\ index.head.form = "plain"
                                   /\ Whole(index))
     IN  IF ~sound THEN Finish("refused")
         ELSE \/ phase = "to" /\ which[2] # 0 /\ Finish("refused")
              \/ LET next == Following(doc.shape, which)
                 IN  IF next[1] <= Len(doc.shape) THEN WalkList(next, at)
                     ELSE Finish(IF EndsAtRoot(at) THEN "accepted" ELSE "refused")
  /\ UNCHANGED <<phase, fileVars, doc, to, projected>>

-----------------------------------------------------------------------------
(* write_output, and the size it was projected to have.                    *)

\* The lists of the metadata region: each disk's, then those of its partitions.
ListsOf(shape) == UNION {{d} \X (0 .. shape[d]) : d \in DOMAIN shape}
Before(v, w) == v[1] < w[1] \/ (v[1] = w[1] /\ v[2] < w[2])
OfPartition(w) == w[2] # 0

\* What copy_range takes of each list: all of a disk's, and a partition's up to its index.
Spans ==
  [w \in ListsOf(doc.shape) |->
     (IF OfPartition(w) THEN Last(lists[w]).at ELSE ListEnd(lists[w])) - lists[w][1].at]

\* What is written after that: the new index of a partition.
Indexes(indexLen) ==
  [w \in ListsOf(doc.shape) |-> IF OfPartition(w) THEN HeaderLen + indexLen[w] ELSE 0]

\* write_metadata_region: where the lists begin in the output, and where the last one ends.
ListStart(rooms, w) == SumFunctionOnSet(rooms, {v \in DOMAIN rooms : Before(v, w)})
RegionLen(rooms) == SumFunctionOnSet(rooms, DOMAIN rooms)

\* The headers of a list as the output gets them, each at its offset.
Copied(w, start, indexLen) ==
  {<<start + (lists[w][i].at - lists[w][1].at),
     IF OfPartition(w) /\ i = Len(lists[w]) THEN Header("index", indexLen[w], TRUE, "plain")
     ELSE lists[w][i].head>> : i \in DOMAIN lists[w]}

\* Whether the document ends the root list.  (Mutant: it always does.)
Ends(aux) == TRUE
EndsRoot(aux) == aux = {}

\* The root list: the document, stored plain, and the $AUXDATA block as it is.
RootBlocks(start, text) ==
  LET aux  == Named(lists[Root], "aux")
      json == [at |-> start, head |-> Header("json", text, EndsRoot(aux), "plain")]
  IN  IF aux = {} THEN <<json>>
      ELSE <<json, [at |-> BlockEnd(json), head |-> First(lists[Root], "aux").head]>>

\* estimate_metadata: the lists it copies, the new index blocks, the document as long as the
\* old one, the $AUXDATA block and the footer.  (Mutant: without that block.)
AuxForgotten == 0
AuxSize == IF Named(lists[Root], "aux") = {} THEN 0
           ELSE HeaderLen + First(lists[Root], "aux").head.len

EstimateMetadata(indexLen) ==
  SumFunction(Spans) + SumFunction(Indexes(indexLen))
    + HeaderLen + doc.text + AuxSize + Allowance + FooterLen

\* The output, for new index arrays of some lengths and a data region of another.
WriteOutput ==
  /\ phase = "to" /\ pc = "accepted" /\ ~doc.split
  /\ Named(lists[Root], "aux") # {} => Whole(First(lists[Root], "aux"))
  /\ \E indexLen \in [{w \in ListsOf(doc.shape) : OfPartition(w)} -> Lengths],
        dataEnd \in DataEnds, grown \in Growth :
       LET text   == doc.text + grown
           indexes == Indexes(indexLen)
           rooms  == [w \in DOMAIN Spans |-> Spans[w] + indexes[w]]
           tail   == RootBlocks(dataEnd + RegionLen(rooms), text)
           start(w) == dataEnd + ListStart(rooms, w)
           heads  == (UNION {Copied(w, start(w), indexLen) : w \in DOMAIN rooms})
                       \cup {<<b.at, b.head>> : b \in Range(tail)}
       IN  /\ root' = dataEnd + RegionLen(rooms)
           /\ known' = [o \in {h[1] : h \in heads} |-> (CHOOSE h \in heads : h[1] = o)[2]]
           /\ size' = ListEnd(tail) + FooterLen
           /\ doc' = [doc EXCEPT !.dataEnd = dataEnd, !.text = text]
           /\ projected' = dataEnd + EstimateMetadata(indexLen)
  /\ to' = [doc |-> doc, lists |-> lists]
  /\ phase' = "output" /\ Go("footer")
  /\ UNCHANGED walkVars

Next == ReadFooter \/ ReadHeader \/ ReadDocument \/ EndList \/ WriteOutput

Spec == Init /\ [][Next]_vars

-----------------------------------------------------------------------------
(* Properties.                                                             *)

\* Every variable stays in its set, and no header lies past the end of its file.
TypeOK ==
  /\ phase \in {"to", "output"}
  /\ pc \in {"footer", "walk", "listed", "accepted", "refused"}
  /\ size \in Nat /\ root \in Nat /\ at \in Nat
  /\ \A o \in DOMAIN known : o + HeaderLen <= size

\* No more headers of a list are read than the limit, whatever the file holds (block.rs, "A
\* guard against walking a corrupt list forever").
WalkBounded == Len(list) <= MaxBlocks /\ \A w \in DOMAIN lists : Len(lists[w]) <= MaxBlocks

\* What check_framing looks at: the bytes after the root list.
Framed == size - ListEnd(lists[Root]) = FooterLen

\* The blocks of a list follow each other without a gap or an overlap.
Contiguous(l) == \A i \in 1 .. Len(l) - 1 : l[i + 1].at = BlockEnd(l[i])

\* An accepted file that is framed is accounted for to the last byte: the lists follow each
\* other without a gap or an overlap from where the data ends to the root list, and the root
\* list from there to the footer (reader.rs, parse and check_framing).
Tiled ==
  pc = "accepted" /\ ~doc.split /\ Framed =>
    /\ DOMAIN lists = ListsOf(doc.shape) \cup {Root}
    /\ \A w \in DOMAIN lists : Contiguous(lists[w])
    /\ lists[<<1, 0>>][1].at = doc.dataEnd
    /\ \A w \in ListsOf(doc.shape) :
         LET next == Following(doc.shape, w)
         IN  lists[IF next \in ListsOf(doc.shape) THEN next ELSE Root][1].at = ListEnd(lists[w])
    /\ ListEnd(lists[Root]) + FooterLen = size

\* The $AUXDATA block of a To file ends its root list, as write_output says it does.
AuxEnds(l) == Named(l, "aux") = {} \/ First(l, "aux").head.last

\* An output made from a To file that was accepted is accepted and framed, however that file
\* was laid out, and its lists hold the blocks of that file with a new index at the end of
\* each partition (write.rs, write_output; reader.rs, parse).
WrittenIsRead ==
  phase = "output" /\ AuxEnds(to.lists[Root]) =>
    /\ pc # "refused"
    /\ pc = "accepted" =>
         /\ Framed
         /\ DOMAIN lists = DOMAIN to.lists
         /\ \A w \in DOMAIN lists \ {Root} :
              /\ Len(lists[w]) = Len(to.lists[w])
              /\ \A i \in DOMAIN lists[w] :
                   lists[w][i].head = to.lists[w][i].head \/ (w[2] # 0 /\ i = Len(lists[w]))

\* The output is no larger than its projection, unless the document grew by more than the
\* allowance, and then by no more than that (plan.rs, estimate_metadata).
EstimateCovers ==
  phase = "output" => size <= projected + Max({0, doc.text - to.doc.text - Allowance})
=============================================================================
