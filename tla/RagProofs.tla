---- MODULE RagProofs ----
(***************************************************************************)
(* The RAG service for any documents, tenants, texts and batches: its      *)
(* documents behave as the catalogue promises, what its callers are told   *)
(* is true, and its chunks are bounded whatever happens around the chunker.*)
(***************************************************************************)
EXTENDS RagService, ChunkerProofs

Pcs == {"idle", "chunk", "document", "generate", "store", "vector", "fail", "index"}

\* The documents, and the frame of the goroutine that ingests them.
DocsType ==
  /\ docs \in [Docs -> [status : Statuses, count : Nat]]
  /\ chunkRows \subseteq Docs \X Nat
  /\ ingest \in [pc : Pcs, doc : Docs \union {Nothing}, at : Nat, upto : Nat]
  /\ told \in [Docs -> {"nothing", "indexed", "error"}]

\* Where the document in hand stands at each step of Ingest.
InHand ==
  ingest.pc # "idle" =>
    /\ Doc \in Docs /\ told[Doc] = "nothing"
    /\ docs[Doc].status \in IF ingest.pc \in {"chunk", "document"} THEN {"absent"}
                            ELSE {"processing", "gone"}

\* REFERENCES rag_documents ON DELETE CASCADE: a chunk has its document.
ChunksHaveDocuments == \A c \in chunkRows : Present(c[1])

DocsInv == DocsType /\ InHand /\ ChunksHaveDocuments /\ ToldIsTrue

\* What leaves all of it as it is.
docsSide == <<docs, chunkRows, ingest, told>>

\* Nothing but Ingest and the deletions touches documents and chunks,
LEMMA ClientKeepsDocs ==
  ASSUME \/ AskVectors \/ CheckSources \/ Searching \/ CutText
         \/ (\E t \in Tenants : StartSearch(t))
         \/ (\E t \in Writers, n \in Versions \ {0} : StartEmbed(t, n))
         \/ (\E c \in Callers : Request(c))
         \/ UNCHANGED vars
  PROVE  UNCHANGED docsSide
  BY DEF AskVectors, CheckSources, Searching, CutText, StartSearch, StartEmbed, Request, TakeVector,
         TakeQueryVector, TakeNoteVector, Rank, ReadChunk, EndSearch, InsertNote, EndCheck,
         tables, past, vars, docsSide

\* and a statement that is acknowledged was applied.
LEMMA OutcomesAreHonest ==
  \A o \in Outcomes : o.ok => o.applied
<1>1. Outcomes \subseteq {Done, Refused, Lost}
  BY DEF Outcomes
<1>2. (Done.ok => Done.applied) /\ (Refused.ok => Refused.applied) /\ (Lost.ok => Lost.applied)
  BY DEF Done, Refused, Lost
<1>. QED
  BY <1>1, <1>2

\* What becomes of the text in hand.
LEMMA ChunkingMoves ==
  ASSUME [Next]_vars
  PROVE  \/ \E t \in Texts : Takes(t)
         \/ Takes(<<>>) \/ ChunkNext \/ UNCHANGED chunking
  BY DEF Next, Ingesting, Searching, StartIngest, CutText, EndChunking, InsertDocument, AskVectors,
         TakeVectors, InsertChunk, InsertVector, MarkFailed, MarkIndexed, DeleteDocument,
         StartSearch, TakeVector, TakeQueryVector, TakeNoteVector, Rank, ReadChunk, EndSearch,
         StartEmbed, InsertNote, CheckSources, EndCheck, Request, ReturnFromIngest, vars

\* The chunker's invariant holds of whatever text Ingest has in hand.
LEMMA ChunkerInRag == Spec => []ChunkInv
<1>1. Init => ChunkInv
  BY UnbegunIsOK DEF Init, ChunkInv, TextOK
<1>2. ChunkInv /\ [Next]_vars => ChunkInv'
  <2>. SUFFICES ASSUME ChunkInv, [Next]_vars PROVE ChunkInv'
    OBVIOUS
  <2>1. ASSUME NEW t \in Texts, Takes(t) PROVE ChunkInv'
    <3>1. t \in Seq(Paragraphs)
      BY ChunkerAssumption
    <3>. QED
      BY <2>1, <3>1, ChunkInvBegins
  <2>2. ASSUME Takes(<<>>) PROVE ChunkInv'
    <3>1. <<>> \in Seq(Paragraphs)
      OBVIOUS
    <3>. QED
      BY <2>2, <3>1, ChunkInvBegins
  <2>3. CASE ChunkNext \/ UNCHANGED chunking
    BY <2>3, ChunkInvNext
  <2>. QED
    BY <2>1, <2>2, <2>3, ChunkingMoves
<1>. QED
  BY <1>1, <1>2, PTL DEF Spec

LEMMA DocsInvInit == Init => DocsInv
<1>. SUFFICES ASSUME Init PROVE DocsInv
  OBVIOUS
<1>1. DocsType
  BY DEF Init, DocsType, AtRest, Statuses, Pcs
<1>2. InHand /\ ChunksHaveDocuments /\ ToldIsTrue
  BY DEF Init, InHand, ChunksHaveDocuments, ToldIsTrue, AtRest
<1>. QED
  BY <1>1, <1>2 DEF DocsInv

LEMMA CountIsNat == ChunkInv => Count \in Nat
<1>1. ChunkInv => out.chunks \in Seq(Pieces)
  BY DEF ChunkInv, ChunksOK
<1>. QED
  BY <1>1 DEF Count

\* How the goroutine's frame moves on.
LEMMA NextChunkType ==
  ASSUME DocsType, NextChunk
  PROVE  /\ ingest' \in [pc : Pcs, doc : Docs \union {Nothing}, at : Nat, upto : Nat]
         /\ ingest'.doc = ingest.doc /\ ingest'.pc \in {"store", "generate", "index"}
<1>. DEFINE pc == CASE ingest.at + 1 < ingest.upto -> "store"
                    [] ingest.at + 1 = ingest.upto /\ ingest.upto < Count -> "generate"
                    [] OTHER -> "index"
<1>1. pc \in {"store", "generate", "index"}
  OBVIOUS
<1>2. ingest' = [ingest EXCEPT !.at = @ + 1, !.pc = pc]
  BY DEF NextChunk
<1>. HIDE DEF pc
<1>3. ingest.at + 1 \in Nat /\ pc \in Pcs
  BY <1>1 DEF DocsType, Pcs
<1>4. ingest' = [pc |-> pc, doc |-> ingest.doc, at |-> ingest.at + 1, upto |-> ingest.upto]
  BY <1>2 DEF DocsType
<1>. QED
  BY <1>1, <1>3, <1>4 DEF DocsType

LEMMA DocsInvNext == ChunkInv /\ DocsInv /\ [Next]_vars => DocsInv'
<1>. SUFFICES ASSUME ChunkInv, DocsInv, [Next]_vars PROVE DocsInv'
  OBVIOUS
<1>. USE DEF DocsInv
<1>0. Nothing \notin Docs
  BY RagAssumption
<1>1. CASE UNCHANGED docsSide
  BY <1>1 DEF docsSide, DocsType, InHand, ChunksHaveDocuments, ToldIsTrue, Doc, Present
<1>2. ASSUME NEW d \in Docs, NEW t \in Texts, StartIngest(d, t) PROVE DocsInv'
  <2>1. ingest' = [pc |-> "chunk", doc |-> d, at |-> 0, upto |-> 0] /\ UNCHANGED <<docs, chunkRows, told>>
    BY <1>2 DEF StartIngest, AtRest, tables, past
  <2>2. docs[d].status = "absent" /\ told[d] = "nothing"
    BY <1>2 DEF StartIngest
  <2>3. DocsType'
    BY <2>1 DEF DocsType, Pcs
  <2>4. InHand'
    BY <2>1, <2>2 DEF InHand, Doc
  <2>5. ChunksHaveDocuments' /\ ToldIsTrue'
    BY <2>1 DEF ChunksHaveDocuments, ToldIsTrue, Present
  <2>. QED
    BY <2>3, <2>4, <2>5
<1>3. CASE EndChunking
  <2>1. UNCHANGED <<docs, chunkRows>> /\ ingest.pc = "chunk" /\ Doc \in Docs
    BY <1>3 DEF EndChunking, tables, InHand
  <2>2. CASE out.chunks = <<>>
    <3>1. ingest' = AtRest /\ told' = [told EXCEPT ![Doc] = "error"]
      BY <1>3, <2>2 DEF EndChunking, ReturnFromIngest
    <3>2. DocsType'
      BY <2>1, <3>1 DEF DocsType, AtRest, Pcs
    <3>3. InHand'
      BY <3>1 DEF InHand, AtRest
    <3>4. ChunksHaveDocuments' /\ ToldIsTrue'
      BY <2>1, <3>1 DEF ChunksHaveDocuments, ToldIsTrue, Present, DocsType
    <3>. QED
      BY <3>2, <3>3, <3>4
  <2>3. CASE out.chunks # <<>>
    <3>1. ingest' = [ingest EXCEPT !.pc = "document"] /\ UNCHANGED told
      BY <1>3, <2>3 DEF EndChunking
    <3>. QED
      BY <2>1, <3>1 DEF DocsType, InHand, Doc, ChunksHaveDocuments, ToldIsTrue, Present, Pcs
  <2>. QED
    BY <2>2, <2>3
<1>4. CASE InsertDocument
  <2>1. /\ UNCHANGED chunkRows /\ ingest.pc = "document" /\ Doc \in Docs
        /\ docs[Doc].status = "absent" /\ told[Doc] = "nothing"
    BY <1>4 DEF InsertDocument, InHand
  <2>2. Count \in Nat
    BY CountIsNat
  <2>3. PICK o \in Outcomes :
          /\ docs' = IF o.applied THEN [docs EXCEPT ![Doc] = [status |-> "processing", count |-> Count]]
                     ELSE docs
          /\ IF o.ok THEN ingest' = [ingest EXCEPT !.pc = "generate"] /\ UNCHANGED <<chunking, told>>
             ELSE ReturnFromIngest("error")
    BY <1>4 DEF InsertDocument
  <2>4. docs' \in [Docs -> [status : Statuses, count : Nat]]
    BY <2>1, <2>2, <2>3 DEF DocsType, Statuses
  <2>5. ChunksHaveDocuments'
    BY <2>1, <2>3 DEF ChunksHaveDocuments, Present, DocsType
  <2>6. CASE o.ok
    <3>1. /\ docs' = [docs EXCEPT ![Doc] = [status |-> "processing", count |-> Count]]
          /\ ingest' = [ingest EXCEPT !.pc = "generate"] /\ UNCHANGED told
      BY <2>3, <2>6, OutcomesAreHonest
    <3>2. DocsType'
      BY <2>1, <2>4, <3>1 DEF DocsType, Pcs
    <3>3. InHand' /\ ToldIsTrue'
      BY <2>1, <3>1 DEF InHand, Doc, ToldIsTrue, DocsType
    <3>. QED
      BY <2>5, <3>2, <3>3
  <2>7. CASE ~o.ok
    <3>1. ingest' = AtRest /\ told' = [told EXCEPT ![Doc] = "error"]
      BY <2>3, <2>7 DEF ReturnFromIngest
    <3>2. DocsType'
      BY <2>1, <2>4, <3>1 DEF DocsType, Pcs, AtRest
    <3>3. InHand' /\ ToldIsTrue'
      BY <2>1, <2>3, <3>1 DEF InHand, AtRest, ToldIsTrue, DocsType
    <3>. QED
      BY <2>5, <3>2, <3>3
  <2>. QED
    BY <2>6, <2>7
<1>5. CASE TakeVectors
  <2>1. /\ UNCHANGED <<docs, chunkRows, told>> /\ ingest.pc = "generate"
        /\ \/ ingest' = [ingest EXCEPT !.pc = "fail"]
           \/ ingest' = [ingest EXCEPT !.pc = "store", !.upto = Smaller(ingest.at + BatchSize, Count)]
    BY <1>5 DEF TakeVectors, tables, past
  <2>2. Smaller(ingest.at + BatchSize, Count) \in Nat
    BY RagAssumption, CountIsNat DEF Smaller, DocsType
  <2>3. DocsType'
    BY <2>1, <2>2 DEF DocsType, Pcs
  <2>4. InHand' /\ ChunksHaveDocuments' /\ ToldIsTrue'
    BY <2>1 DEF InHand, Doc, ChunksHaveDocuments, Present, ToldIsTrue, DocsType
  <2>. QED
    BY <2>3, <2>4
<1>6. CASE InsertChunk
  <2>1. PICK o \in OutcomesIf(Present(Doc)) :
          /\ chunkRows' = IF o.applied THEN chunkRows \union {<<Doc, ingest.at>>} ELSE chunkRows
          /\ IF o.ok THEN ingest' = [ingest EXCEPT !.pc = "vector"] ELSE NextChunk
    BY <1>6 DEF InsertChunk
  <2>2. UNCHANGED <<docs, told>> /\ ingest.pc = "store" /\ Doc \in Docs /\ ingest.at \in Nat
    BY <1>6 DEF InsertChunk, InHand, DocsType
  <2>3. o.applied => Present(Doc)
    BY DEF OutcomesIf, Refused
  <2>4. ChunksHaveDocuments' /\ chunkRows' \subseteq Docs \X Nat
    BY <2>1, <2>2, <2>3 DEF ChunksHaveDocuments, Present, DocsType
  <2>5. /\ ingest' \in [pc : Pcs, doc : Docs \union {Nothing}, at : Nat, upto : Nat]
        /\ ingest'.doc = ingest.doc /\ ingest'.pc \in {"vector", "store", "generate", "index"}
    BY <2>1, NextChunkType DEF DocsType, Pcs
  <2>6. DocsType' /\ InHand' /\ ToldIsTrue'
    BY <2>2, <2>4, <2>5 DEF DocsType, InHand, Doc, ToldIsTrue
  <2>. QED
    BY <2>4, <2>6
<1>7. CASE InsertVector
  <2>1. UNCHANGED <<docs, chunkRows, told>> /\ ingest.pc = "vector" /\ NextChunk
    BY <1>7 DEF InsertVector
  <2>2. DocsType' /\ InHand' /\ ChunksHaveDocuments' /\ ToldIsTrue'
    BY <2>1, NextChunkType DEF DocsType, InHand, Doc, ChunksHaveDocuments, Present, ToldIsTrue
  <2>. QED
    BY <2>2
<1>8. CASE MarkFailed
  <2>1. /\ UNCHANGED chunkRows /\ ingest.pc = "fail" /\ Doc \in Docs /\ told[Doc] = "nothing"
        /\ docs[Doc].status \in {"processing", "gone"}
        /\ ingest' = AtRest /\ told' = [told EXCEPT ![Doc] = "error"]
        /\ SetStatus(Doc, "failed") \/ UNCHANGED docs
    BY <1>8 DEF MarkFailed, ReturnFromIngest, InHand
  <2>2. DocsType'
    BY <2>1 DEF DocsType, SetStatus, Statuses, AtRest, Pcs
  <2>3. InHand' /\ ChunksHaveDocuments' /\ ToldIsTrue'
    BY <2>1 DEF InHand, AtRest, ChunksHaveDocuments, Present, ToldIsTrue, SetStatus, DocsType
  <2>. QED
    BY <2>2, <2>3
<1>9. CASE MarkIndexed
  <2>1. PICK o \in Outcomes :
          /\ IF o.applied THEN SetStatus(Doc, "indexed") ELSE UNCHANGED docs
          /\ ReturnFromIngest(IF o.ok THEN "indexed" ELSE "error")
    BY <1>9 DEF MarkIndexed
  <2>2. /\ UNCHANGED chunkRows /\ ingest.pc = "index" /\ Doc \in Docs /\ told[Doc] = "nothing"
        /\ docs[Doc].status \in {"processing", "gone"} /\ ingest' = AtRest
        /\ told' = [told EXCEPT ![Doc] = IF o.ok THEN "indexed" ELSE "error"]
    BY <1>9, <2>1 DEF MarkIndexed, ReturnFromIngest, InHand
  <2>3. o.ok => o.applied
    BY OutcomesAreHonest
  <2>4. DocsType'
    BY <2>1, <2>2 DEF DocsType, SetStatus, Statuses, AtRest, Pcs
  <2>5. InHand' /\ ChunksHaveDocuments' /\ ToldIsTrue'
    BY <2>1, <2>2, <2>3 DEF InHand, AtRest, ChunksHaveDocuments, Present, ToldIsTrue, SetStatus, DocsType
  <2>. QED
    BY <2>4, <2>5
<1>10. ASSUME NEW d \in Docs, NEW t \in Tenants, DeleteDocument(d, t) PROVE DocsInv'
  <2>1. /\ Present(d) /\ docs' = [docs EXCEPT ![d].status = "gone"]
        /\ chunkRows' = {c \in chunkRows : c[1] # d} /\ UNCHANGED <<ingest, told>>
    BY <1>10 DEF DeleteDocument, past
  <2>2. DocsType'
    BY <2>1 DEF DocsType, Statuses
  <2>3. InHand' /\ ChunksHaveDocuments' /\ ToldIsTrue'
    BY <2>1 DEF InHand, Doc, ChunksHaveDocuments, Present, ToldIsTrue, DocsType
  <2>. QED
    BY <2>2, <2>3
<1>. QED
  BY <1>1, <1>2, <1>3, <1>4, <1>5, <1>6, <1>7, <1>8, <1>9, <1>10, ClientKeepsDocs
     DEF Next, Ingesting

LEMMA InvHolds == Spec => [](ChunkInv /\ DocsInv)
<1>1. Spec => []ChunkInv
  BY ChunkerInRag
<1>2. Spec => []DocsInv
  BY <1>1, DocsInvInit, DocsInvNext, PTL DEF Spec
<1>. QED
  BY <1>1, <1>2, PTL

\* Whatever happens around the chunker, and whichever text it gets next, its
\* chunks are bounded.
THEOREM ChunksStayBounded == Spec => []ChunksBounded
  BY ChunkerInRag, ChunkInvMeans, PTL

\* The chunks of the text in hand have all its sentences, once and in order,
\* whatever text it is and whatever happens around.
THEOREM TextStaysCovered == Spec => []TextIsCovered
<1>1. Init => Covered
  <2>. SUFFICES ASSUME Init PROVE Covered
    OBVIOUS
  <2>1. given = <<>> /\ text = <<>> /\ Len(sentences) = 0 /\ out.buf.upto = 0
    BY DEF Init, Unbegun, Empty
  <2>. QED
    BY <2>1, NoSentences DEF Covered
<1>2. ChunkInv /\ Covered /\ [Next]_vars => Covered'
  <2>. SUFFICES ASSUME ChunkInv, Covered, [Next]_vars PROVE Covered'
    OBVIOUS
  <2>1. ASSUME NEW t \in Seq(Paragraphs), Takes(t) PROVE Covered'
    BY <2>1, CoveredBegins DEF Takes
  <2>2. CASE UNCHANGED chunking
    BY <2>2 DEF chunking, Covered
  <2>3. (\E t \in Texts : Takes(t)) \/ Takes(<<>>) \/ ChunkNext \/ UNCHANGED chunking
    BY ChunkingMoves
  <2>4. <<>> \in Seq(Paragraphs) /\ Texts \subseteq Seq(Paragraphs)
    BY ChunkerAssumption
  <2>. QED
    BY <2>1, <2>2, <2>3, <2>4, CoveredNext
<1>3. ChunkInv /\ Covered => TextIsCovered
  BY ChunkInvMeans DEF Covered, TextIsCovered
<1>. QED
  BY <1>1, <1>2, <1>3, ChunkerInRag, PTL DEF Spec

\* The caller of Ingest was told what the table shows, whichever statement
\* failed or lost its answer and whoever deleted the document meanwhile.
THEOREM CallersAreToldTheTruth == Spec => []ToldIsTrue
  BY InvHolds, PTL DEF DocsInv

----
(* The documents implement their catalogue. *)

StatusOf == [d \in Docs |-> docs[d].status]
HeldBy == [d \in Docs |-> {c[2] : c \in {r \in chunkRows : r[1] = d}}]

\* The catalogue sees of a step the status and the chunks it changes.
LEMMA SeenUnchanged ==
  ASSUME UNCHANGED <<docs, chunkRows>> PROVE UNCHANGED Catalogue!catalogue
  BY DEF Catalogue!catalogue

LEMMA SeenStatus ==
  ASSUME DocsInv, NEW d \in Docs, UNCHANGED chunkRows, NEW s,
         \A e \in Docs : docs'[e].status = IF e = d THEN s ELSE docs[e].status
  PROVE  /\ Catalogue!Becomes(d, docs[d].status, s)
         /\ s = docs[d].status => UNCHANGED Catalogue!catalogue
<1>1. HeldBy' = HeldBy
  BY DEF HeldBy
<1>2. StatusOf' = [StatusOf EXCEPT ![d] = s]
  BY DEF StatusOf
<1>3. StatusOf[d] = docs[d].status
  BY DEF StatusOf
<1>. QED
  BY <1>1, <1>2, <1>3 DEF Catalogue!Becomes, Catalogue!catalogue, StatusOf, HeldBy

LEMMA SeenSetStatus ==
  ASSUME DocsInv, Doc \in Docs, docs[Doc].status \in {"processing", "gone"}, UNCHANGED chunkRows,
         NEW s \in {"failed", "indexed"}, SetStatus(Doc, s)
  PROVE  Catalogue!Becomes(Doc, "processing", s) \/ UNCHANGED Catalogue!catalogue
<1>1. CASE docs[Doc].status = "processing"
  <2>1. \A e \in Docs : docs'[e].status = IF e = Doc THEN s ELSE docs[e].status
    BY <1>1 DEF SetStatus, Present, DocsInv, DocsType
  <2>. QED
    BY <2>1, <1>1, SeenStatus
<1>2. CASE docs[Doc].status = "gone"
  <2>1. \A e \in Docs : docs'[e].status = IF e = Doc THEN "gone" ELSE docs[e].status
    BY <1>2 DEF SetStatus, Present, DocsInv, DocsType
  <2>. QED
    BY <2>1, <1>2, SeenStatus
<1>. QED
  BY <1>1, <1>2

LEMMA CatalogueStep ==
  ChunkInv /\ DocsInv /\ [Next]_vars => [Catalogue!Next]_(Catalogue!catalogue)
<1>. SUFFICES ASSUME ChunkInv, DocsInv, [Next]_vars
              PROVE  [Catalogue!Next]_(Catalogue!catalogue)
  OBVIOUS
<1>0. DocsType /\ InHand /\ ChunksHaveDocuments
  BY DEF DocsInv
<1>1. CASE UNCHANGED <<docs, chunkRows>>
  BY <1>1, SeenUnchanged
<1>2. CASE InsertDocument
  <2>1. Doc \in Docs /\ docs[Doc].status = "absent" /\ UNCHANGED chunkRows
    BY <1>0, <1>2 DEF InsertDocument, InHand
  <2>2. \/ docs' = docs
        \/ docs' = [docs EXCEPT ![Doc] = [status |-> "processing", count |-> Count]]
    BY <1>2 DEF InsertDocument
  <2>3. CASE docs' = docs
    BY <2>1, <2>3, SeenUnchanged
  <2>4. CASE docs' = [docs EXCEPT ![Doc] = [status |-> "processing", count |-> Count]]
    <3>0. PICK d \in Docs : d = Doc
      BY <2>1
    <3>1. \A e \in Docs : docs'[e].status = IF e = d THEN "processing" ELSE docs[e].status
      BY <1>0, <2>4, <3>0 DEF DocsType
    <3>2. Catalogue!Appear(d)
      BY <2>1, <3>0, <3>1, SeenStatus DEF Catalogue!Appear
    <3>. QED
      BY <3>2 DEF Catalogue!Next
  <2>. QED
    BY <2>2, <2>3, <2>4
<1>3. CASE InsertChunk
  <2>1. PICK o \in OutcomesIf(Present(Doc)) :
          chunkRows' = IF o.applied THEN chunkRows \union {<<Doc, ingest.at>>} ELSE chunkRows
    BY <1>3 DEF InsertChunk
  <2>2. UNCHANGED docs /\ Doc \in Docs /\ docs[Doc].status \in {"processing", "gone"}
    BY <1>0, <1>3 DEF InsertChunk, InHand
  <2>3. o.applied => docs[Doc].status = "processing"
    BY <2>2 DEF OutcomesIf, Refused, Present
  <2>4. CASE chunkRows' = chunkRows
    BY <2>2, <2>4, SeenUnchanged
  <2>5. CASE chunkRows' # chunkRows
    <3>1. /\ chunkRows' = chunkRows \union {<<Doc, ingest.at>>}
          /\ <<Doc, ingest.at>> \notin chunkRows /\ docs[Doc].status = "processing"
      BY <2>1, <2>3, <2>5
    <3>2. \A r \in chunkRows : r = <<r[1], r[2]>>
      BY <1>0 DEF DocsType
    <3>0. PICK d \in Docs : d = Doc
      BY <2>2
    <3>3. ingest.at \in HeldBy'[d] \ HeldBy[d]
      BY <2>2, <3>0, <3>1, <3>2 DEF HeldBy
    <3>4. HeldBy' = [HeldBy EXCEPT ![d] = @ \union {ingest.at}]
      <4>1. \A e \in Docs : {c[2] : c \in {r \in chunkRows' : r[1] = e}}
              = IF e = d THEN {c[2] : c \in {r \in chunkRows : r[1] = e}} \union {ingest.at}
                ELSE {c[2] : c \in {r \in chunkRows : r[1] = e}}
        BY <3>0, <3>1
      <4>. QED
        BY <2>2, <4>1 DEF HeldBy
    <3>5. StatusOf' = StatusOf /\ StatusOf[d] = "processing"
      BY <2>2, <3>0, <3>1 DEF StatusOf
    <3>6. Catalogue!Store(d)
      BY <3>3, <3>4, <3>5 DEF Catalogue!Store, HeldBy, StatusOf
    <3>. QED
      BY <3>6 DEF Catalogue!Next
  <2>. QED
    BY <2>4, <2>5
<1>4. CASE MarkFailed
  <2>1. /\ UNCHANGED chunkRows /\ Doc \in Docs /\ docs[Doc].status \in {"processing", "gone"}
        /\ SetStatus(Doc, "failed") \/ UNCHANGED docs
    BY <1>0, <1>4 DEF MarkFailed, InHand
  <2>2. Catalogue!Becomes(Doc, "processing", "failed") \/ UNCHANGED Catalogue!catalogue
    BY <2>1, SeenSetStatus, SeenUnchanged
  <2>. QED
    BY <2>1, <2>2 DEF Catalogue!Next, Catalogue!Fail
<1>5. CASE MarkIndexed
  <2>1. /\ UNCHANGED chunkRows /\ Doc \in Docs /\ docs[Doc].status \in {"processing", "gone"}
        /\ SetStatus(Doc, "indexed") \/ UNCHANGED docs
    BY <1>0, <1>5 DEF MarkIndexed, InHand
  <2>2. Catalogue!Becomes(Doc, "processing", "indexed") \/ UNCHANGED Catalogue!catalogue
    BY <2>1, SeenSetStatus, SeenUnchanged
  <2>. QED
    BY <2>1, <2>2 DEF Catalogue!Next, Catalogue!Index
<1>6. ASSUME NEW d \in Docs, NEW t \in Tenants, DeleteDocument(d, t)
      PROVE  Catalogue!Next
  <2>1. /\ Present(d) /\ docs' = [docs EXCEPT ![d].status = "gone"]
        /\ chunkRows' = {c \in chunkRows : c[1] # d}
    BY <1>6 DEF DeleteDocument
  <2>2. StatusOf' = [StatusOf EXCEPT ![d] = "gone"] /\ StatusOf[d] = docs[d].status
    BY <1>0, <2>1 DEF StatusOf, DocsType
  <2>3. HeldBy' = [HeldBy EXCEPT ![d] = {}]
    BY <2>1 DEF HeldBy
  <2>4. Catalogue!Remove(d)
    BY <2>1, <2>2, <2>3 DEF Catalogue!Remove, StatusOf, HeldBy, Present
  <2>. QED
    BY <2>4 DEF Catalogue!Next
<1>7. \/ UNCHANGED <<docs, chunkRows>> \/ InsertDocument \/ InsertChunk \/ MarkFailed \/ MarkIndexed
      \/ \E d \in Docs, t \in Tenants : DeleteDocument(d, t)
  <2>1. CASE \E d \in Docs, t \in Texts : StartIngest(d, t)
    BY <2>1 DEF StartIngest, tables
  <2>2. CASE EndChunking \/ TakeVectors \/ InsertVector
    BY <2>2 DEF EndChunking, TakeVectors, InsertVector, tables
  <2>. QED
    BY <2>1, <2>2, ClientKeepsDocs DEF Next, Ingesting, docsSide
<1>. QED
  BY <1>1, <1>2, <1>3, <1>4, <1>5, <1>6, <1>7

\* Documents appear once, take chunks while they are processed only, and are
\* then failed or indexed until they are removed, chunks and all.
THEOREM CatalogueIsRefined == Spec => CatalogueSpec
<1>1. Init => Catalogue!Init
  BY DEF Init, Catalogue!Init
<1>. QED
  BY <1>1, CatalogueStep, InvHolds, PTL DEF Spec, CatalogueSpec, Catalogue!Spec

----
(* The sources of vectors *)

GenType == [pc : GenPcs, at : Sources \union {"nil"}, probing : BOOLEAN,
            asked : SUBSET Sources, raced : BOOLEAN]

\* What a call knows of the field "primary", p, unless another one has moved
\* it: where it has asked, and where the second request will go.
CallOK(g, p) ==
  /\ g.pc \in {"begin", "health local", "health remote", "pick"} => g.asked = {}
  /\ g.pc \in {"pick", "again"} => p # "nil"
  /\ g.pc \in {"ask", "fall back"} /\ g.asked = {"local"} /\ ~g.raced => p = "local"
  /\ g.pc = "again" /\ ~g.raced => p = "remote"
  /\ g.pc \in {"retry", "failed"} /\ g.asked = {"local"} => g.raced

SourcesInv == SourcesTypeOK /\ \A c \in Callers : CallOK(gen[c], primary)

\* The steps that the service takes with its sources.
SourcesStep ==
  \/ UNCHANGED sources
  \/ \E c \in Callers : (Calls(c) \/ Probes(c) \/ Returns(c)) /\ UNCHANGED primary
  \/ \E c \in Callers : Generating(c)

LEMMA SourcesMoveByCalls == [Next]_vars => SourcesStep
<1>1. "ingest" \in Callers /\ "client" \in Callers
  BY RagAssumption
<1>. QED
  BY <1>1
  DEF Next, Ingesting, Searching, StartIngest, CutText, EndChunking, InsertDocument, AskVectors,
      TakeVectors, InsertChunk, InsertVector, MarkFailed, MarkIndexed, DeleteDocument,
      StartSearch, TakeVector, TakeQueryVector, TakeNoteVector, Rank, ReadChunk, EndSearch,
      StartEmbed, InsertNote, CheckSources, EndCheck, Request, vars, sources, SourcesStep

LEMMA SourcesTypes ==
  SourcesTypeOK <=> primary \in Sources \union {"nil"} /\ gen \in [Callers -> GenType]
  BY DEF SourcesTypeOK, GenType

LEMMA SourcesInvInit == SourcesInit => SourcesInv
<1>. SUFFICES ASSUME SourcesInit PROVE SourcesInv
  OBVIOUS
<1>1. Resting \in GenType
  BY DEF Resting, GenType, GenPcs
<1>2. SourcesTypeOK
  BY <1>1, SourcesTypes DEF SourcesInit
<1>. QED
  BY <1>2 DEF SourcesInv, SourcesInit, CallOK, Resting

\* A step of a call that leaves the field alone concerns its frame,
LEMMA CallGoesOn ==
  ASSUME SourcesInv, NEW c \in Callers, NEW g \in GenType, gen' = [gen EXCEPT ![c] = g],
         UNCHANGED primary, CallOK(g, primary)
  PROVE  SourcesInv'
<1>1. gen \in [Callers -> GenType]
  BY SourcesTypes DEF SourcesInv
<1>2. gen' \in [Callers -> GenType]
  BY <1>1
<1>3. SourcesTypeOK'
  BY <1>2, SourcesTypes DEF SourcesInv, SourcesTypeOK, GenType
<1>4. ASSUME NEW d \in Callers PROVE CallOK(gen'[d], primary')
  <2>1. CASE d = c
    <3>1. gen'[d] = g
      BY <1>1, <2>1
    <3>. QED
      BY <3>1
  <2>2. CASE d # c
    <3>1. gen'[d] = gen[d]
      BY <1>1, <2>2
    <3>. QED
      BY <3>1 DEF SourcesInv
  <2>. QED
    BY <2>1, <2>2
<1>. QED
  BY <1>3, <1>4 DEF SourcesInv

\* and one that moves the field races all the others.
LEMMA CallMovesPrimary ==
  ASSUME SourcesInv, NEW c \in Callers, NEW s \in Sources, NEW pc \in {"pick", "ok", "again"},
         Moves(c, s, pc),
         pc = "pick" => gen[c].asked = {},
         pc = "again" => s = "remote"
  PROVE  SourcesInv'
<1>1. gen \in [Callers -> GenType] /\ primary \in Sources \union {"nil"}
  BY SourcesTypes DEF SourcesInv
<1>2. primary' = s /\ s # "nil"
  BY DEF Moves, Sources
<1>3. ASSUME NEW d \in Callers PROVE gen'[d] \in GenType /\ CallOK(gen'[d], primary')
  <2>1. CASE d = c
    <3>1. PICK x \in GenType : x = gen[c]
      BY <1>1
    <3>2. gen'[d] = [x EXCEPT !.pc = pc]
      BY <2>1, <3>1 DEF Moves
    <3>3. gen'[d] \in GenType /\ gen'[d].pc = pc /\ gen'[d].asked = x.asked
      BY <3>2 DEF GenType, GenPcs
    <3>. QED
      BY <1>2, <3>1, <3>3 DEF CallOK
  <2>2. CASE d # c
    <3>1. PICK x \in GenType : x = gen[d]
      BY <1>1
    <3>2. PICK raced \in BOOLEAN : raced = (x.raced \/ (x.pc # "idle" /\ primary # s))
      OBVIOUS
    <3>3. gen'[d] = [x EXCEPT !.raced = raced]
      BY <2>2, <3>1, <3>2 DEF Moves
    <3>4. /\ gen'[d] \in GenType /\ gen'[d].pc = x.pc /\ gen'[d].asked = x.asked
          /\ gen'[d].raced = raced
      BY <3>3 DEF GenType
    <3>5. CallOK(x, primary)
      BY <3>1 DEF SourcesInv
    <3>. QED
      BY <1>2, <3>2, <3>4, <3>5 DEF CallOK
  <2>. QED
    BY <2>1, <2>2
<1>4. gen' \in [Callers -> GenType]
  <2>1. DOMAIN gen' = Callers /\ gen' = [d \in Callers |-> gen'[d]]
    BY DEF Moves
  <2>. QED
    BY <1>3, <2>1
<1>5. SourcesTypeOK'
  BY <1>2, <1>4 DEF SourcesTypeOK, GenType
<1>. QED
  BY <1>3, <1>5 DEF SourcesInv

\* Where a call goes without asking.
LEMMA CallGoesTo ==
  ASSUME SourcesInv, NEW c \in Callers, NEW pc \in GenPcs, GoesOn(c, pc),
         pc \in {"health local", "health remote", "pick"} => gen[c].asked = {},
         pc = "pick" => primary # "nil",
         pc \in {"health local", "health remote", "pick", "fall back", "failed"},
         pc = "fall back" => gen[c].pc = "ask",
         pc = "failed" /\ gen[c].asked = {"local"} => gen[c].raced
  PROVE  SourcesInv'
<1>1. gen \in [Callers -> GenType] /\ CallOK(gen[c], primary)
  BY SourcesTypes DEF SourcesInv
<1>2. [gen[c] EXCEPT !.pc = pc] \in GenType
  BY <1>1 DEF GenType
<1>3. PICK g \in GenType : g = [gen[c] EXCEPT !.pc = pc]
  BY <1>2
<1>4. g.pc = pc /\ g.asked = gen[c].asked /\ g.raced = gen[c].raced
  BY <1>1, <1>3 DEF GenType
<1>5. CallOK(g, primary)
  BY <1>1, <1>4 DEF CallOK
<1>6. gen' = [gen EXCEPT ![c] = g] /\ UNCHANGED primary
  BY <1>3 DEF GoesOn
<1>. QED
  BY <1>5, <1>6, CallGoesOn

LEMMA GeneratingKeepsInv ==
  ASSUME SourcesInv, NEW c \in Callers, Generating(c) PROVE SourcesInv'
<1>1. /\ gen \in [Callers -> GenType] /\ primary \in Sources \union {"nil"}
      /\ CallOK(gen[c], primary)
  BY SourcesTypes DEF SourcesInv
<1>2. ASSUME BeginGenerate(c) PROVE SourcesInv'
  <2>1. PICK pc \in {"health local", "pick"} :
               pc = IF primary = "nil" THEN "health local" ELSE "pick"
    OBVIOUS
  <2>2. GoesOn(c, pc) /\ gen[c].asked = {} /\ pc \in GenPcs
    BY <1>1, <1>2, <2>1 DEF BeginGenerate, CallOK, GenPcs
  <2>. QED
    BY <2>1, <2>2, CallGoesTo
<1>3. ASSUME NEW s \in Sources, Healthy(c, s), gen[c].asked = {} PROVE SourcesInv'
  <2>1. PICK pc \in {"ok", "pick"} : pc = IF gen[c].probing THEN "ok" ELSE "pick"
    OBVIOUS
  <2>. QED
    BY <1>3, <2>1, CallMovesPrimary DEF Healthy
<1>4. ASSUME CheckLocal(c) \/ CheckRemote(c) PROVE SourcesInv'
  <2>1. gen[c].asked = {}
    BY <1>1, <1>4 DEF CheckLocal, CheckRemote, CallOK
  <2>2. \/ Healthy(c, "local") \/ Healthy(c, "remote")
        \/ GoesOn(c, "health remote") \/ GoesOn(c, "failed")
    BY <1>4 DEF CheckLocal, CheckRemote
  <2>3. "health remote" \in GenPcs /\ "failed" \in GenPcs /\ Sources = {"local", "remote"}
    BY DEF GenPcs, Sources
  <2>. QED
    BY <1>3, <2>1, <2>2, <2>3, CallGoesTo
<1>5. ASSUME PickPrimary(c) PROVE SourcesInv'
  <2>1. gen[c].pc \in {"pick", "again"} /\ primary \in Sources
    BY <1>1, <1>5 DEF PickPrimary, CallOK
  <2>2. PICK pc \in {"ask", "retry"} : pc = IF gen[c].pc = "pick" THEN "ask" ELSE "retry"
    OBVIOUS
  <2>3. PICK x \in GenType : x = gen[c]
    BY <1>1
  <2>4. PICK asked \in SUBSET Sources : asked = x.asked \union {primary}
    BY <2>1, <2>3 DEF GenType
  <2>5. [x EXCEPT !.pc = pc, !.at = primary, !.asked = asked] \in GenType
    BY <2>1, <2>2 DEF GenType, GenPcs
  <2>6. PICK g \in GenType : g = [x EXCEPT !.pc = pc, !.at = primary, !.asked = asked]
    BY <2>5
  <2>7. g.pc = pc /\ g.asked = asked /\ g.raced = x.raced
    BY <2>6 DEF GenType
  <2>8. CallOK(g, primary)
    BY <1>1, <2>1, <2>2, <2>3, <2>4, <2>7 DEF CallOK
  <2>9. gen' = [gen EXCEPT ![c] = g] /\ UNCHANGED primary
    BY <1>1, <1>5, <2>2, <2>3, <2>4, <2>6 DEF PickPrimary
  <2>. QED
    BY <2>8, <2>9, CallGoesOn
<1>6. ASSUME Ask(c) PROVE SourcesInv'
  <2>1. CASE gen' = [gen EXCEPT ![c] = [Resting EXCEPT !.pc = "ok"]]
    <3>1. [Resting EXCEPT !.pc = "ok"] \in GenType
      BY DEF Resting, GenType, GenPcs
    <3>2. CallOK([Resting EXCEPT !.pc = "ok"], primary)
      BY DEF CallOK, Resting
    <3>. QED
      BY <1>6, <2>1, <3>1, <3>2, CallGoesOn DEF Ask
  <2>2. CASE gen' = [gen EXCEPT ![c].pc = IF @ = "ask" THEN "fall back" ELSE "failed"]
    <3>1. PICK pc \in {"fall back", "failed"} :
                 pc = IF gen[c].pc = "ask" THEN "fall back" ELSE "failed"
      OBVIOUS
    <3>2. GoesOn(c, pc) /\ pc \in GenPcs
      BY <1>6, <2>2, <3>1 DEF Ask, GoesOn, GenPcs
    <3>3. gen[c].pc \in {"ask", "retry"}
      BY <1>6 DEF Ask
    <3>. QED
      BY <1>1, <3>1, <3>2, <3>3, CallGoesTo DEF CallOK
  <2>. QED
    BY <1>6, <2>1, <2>2 DEF Ask
<1>7. ASSUME FallBack(c) PROVE SourcesInv'
  <2>1. CASE Moves(c, "remote", "again")
    BY <2>1, CallMovesPrimary DEF Sources
  <2>2. CASE primary # "local" /\ GoesOn(c, "failed")
    <3>1. gen[c].asked = {"local"} => gen[c].raced
      BY <1>1, <1>7, <2>2 DEF FallBack, CallOK
    <3>. QED
      BY <2>2, <3>1, CallGoesTo DEF GenPcs
  <2>. QED
    BY <1>7, <2>1, <2>2 DEF FallBack
<1>. QED
  BY <1>2, <1>4, <1>5, <1>6, <1>7 DEF Generating

LEMMA SourcesInvNext == SourcesInv /\ SourcesStep => SourcesInv'
<1>. SUFFICES ASSUME SourcesInv, SourcesStep PROVE SourcesInv'
  OBVIOUS
<1>0. Resting \in GenType
  BY DEF Resting, GenType, GenPcs
<1>1. ASSUME NEW c \in Callers, Calls(c), UNCHANGED primary PROVE SourcesInv'
  <2>1. PICK g \in GenType : g = [Resting EXCEPT !.pc = "begin"]
    BY DEF Resting, GenType, GenPcs
  <2>2. gen' = [gen EXCEPT ![c] = g]
    BY <1>1, <2>1 DEF Calls
  <2>3. CallOK(g, primary)
    BY <2>1 DEF CallOK, Resting
  <2>. QED
    BY <1>1, <2>2, <2>3, CallGoesOn
<1>2. ASSUME NEW c \in Callers, Probes(c), UNCHANGED primary PROVE SourcesInv'
  <2>1. PICK g \in GenType : g = [Resting EXCEPT !.pc = "health local", !.probing = TRUE]
    BY DEF Resting, GenType, GenPcs
  <2>2. gen' = [gen EXCEPT ![c] = g]
    BY <1>2, <2>1 DEF Probes
  <2>3. CallOK(g, primary)
    BY <2>1 DEF CallOK, Resting
  <2>. QED
    BY <1>2, <2>2, <2>3, CallGoesOn
<1>3. ASSUME NEW c \in Callers, Returns(c), UNCHANGED primary PROVE SourcesInv'
  BY <1>0, <1>3, CallGoesOn DEF Returns, CallOK, Resting
<1>4. CASE UNCHANGED sources
  BY <1>4 DEF sources, SourcesInv, SourcesTypeOK, CallOK
<1>. QED
  BY <1>1, <1>2, <1>3, <1>4, GeneratingKeepsInv DEF SourcesStep

LEMMA SourcesInvHolds == Spec => []SourcesInv
  BY SourcesInvInit, SourcesInvNext, SourcesMoveByCalls, PTL DEF Spec, Init

\* A request that failed after asking the local source alone was raced by
\* another one, however many sources fail and whoever else is asking.
THEOREM RequestsFailOver == Spec => []FailsOver
<1>1. SourcesInv => FailsOver
  BY DEF SourcesInv, CallOK, FailsOver
<1>. QED
  BY <1>1, SourcesInvHolds, PTL
====
