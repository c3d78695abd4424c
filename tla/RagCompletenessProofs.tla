---- MODULE RagCompletenessProofs ----
(***************************************************************************)
(* A document that is shown as indexed is complete, for any number of      *)
(* chunks and any size of a batch, unless a statement failed on the way;   *)
(* and what a search finds of it, and an Embed keeps, whatever else runs.  *)
(***************************************************************************)
EXTENDS RagProofs, FiniteSetTheorems

\* The chunks before number n are stored with their vectors.
StoredBelow(d, n) == \A i \in Nat : i < n => <<d, i>> \in chunkRows /\ <<d, i>> \in vectors

Storing == ingest.pc \in {"generate", "store", "vector", "index"}

\* Where the loop over batches and chunks is, while the document has its row.
Progress ==
  /\ ingest.pc \in {"chunk", "document"} => ingest.at = 0
  /\ ingest.pc = "document" => Count > 0
  /\ Storing /\ docs[Doc].status = "processing" =>
       /\ docs[Doc].count = Count
       /\ IF ingest.pc = "index" THEN ingest.at = Count ELSE ingest.at < Count
       /\ ingest.pc \in {"store", "vector"} => ingest.at < ingest.upto /\ ingest.upto <= Count
       /\ Doc \notin marred => /\ StoredBelow(Doc, ingest.at)
                               /\ ingest.pc = "vector" => <<Doc, ingest.at>> \in chunkRows

\* Of every document: what it counts, and what it has once it is indexed.
Counted == \A c \in chunkRows : c[2] < docs[c[1]].count
Complete ==
  \A d \in Docs : docs[d].status = "indexed" /\ d \notin marred => StoredBelow(d, docs[d].count)

StoreInv == Progress /\ Counted /\ Complete

LEMMA StoreInvInit == Init => StoreInv
  BY DEF Init, StoreInv, Progress, Storing, Counted, Complete, AtRest

\* The loop goes to the next chunk of the batch, the next batch or the end.
LEMMA NextChunkGoesOn ==
  ASSUME ChunkInv, DocsType, NextChunk, UNCHANGED out,
         ingest.at < ingest.upto, ingest.upto <= Count
  PROVE  /\ ingest'.at = ingest.at + 1 /\ ingest'.upto = ingest.upto /\ Storing'
         /\ ingest'.pc # "vector"
         /\ IF ingest'.pc = "index" THEN ingest'.at = Count' ELSE ingest'.at < Count'
         /\ ingest'.pc = "store" => ingest'.at < ingest'.upto
<1>. DEFINE pc == CASE ingest.at + 1 < ingest.upto -> "store"
                    [] ingest.at + 1 = ingest.upto /\ ingest.upto < Count -> "generate"
                    [] OTHER -> "index"
<1>0. ingest.at \in Nat /\ ingest.upto \in Nat /\ Count \in Nat /\ Count' = Count
  BY CountIsNat DEF DocsType, Count
<1>1. /\ pc \in {"store", "generate", "index"}
      /\ IF pc = "index" THEN ingest.at + 1 = Count ELSE ingest.at + 1 < Count
      /\ pc = "store" => ingest.at + 1 < ingest.upto
  BY <1>0
<1>2. ingest' = [ingest EXCEPT !.at = @ + 1, !.pc = pc]
  BY DEF NextChunk
<1>. HIDE DEF pc
<1>4. ingest' = [pc |-> pc, doc |-> ingest.doc, at |-> ingest.at + 1, upto |-> ingest.upto]
  BY <1>2 DEF DocsType
<1>. QED
  BY <1>0, <1>1, <1>4 DEF Storing

\* What the client and the chunker do leaves the invariant alone: they take
\* no row and no vector away.
LEMMA OthersKeepStoreInv ==
  ASSUME StoreInv, UNCHANGED <<docsSide, marred>>, vectors \subseteq vectors',
         UNCHANGED out \/ ingest.pc = "chunk"
  PROVE  StoreInv'
<1>1. Progress'
  <2>1. CASE UNCHANGED out
    BY <2>1 DEF StoreInv, Progress, Storing, StoredBelow, docsSide, Doc, Count
  <2>2. CASE ingest.pc = "chunk"
    BY <2>2 DEF StoreInv, Progress, Storing, docsSide
  <2>. QED
    BY <2>1, <2>2
<1>2. Counted' /\ Complete'
  BY DEF StoreInv, Counted, Complete, StoredBelow, docsSide
<1>. QED
  BY <1>1, <1>2 DEF StoreInv

LEMMA OthersOnlyAdd ==
  ASSUME \/ AskVectors \/ CheckSources \/ Searching \/ CutText
         \/ (\E t \in Tenants : StartSearch(t))
         \/ (\E t \in Writers, n \in Versions \ {0} : StartEmbed(t, n))
         \/ (\E c \in Callers : Request(c))
         \/ UNCHANGED vars
  PROVE  /\ UNCHANGED marred /\ vectors \subseteq vectors'
         /\ UNCHANGED out \/ ingest.pc = "chunk"
  BY DEF AskVectors, CheckSources, Searching, CutText, StartSearch, StartEmbed, Request, TakeVector,
         TakeQueryVector, TakeNoteVector, Rank, ReadChunk, EndSearch, InsertNote, EndCheck,
         tables, past, vars, chunking

LEMMA StoreInvNext ==
  ChunkInv /\ DocsInv /\ StoreInv /\ [Next]_vars => StoreInv'
<1>. SUFFICES ASSUME ChunkInv, DocsInv, StoreInv, [Next]_vars PROVE StoreInv'
  OBVIOUS
<1>0. /\ DocsType /\ InHand /\ ChunksHaveDocuments /\ Progress /\ Counted /\ Complete
      /\ Count \in Nat /\ ingest.at \in Nat /\ ingest.upto \in Nat
  BY CountIsNat DEF DocsInv, StoreInv, DocsType
<1>1. ASSUME NEW d \in Docs, NEW t \in Texts, StartIngest(d, t) PROVE StoreInv'
  <2>1. ingest'.pc = "chunk" /\ ingest'.at = 0 /\ UNCHANGED <<docs, chunkRows, vectors, marred>>
    BY <1>1 DEF StartIngest, AtRest, tables, past
  <2>. QED
    BY <1>0, <2>1 DEF StoreInv, Progress, Storing, Counted, Complete, StoredBelow
<1>2. CASE EndChunking
  <2>1. UNCHANGED <<docs, chunkRows, vectors, marred>>
    BY <1>2 DEF EndChunking, tables
  <2>2. Counted' /\ Complete'
    BY <1>0, <2>1 DEF Counted, Complete, StoredBelow
  <2>3. CASE out.chunks = <<>>
    BY <1>2, <2>2, <2>3 DEF EndChunking, ReturnFromIngest, AtRest, StoreInv, Progress, Storing
  <2>4. CASE out.chunks # <<>>
    <3>1. ingest'.pc = "document" /\ ingest'.at = 0 /\ Count' = Count
      BY <1>0, <1>2, <2>4 DEF EndChunking, chunking, Count, DocsType, Progress
    <3>2. Count > 0
      <4>1. out.chunks \in Seq(Pieces)
        BY DEF ChunkInv, ChunksOK
      <4>. QED
        BY <2>4, <4>1 DEF Count
    <3>. QED
      BY <2>2, <3>1, <3>2 DEF StoreInv, Progress, Storing
  <2>. QED
    BY <2>3, <2>4
<1>3. CASE InsertDocument
  <2>1. /\ UNCHANGED <<chunkRows, vectors, marred>> /\ ingest.pc = "document" /\ Doc \in Docs
        /\ docs[Doc].status = "absent"
    BY <1>0, <1>3 DEF InsertDocument, InHand
  <2>2. PICK o \in Outcomes :
          /\ docs' = IF o.applied THEN [docs EXCEPT ![Doc] = [status |-> "processing", count |-> Count]]
                     ELSE docs
          /\ IF o.ok THEN ingest' = [ingest EXCEPT !.pc = "generate"] /\ UNCHANGED <<chunking, told>>
             ELSE ReturnFromIngest("error")
    BY <1>3 DEF InsertDocument
  <2>3. \A c \in chunkRows : c[1] # Doc
    BY <1>0, <2>1 DEF ChunksHaveDocuments, Present
  <2>4. Counted' /\ Complete'
    BY <1>0, <2>1, <2>2, <2>3 DEF Counted, Complete, StoredBelow, DocsType
  <2>5. Progress'
    <3>1. CASE o.ok
      <4>1. /\ docs' = [docs EXCEPT ![Doc] = [status |-> "processing", count |-> Count]]
            /\ ingest' = [ingest EXCEPT !.pc = "generate"] /\ UNCHANGED out
        BY <2>2, <3>1, OutcomesAreHonest DEF chunking
      <4>2. Count > 0 /\ Count' = Count /\ ingest'.at = ingest.at /\ ingest'.pc = "generate" /\ Doc' = Doc
        BY <1>0, <2>1, <4>1 DEF Progress, Count, Doc, DocsType
      <4>3. docs'[Doc].count = Count
        BY <1>0, <2>1, <4>1 DEF DocsType
      <4>4. ingest.at = 0
        BY <1>0, <2>1 DEF Progress
      <4>. QED
        BY <4>2, <4>3, <4>4 DEF Progress, Storing, StoredBelow
    <3>2. CASE ~o.ok
      BY <2>2, <3>2 DEF ReturnFromIngest, AtRest, Progress, Storing
    <3>. QED
      BY <3>1, <3>2
  <2>. QED
    BY <2>4, <2>5 DEF StoreInv
<1>4. CASE TakeVectors
  <2>1. /\ UNCHANGED <<docs, chunkRows, vectors, marred, out>> /\ ingest.pc = "generate"
        /\ \/ ingest' = [ingest EXCEPT !.pc = "fail"]
           \/ ingest' = [ingest EXCEPT !.pc = "store", !.upto = Smaller(ingest.at + BatchSize, Count)]
    BY <1>4 DEF TakeVectors, tables, past, chunking
  <2>2. Counted' /\ Complete'
    BY <1>0, <2>1 DEF Counted, Complete, StoredBelow
  <2>3. CASE ingest' = [ingest EXCEPT !.pc = "fail"]
    BY <1>0, <2>2, <2>3 DEF DocsType, StoreInv, Progress, Storing
  <2>4. CASE ingest' = [ingest EXCEPT !.pc = "store", !.upto = Smaller(ingest.at + BatchSize, Count)]
    <3>. DEFINE u == Smaller(ingest.at + BatchSize, Count)
    <3>1. u \in Nat /\ u <= Count /\ (ingest.at < Count => ingest.at < u)
      BY <1>0, RagAssumption DEF Smaller
    <3>. HIDE DEF u
    <3>2. /\ ingest'.pc = "store" /\ ingest'.at = ingest.at /\ ingest'.upto = u /\ Doc' = Doc
          /\ Count' = Count
      BY <1>0, <2>1, <2>4 DEF DocsType, Doc, Count, u
    <3>3. Progress'
      BY <1>0, <2>1, <3>1, <3>2 DEF Progress, Storing, StoredBelow
    <3>. QED
      BY <2>2, <3>3 DEF StoreInv
  <2>. QED
    BY <2>1, <2>3, <2>4
<1>5. CASE InsertChunk
  <2>1. PICK o \in OutcomesIf(Present(Doc)) :
          /\ chunkRows' = IF o.applied THEN chunkRows \union {<<Doc, ingest.at>>} ELSE chunkRows
          /\ IF o.ok THEN ingest' = [ingest EXCEPT !.pc = "vector"] ELSE NextChunk
          /\ Mar(o)
    BY <1>5 DEF InsertChunk
  <2>2. /\ UNCHANGED <<docs, vectors, out>> /\ ingest.pc = "store" /\ Doc \in Docs
        /\ docs[Doc].status \in {"processing", "gone"}
    BY <1>0, <1>5 DEF InsertChunk, InHand, chunking
  <2>3. /\ chunkRows \subseteq chunkRows' /\ marred \subseteq marred'
        /\ o.ok \/ Doc \in marred'
    BY <2>1 DEF Mar
  <2>4. Complete'
    BY <1>0, <2>2, <2>3 DEF Complete, StoredBelow
  <2>5. Counted'
    <3>1. o.applied => docs[Doc].status = "processing"
      BY <2>2 DEF OutcomesIf, Refused, Present
    <3>2. o.applied => ingest.at < docs[Doc].count
      BY <1>0, <2>2, <3>1 DEF Progress, Storing
    <3>. QED
      BY <1>0, <2>1, <2>2, <3>2 DEF Counted
  <2>6. ASSUME docs[Doc].status = "processing" PROVE Progress'
    <3>1. /\ docs[Doc].count = Count /\ ingest.at < Count
          /\ ingest.at < ingest.upto /\ ingest.upto <= Count
          /\ Doc \notin marred => StoredBelow(Doc, ingest.at)
      BY <1>0, <2>2, <2>6 DEF Progress, Storing
    <3>2. CASE o.ok
      <4>1. o.applied
        BY <3>2, <2>6, OutcomesAreHonest DEF OutcomesIf, Present
      <4>2. ingest' = [ingest EXCEPT !.pc = "vector"] /\ <<Doc, ingest.at>> \in chunkRows'
        BY <2>1, <3>2, <4>1
      <4>3. /\ ingest'.pc = "vector" /\ ingest'.at = ingest.at /\ ingest'.upto = ingest.upto
            /\ Doc' = Doc /\ Count' = Count
        BY <1>0, <2>2, <4>2 DEF DocsType, Doc, Count
      <4>. QED
        BY <2>2, <2>3, <3>1, <4>2, <4>3 DEF Progress, Storing, StoredBelow
    <3>3. CASE ~o.ok
      <4>1. NextChunk /\ Doc \in marred'
        BY <2>1, <2>3, <3>3
      <4>2. Doc' = Doc /\ Count' = Count
        BY <1>0, <2>2, <4>1, NextChunkType DEF Doc, Count
      <4>3. /\ Storing' /\ ingest'.pc # "vector" /\ ingest'.pc \notin {"chunk", "document"}
            /\ IF ingest'.pc = "index" THEN ingest'.at = Count' ELSE ingest'.at < Count'
            /\ ingest'.pc = "store" => ingest'.at < ingest'.upto /\ ingest'.upto <= Count
        BY <1>0, <2>2, <3>1, <4>1, NextChunkGoesOn DEF Storing
      <4>. QED
        BY <2>2, <3>1, <4>1, <4>2, <4>3 DEF Progress
    <3>. QED
      BY <3>2, <3>3
  <2>7. ASSUME docs[Doc].status = "gone" PROVE Progress'
    <3>1. /\ ingest'.doc = ingest.doc
          /\ ingest'.pc \in {"store", "generate", "index", "vector"}
      BY <1>0, <2>1, NextChunkType DEF DocsType
    <3>. QED
      BY <2>2, <2>7, <3>1 DEF Progress, Doc
  <2>. QED
    BY <2>2, <2>4, <2>5, <2>6, <2>7 DEF StoreInv
<1>6. CASE InsertVector
  <2>1. PICK o \in Outcomes :
          /\ vectors' = IF o.applied THEN vectors \union {<<Doc, ingest.at>>} ELSE vectors
          /\ Mar(o)
    BY <1>6 DEF InsertVector
  <2>2. /\ UNCHANGED <<docs, chunkRows, out>> /\ ingest.pc = "vector" /\ NextChunk /\ Doc \in Docs
        /\ docs[Doc].status \in {"processing", "gone"}
    BY <1>0, <1>6 DEF InsertVector, InHand, chunking
  <2>3. /\ vectors \subseteq vectors' /\ marred \subseteq marred'
        /\ Doc \in marred' \/ <<Doc, ingest.at>> \in vectors'
    BY <2>1, OutcomesAreHonest DEF Mar
  <2>4. Complete' /\ Counted'
    BY <1>0, <2>2, <2>3 DEF Complete, Counted, StoredBelow
  <2>5. ASSUME docs[Doc].status = "processing" PROVE Progress'
    <3>1. /\ docs[Doc].count = Count
          /\ ingest.at < ingest.upto /\ ingest.upto <= Count
          /\ Doc \notin marred => /\ StoredBelow(Doc, ingest.at)
                                  /\ <<Doc, ingest.at>> \in chunkRows
      BY <1>0, <2>2, <2>5 DEF Progress, Storing
    <3>2. Doc' = Doc /\ Count' = Count
      BY <1>0, <2>2, NextChunkType DEF Doc, Count
    <3>3. /\ Storing' /\ ingest'.pc # "vector" /\ ingest'.pc \notin {"chunk", "document"}
          /\ ingest'.at = ingest.at + 1
          /\ IF ingest'.pc = "index" THEN ingest'.at = Count' ELSE ingest'.at < Count'
          /\ ingest'.pc = "store" => ingest'.at < ingest'.upto /\ ingest'.upto <= Count
      BY <1>0, <2>2, <3>1, NextChunkGoesOn DEF Storing
    <3>4. Doc' \notin marred' => StoredBelow(Doc, ingest.at)'
      <4>1. \A i \in Nat : i < ingest'.at => i < ingest.at \/ i = ingest.at
        BY <1>0, <3>3
      <4>. QED
        BY <2>2, <2>3, <3>1, <3>2, <4>1 DEF StoredBelow
    <3>. QED
      BY <2>2, <3>1, <3>2, <3>3, <3>4 DEF Progress
  <2>6. ASSUME docs[Doc].status = "gone" PROVE Progress'
    <3>1. ingest'.doc = ingest.doc /\ ingest'.pc \in {"store", "generate", "index"}
      BY <1>0, <2>2, NextChunkType
    <3>. QED
      BY <2>2, <2>6, <3>1 DEF Progress, Doc
  <2>. QED
    BY <2>2, <2>4, <2>5, <2>6 DEF StoreInv
<1>7. CASE MarkFailed
  <2>1. /\ UNCHANGED <<chunkRows, vectors, marred>> /\ Doc \in Docs /\ ingest' = AtRest
        /\ SetStatus(Doc, "failed") \/ UNCHANGED docs
    BY <1>0, <1>7 DEF MarkFailed, InHand, ReturnFromIngest
  <2>2. Progress'
    BY <2>1 DEF Progress, Storing, AtRest
  <2>3. Complete' /\ Counted'
    BY <1>0, <2>1 DEF Complete, Counted, StoredBelow, SetStatus, DocsType
  <2>. QED
    BY <2>2, <2>3 DEF StoreInv
<1>8. CASE MarkIndexed
  <2>1. /\ UNCHANGED <<chunkRows, vectors, marred>> /\ Doc \in Docs /\ ingest' = AtRest
        /\ ingest.pc = "index" /\ docs[Doc].status \in {"processing", "gone"}
        /\ SetStatus(Doc, "indexed") \/ UNCHANGED docs
    BY <1>0, <1>8 DEF MarkIndexed, InHand, ReturnFromIngest
  <2>2. Progress'
    BY <2>1 DEF Progress, Storing, AtRest
  <2>3. Counted'
    BY <1>0, <2>1 DEF Counted, SetStatus, DocsType
  <2>4. docs[Doc].status = "processing" /\ Doc \notin marred => StoredBelow(Doc, docs[Doc].count)
    BY <1>0, <2>1 DEF Progress, Storing
  <2>5. Complete'
    BY <1>0, <2>1, <2>4 DEF Complete, StoredBelow, SetStatus, Present, DocsType
  <2>. QED
    BY <2>2, <2>3, <2>5 DEF StoreInv
<1>9. ASSUME NEW d \in Docs, NEW t \in Tenants, DeleteDocument(d, t) PROVE StoreInv'
  <2>1. /\ docs' = [docs EXCEPT ![d].status = "gone"] /\ UNCHANGED <<ingest, vectors, marred, out>>
        /\ chunkRows' = {c \in chunkRows : c[1] # d}
    BY <1>9 DEF DeleteDocument, past, chunking
  <2>2. Complete' /\ Counted'
    BY <1>0, <2>1 DEF Complete, Counted, StoredBelow, DocsType
  <2>3. Progress'
    <3>1. CASE Doc = d
      BY <1>0, <2>1, <3>1 DEF Progress, Storing, Doc, Count, DocsType
    <3>2. CASE Doc # d
      BY <1>0, <2>1, <3>2 DEF Progress, Storing, Doc, Count, StoredBelow, DocsType
    <3>. QED
      BY <3>1, <3>2
  <2>. QED
    BY <2>2, <2>3 DEF StoreInv
<1>10. ASSUME \/ AskVectors \/ CheckSources \/ Searching \/ CutText
              \/ (\E t \in Tenants : StartSearch(t))
              \/ (\E t \in Writers, n \in Versions \ {0} : StartEmbed(t, n))
              \/ (\E c \in Callers : Request(c))
              \/ UNCHANGED vars
       PROVE  StoreInv'
  <2>1. UNCHANGED docsSide
    BY <1>10, ClientKeepsDocs
  <2>2. UNCHANGED marred /\ vectors \subseteq vectors' /\ (UNCHANGED out \/ ingest.pc = "chunk")
    BY <1>10, OthersOnlyAdd
  <2>. QED
    BY <2>1, <2>2, OthersKeepStoreInv
<1>. QED
  BY <1>1, <1>2, <1>3, <1>4, <1>5, <1>6, <1>7, <1>8, <1>9, <1>10 DEF Next, Ingesting

LEMMA StoreInvHolds == Spec => []StoreInv
  BY InvHolds, StoreInvInit, StoreInvNext, PTL DEF Spec

LEMMA CompleteIsIndexed == ASSUME DocsInv, StoreInv PROVE IndexedIsComplete
<1>1. \A d \in Docs : docs[d].count \in Nat
  BY DEF DocsInv, DocsType
<1>2. \A c \in chunkRows : c = <<c[1], c[2]>> /\ c[1] \in Docs /\ c[2] \in Nat
  BY DEF DocsInv, DocsType
<1>3. ASSUME NEW d \in Docs, NEW c \in chunkRows, c[1] = d PROVE c \in ChunksOf(d)
  <2>1. c[2] \in 0 .. (docs[d].count - 1)
    BY <1>1, <1>2, <1>3 DEF StoreInv, Counted
  <2>. QED
    BY <1>2, <1>3, <2>1 DEF ChunksOf
<1>4. ASSUME NEW d \in Docs, docs[d].status = "indexed", d \notin marred
      PROVE  ChunksOf(d) \subseteq chunkRows \intersect vectors
  BY <1>1, <1>4 DEF StoreInv, Complete, StoredBelow, ChunksOf
<1>. QED
  BY <1>3, <1>4 DEF IndexedIsComplete

\* A document shown as indexed has every chunk and every vector, whatever its
\* length and the size of the batches, unless a statement for one of them
\* failed; and no document has a chunk that it does not count.
THEOREM IndexedMeansComplete == Spec => []IndexedIsComplete
  BY InvHolds, StoreInvHolds, CompleteIsIndexed, PTL

----
(* Searches and notes *)

Ids == (Docs \X Nat) \union (Tenants \X {Note})

Clients == [pc : {"idle", "search", "rank", "read", "embed", "store", "check"},
            tenant : Tenants \union {Nothing}, left : SUBSET Ids, found : SUBSET (Docs \X Nat),
            arg : Versions, saw : [Docs -> Statuses], cut : BOOLEAN]

TablesType ==
  /\ vectors \subseteq Ids /\ IsFiniteSet(vectors) /\ marred \subseteq Docs
  /\ notes \in [Tenants -> Versions] /\ kept \in [Tenants -> Versions]

ClientType ==
  client \in Clients /\ (client.pc \notin {"idle", "check"} => client.tenant \in Tenants)

\* A note that is known to be stored has its vector, so no other gets its id.
NotesInv == \A t \in Tenants : kept[t] # 0 => <<t, Note>> \in vectors /\ notes[t] = kept[t]

\* A document that was gone or indexed when the search began is gone for good,
\* or indexed until it is.
SawInv ==
  \A d \in Docs :
    /\ client.saw[d] = "gone" => docs[d].status = "gone"
    /\ client.saw[d] = "indexed" => docs[d].status \in {"indexed", "gone"}

\* The results that are still to read and those that were.
ResultsInv ==
  /\ \A v \in client.left : OwnerOf(v) = client.tenant
  /\ \A v \in client.found : Owner[v[1]] = client.tenant /\ client.saw[v[1]] # "gone"
  /\ IsFiniteSet(client.left) /\ IsFiniteSet(client.found)
  /\ Cardinality(client.left) + Cardinality(client.found) <= TopK
  /\ client.left \subseteq vectors

OnlyWhenReading == client.pc # "read" => client.left = {} /\ client.found = {}

\* What a search with room enough has found already it has, and the rest it is
\* going to read.
Expected(d) ==
  /\ Owner[d] = client.tenant /\ d \notin marred
  /\ client.saw[d] = "indexed" /\ docs[d].status = "indexed"

ThoroughInv ==
  client.pc = "read" /\ ~client.cut /\ Cardinality(Rankable(client.tenant)) <= TopK =>
    \A d \in Docs : Expected(d) => ChunksOf(d) \subseteq client.left \union client.found

ClientInv ==
  TablesType /\ ClientType /\ NotesInv /\ SawInv /\ ResultsInv /\ OnlyWhenReading /\ ThoroughInv

\* A status is left in one way: a document that is indexed is so until it is
\* gone, and counts the same chunks.
StatusMoves ==
  \A d \in Docs :
    /\ docs[d].status = "gone" => docs'[d].status = "gone"
    /\ docs[d].status = "indexed" =>
         docs'[d].status \in {"indexed", "gone"} /\ docs'[d].count = docs[d].count

LEMMA StatusesMove == ASSUME DocsInv, [Next]_vars PROVE StatusMoves
<1>0. DocsType /\ InHand
  BY DEF DocsInv
<1>1. CASE UNCHANGED docs
  BY <1>1 DEF StatusMoves
<1>2. CASE InsertDocument
  <2>1. docs[Doc].status = "absent" /\ Doc \in Docs
    BY <1>0, <1>2 DEF InsertDocument, InHand
  <2>2. \A d \in Docs \ {Doc} : docs'[d] = docs[d]
    BY <1>0, <1>2 DEF InsertDocument, DocsType
  <2>. QED
    BY <2>1, <2>2 DEF StatusMoves
<1>3. ASSUME NEW s \in {"failed", "indexed"}, SetStatus(Doc, s), ingest.pc \in {"fail", "index"}
      PROVE  StatusMoves
  <2>1. docs[Doc].status \in {"processing", "gone"} /\ Doc \in Docs
    BY <1>0, <1>3 DEF InHand
  <2>2. docs[Doc].status = "gone" => docs'[Doc].status = "gone"
    BY <1>0, <1>3, <2>1 DEF SetStatus, Present, DocsType
  <2>3. \A d \in Docs \ {Doc} : docs'[d] = docs[d]
    BY <1>0, <1>3 DEF SetStatus, DocsType
  <2>. QED
    BY <2>1, <2>2, <2>3 DEF StatusMoves
<1>4. ASSUME NEW d \in Docs, NEW t \in Tenants, DeleteDocument(d, t) PROVE StatusMoves
  <2>1. docs' = [docs EXCEPT ![d].status = "gone"]
    BY <1>4 DEF DeleteDocument
  <2>. QED
    BY <1>0, <2>1 DEF StatusMoves, DocsType
<1>5. \/ UNCHANGED docs
      \/ InsertDocument
      \/ ingest.pc \in {"fail", "index"} /\ \E s \in {"failed", "indexed"} : SetStatus(Doc, s)
      \/ \E d \in Docs, t \in Tenants : DeleteDocument(d, t)
  BY DEF Next, Ingesting, Searching, StartIngest, CutText, EndChunking, AskVectors, TakeVectors,
         InsertChunk, InsertVector, MarkFailed, MarkIndexed, StartSearch, TakeVector,
         TakeQueryVector, TakeNoteVector, Rank, ReadChunk, EndSearch, StartEmbed, InsertNote,
         CheckSources, EndCheck, Request, vars, tables
<1>. QED
  BY <1>1, <1>2, <1>3, <1>4, <1>5

\* Vectors are added one at a time, and what is marred stays so.
Grow ==
  /\ vectors \subseteq vectors' /\ marred \subseteq marred'
  /\ vectors' \subseteq Ids /\ IsFiniteSet(vectors') /\ marred' \subseteq Docs

LEMMA TablesGrow ==
  ASSUME DocsInv, TablesType, ClientType, [Next]_vars PROVE Grow
<1>0. DocsType /\ InHand
  BY DEF DocsInv
<1>1. \/ UNCHANGED vectors
      \/ ingest.pc = "vector" /\ vectors' = vectors \union {<<Doc, ingest.at>>}
      \/ client.pc = "store" /\ vectors' = vectors \union {<<client.tenant, Note>>}
  BY DEF Next, Ingesting, Searching, StartIngest, CutText, EndChunking, InsertDocument, AskVectors,
         TakeVectors, InsertChunk, InsertVector, MarkFailed, MarkIndexed, DeleteDocument,
         StartSearch, TakeVector, TakeQueryVector, TakeNoteVector, Rank, ReadChunk, EndSearch,
         StartEmbed, InsertNote, CheckSources, EndCheck, Request, vars, tables
<1>2. UNCHANGED marred \/ (ingest.pc \in {"store", "vector"} /\ marred' = marred \union {Doc})
  BY DEF Next, Ingesting, Searching, StartIngest, CutText, EndChunking, InsertDocument, AskVectors,
         TakeVectors, InsertChunk, InsertVector, MarkFailed, MarkIndexed, DeleteDocument,
         StartSearch, TakeVector, TakeQueryVector, TakeNoteVector, Rank, ReadChunk, EndSearch,
         StartEmbed, InsertNote, CheckSources, EndCheck, Request, vars, past, Mar
<1>3. ingest.pc = "vector" => <<Doc, ingest.at>> \in Ids
  BY <1>0 DEF InHand, DocsType, Ids
<1>4. client.pc = "store" => <<client.tenant, Note>> \in Ids
  BY DEF ClientType, Ids
<1>5. ASSUME NEW v \in Ids, vectors' = vectors \union {v}
      PROVE  vectors' \subseteq Ids /\ IsFiniteSet(vectors')
  BY <1>5, FS_AddElement DEF TablesType
<1>6. vectors \subseteq vectors' /\ vectors' \subseteq Ids /\ IsFiniteSet(vectors')
  <2>1. CASE UNCHANGED vectors
    BY <2>1 DEF TablesType
  <2>2. CASE ingest.pc = "vector" /\ vectors' = vectors \union {<<Doc, ingest.at>>}
    BY <1>3, <1>5, <2>2
  <2>3. CASE client.pc = "store" /\ vectors' = vectors \union {<<client.tenant, Note>>}
    BY <1>4, <1>5, <2>3
  <2>. QED
    BY <1>1, <2>1, <2>2, <2>3
<1>7. marred \subseteq marred' /\ marred' \subseteq Docs
  BY <1>0, <1>2 DEF InHand, TablesType
<1>. QED
  BY <1>6, <1>7 DEF Grow

LEMMA ClientInvInit == Init => ClientInv
<1>. SUFFICES ASSUME Init PROVE ClientInv
  OBVIOUS
<1>1. /\ client.pc = "idle" /\ client.left = {} /\ client.found = {}
      /\ \A d \in Docs : client.saw[d] = "absent"
  BY DEF Init, Free
<1>2. TablesType /\ ClientType /\ NotesInv
  BY FS_EmptySet DEF Init, Free, TablesType, ClientType, Clients, Ids, NotesInv, Versions, Statuses
<1>3. ResultsInv
  BY <1>1, FS_EmptySet, RagAssumption DEF ResultsInv
<1>. QED
  BY <1>1, <1>2, <1>3 DEF ClientInv, SawInv, OnlyWhenReading, ThoroughInv

\* Whatever others do while the client rests leaves its search sound,
LEMMA OthersKeepSearch ==
  ASSUME ClientInv, StatusMoves, Grow, UNCHANGED client
  PROVE  (ClientType /\ SawInv /\ ResultsInv /\ OnlyWhenReading)'
<1>1. SawInv'
  BY DEF ClientInv, SawInv, StatusMoves
<1>2. ResultsInv'
  BY DEF ClientInv, ResultsInv, Grow, OwnerOf
<1>. QED
  BY <1>1, <1>2 DEF ClientInv, ClientType, OnlyWhenReading

\* and thorough: more vectors take places and give none back, and a document
\* that is still indexed has the chunks it had.
LEMMA OthersKeepThorough ==
  ASSUME ClientInv, StatusMoves, Grow, UNCHANGED client
  PROVE  ThoroughInv'
<1>. SUFFICES ASSUME client.pc = "read", ~client.cut,
                     Cardinality(Rankable(client.tenant)') <= TopK,
                     NEW d \in Docs, Expected(d)'
              PROVE  ChunksOf(d)' \subseteq client.left \union client.found
  BY DEF ThoroughInv, Rankable
<1>1. docs[d].status = "indexed" /\ docs'[d].count = docs[d].count
  BY DEF Expected, ClientInv, SawInv, StatusMoves
<1>2. Expected(d) /\ ChunksOf(d)' = ChunksOf(d)
  BY <1>1 DEF Expected, Grow, ChunksOf
<1>3. Rankable(client.tenant) \subseteq Rankable(client.tenant)'
  BY DEF Rankable, Grow, OwnerOf
<1>4. IsFiniteSet(Rankable(client.tenant)')
  <2>1. Rankable(client.tenant)' \subseteq vectors' /\ IsFiniteSet(vectors')
    BY DEF Rankable, Grow
  <2>. QED
    BY <2>1, FS_Subset
<1>5. /\ Cardinality(Rankable(client.tenant)) <= Cardinality(Rankable(client.tenant)')
      /\ IsFiniteSet(Rankable(client.tenant))
  BY <1>3, <1>4, FS_Subset
<1>6. Cardinality(Rankable(client.tenant)) \in Nat /\ Cardinality(Rankable(client.tenant)') \in Nat
  BY <1>4, <1>5, FS_CardinalityType
<1>7. Cardinality(Rankable(client.tenant)) <= TopK
  BY <1>5, <1>6, RagAssumption
<1>. QED
  BY <1>2, <1>7 DEF ClientInv, ThoroughInv

\* A client that is not reading has no results.
LEMMA NoResults ==
  ASSUME client' \in Clients, client'.pc # "read", client'.left = {}, client'.found = {}
  PROVE  (ResultsInv /\ OnlyWhenReading /\ ThoroughInv)'
<1>1. ResultsInv'
  BY FS_EmptySet, RagAssumption DEF ResultsInv
<1>. QED
  BY <1>1 DEF OnlyWhenReading, ThoroughInv

\* Who moves the client, and who touches the notes.
LEMMA ClientMoves ==
  ASSUME [Next]_vars
  PROVE  /\ \/ UNCHANGED client
            \/ /\ UNCHANGED <<docs, chunkRows, marred>>
               /\ \/ TakeQueryVector \/ TakeNoteVector \/ CheckSources \/ Rank
                  \/ client' = Free
                  \/ \E t \in Tenants : StartSearch(t)
                  \/ \E t \in Writers, n \in Versions \ {0} : StartEmbed(t, n)
                  \/ \E v \in client.left : ReadChunk(v)
         /\ UNCHANGED <<notes, kept>> \/ InsertNote
<1>1. \/ UNCHANGED client
      \/ /\ UNCHANGED <<docs, chunkRows, marred>>
         /\ \/ TakeQueryVector \/ TakeNoteVector \/ CheckSources \/ Rank
            \/ client' = Free
            \/ \E t \in Tenants : StartSearch(t)
            \/ \E t \in Writers, n \in Versions \ {0} : StartEmbed(t, n)
            \/ \E v \in client.left : ReadChunk(v)
  BY DEF Next, Ingesting, Searching, StartIngest, CutText, EndChunking, InsertDocument, AskVectors,
         TakeVectors, InsertChunk, InsertVector, MarkFailed, MarkIndexed, DeleteDocument,
         StartSearch, TakeVector, TakeQueryVector, TakeNoteVector, Rank, ReadChunk, EndSearch,
         StartEmbed, InsertNote, CheckSources, EndCheck, Request, vars, past, tables
<1>2. UNCHANGED <<notes, kept>> \/ InsertNote
  BY DEF Next, Ingesting, Searching, StartIngest, CutText, EndChunking, InsertDocument, AskVectors,
         TakeVectors, InsertChunk, InsertVector, MarkFailed, MarkIndexed, DeleteDocument,
         StartSearch, TakeVector, TakeQueryVector, TakeNoteVector, Rank, ReadChunk, EndSearch,
         StartEmbed, CheckSources, EndCheck, Request, vars, past, tables
<1>. QED
  BY <1>1, <1>2

\* A note that is stored keeps its text: an id is inserted once.
LEMMA NotesKept ==
  ASSUME ClientInv, Grow, UNCHANGED <<notes, kept>> \/ InsertNote
  PROVE  NotesInv' /\ notes' \in [Tenants -> Versions] /\ kept' \in [Tenants -> Versions]
<1>0. /\ NotesInv /\ notes \in [Tenants -> Versions] /\ kept \in [Tenants -> Versions]
      /\ vectors \subseteq vectors'
  BY DEF ClientInv, TablesType, Grow
<1>1. CASE UNCHANGED <<notes, kept>>
  BY <1>0, <1>1 DEF NotesInv
<1>2. CASE InsertNote
  <2>1. PICK t \in Tenants : t = client.tenant
    BY <1>2 DEF InsertNote, ClientInv, ClientType
  <2>2. PICK n \in Versions : n = client.arg
    BY DEF ClientInv, ClientType, Clients
  <2>3. PICK o \in OutcomesIf(<<t, Note>> \notin vectors) :
          /\ vectors' = IF o.applied THEN vectors \union {<<t, Note>>} ELSE vectors
          /\ notes' = IF o.applied THEN [notes EXCEPT ![t] = n] ELSE notes
          /\ kept' = IF o.ok THEN [kept EXCEPT ![t] = n] ELSE kept
    BY <1>2, <2>1, <2>2 DEF InsertNote
  <2>4. (o.ok => o.applied) /\ (o.applied => <<t, Note>> \notin vectors)
    BY OutcomesAreHonest DEF OutcomesIf, Refused
  <2>5. notes' \in [Tenants -> Versions] /\ kept' \in [Tenants -> Versions]
    BY <1>0, <2>3
  <2>6. ASSUME NEW u \in Tenants, kept'[u] # 0
        PROVE  <<u, Note>> \in vectors' /\ notes'[u] = kept'[u]
    <3>1. CASE u # t
      <4>1. notes'[u] = notes[u] /\ kept'[u] = kept[u]
        BY <1>0, <2>3, <3>1
      <4>. QED
        BY <1>0, <2>6, <4>1 DEF NotesInv
    <3>2. CASE u = t /\ o.ok
      BY <1>0, <2>3, <2>4, <3>2
    <3>3. CASE u = t /\ ~o.ok
      <4>1. kept[t] # 0 /\ kept' = kept
        BY <2>3, <2>6, <3>3
      <4>2. <<t, Note>> \in vectors /\ notes[t] = kept[t]
        BY <1>0, <4>1 DEF NotesInv
      <4>. QED
        BY <2>3, <2>4, <3>3, <4>1, <4>2
    <3>. QED
      BY <3>1, <3>2, <3>3
  <2>. QED
    BY <2>5, <2>6 DEF NotesInv
<1>. QED
  BY <1>1, <1>2

\* The client begins and ends, and passes on without results.
LEMMA WithoutResults ==
  ASSUME ClientInv, DocsType, UNCHANGED docs,
         \/ TakeQueryVector \/ TakeNoteVector \/ CheckSources
         \/ client' = Free
         \/ \E t \in Tenants : StartSearch(t)
         \/ \E t \in Writers, n \in Versions \ {0} : StartEmbed(t, n)
  PROVE  (ClientType /\ SawInv /\ ResultsInv /\ OnlyWhenReading /\ ThoroughInv)'
<1>0. client \in Clients /\ SawInv
  BY DEF ClientInv, ClientType
<1>1. Free \in Clients
  BY DEF Free, Clients, Ids, Versions, Statuses
<1>2. ASSUME NEW c \in Clients, client' = c, c.pc # "read", c.left = {}, c.found = {},
             c.pc \notin {"idle", "check"} => c.tenant \in Tenants,
             c.saw = client.saw \/ c.saw = Free.saw \/ c.saw = [d \in Docs |-> docs[d].status]
      PROVE  (ClientType /\ SawInv /\ ResultsInv /\ OnlyWhenReading /\ ThoroughInv)'
  <2>1. SawInv'
    <3>1. CASE c.saw = client.saw
      BY <1>0, <1>2, <3>1 DEF SawInv
    <3>2. CASE c.saw = Free.saw
      BY <1>2, <3>2 DEF SawInv, Free
    <3>3. CASE c.saw = [d \in Docs |-> docs[d].status]
      BY <1>2, <3>3 DEF SawInv
    <3>. QED
      BY <1>2, <3>1, <3>2, <3>3
  <2>2. ClientType'
    BY <1>2 DEF ClientType, Clients, Ids
  <2>3. (ResultsInv /\ OnlyWhenReading /\ ThoroughInv)'
    <3>1. client' \in Clients /\ client'.pc # "read" /\ client'.left = {} /\ client'.found = {}
      BY <1>2
    <3>. QED
      BY <3>1, NoResults
  <2>. QED
    BY <2>1, <2>2, <2>3
<1>3. CASE client' = Free
  BY <1>1, <1>2, <1>3 DEF Free
<1>4. CASE CheckSources
  <2>1. [Free EXCEPT !.pc = "check"] \in Clients
    BY <1>1 DEF Clients
  <2>2. PICK c \in Clients : c = [Free EXCEPT !.pc = "check"]
    BY <2>1
  <2>3. c.pc = "check" /\ c.left = {} /\ c.found = {} /\ c.saw = Free.saw
    BY <2>2 DEF Free
  <2>4. client' = c
    BY <1>4, <2>2 DEF CheckSources
  <2>. QED
    BY <1>2, <2>3, <2>4
<1>5. ASSUME NEW pc \in {"search", "embed"}, NEW next \in {"rank", "store"}, TakeVector(pc, next)
      PROVE  (ClientType /\ SawInv /\ ResultsInv /\ OnlyWhenReading /\ ThoroughInv)'
  <2>1. CASE client' = Free
    BY <1>3, <2>1
  <2>2. CASE client' = [client EXCEPT !.pc = next]
    <3>1. [client EXCEPT !.pc = next] \in Clients
      BY <1>0 DEF Clients
    <3>2. PICK c \in Clients : c = [client EXCEPT !.pc = next]
      BY <3>1
    <3>3. /\ c.pc = next /\ c.left = client.left /\ c.found = client.found
          /\ c.saw = client.saw /\ c.tenant = client.tenant
      BY <1>0, <3>2 DEF Clients
    <3>4. client.tenant \in Tenants /\ client.left = {} /\ client.found = {}
      BY <1>5 DEF TakeVector, ClientInv, ClientType, OnlyWhenReading
    <3>. QED
      BY <1>2, <2>2, <3>2, <3>3, <3>4
  <2>. QED
    BY <1>5, <2>1, <2>2 DEF TakeVector
<1>6. ASSUME NEW t \in Tenants, StartSearch(t)
      PROVE  (ClientType /\ SawInv /\ ResultsInv /\ OnlyWhenReading /\ ThoroughInv)'
  <2>1. PICK saw \in [Docs -> Statuses] : saw = [d \in Docs |-> docs[d].status]
    BY DEF DocsType
  <2>2. [Free EXCEPT !.pc = "search", !.tenant = t, !.saw = saw] \in Clients
    BY <1>1 DEF Clients
  <2>3. PICK c \in Clients : c = [Free EXCEPT !.pc = "search", !.tenant = t, !.saw = saw]
    BY <2>2
  <2>4. c.pc = "search" /\ c.left = {} /\ c.found = {} /\ c.saw = saw /\ c.tenant = t
    BY <2>3 DEF Free
  <2>5. client' = c
    BY <1>6, <2>1, <2>3 DEF StartSearch
  <2>. QED
    BY <1>2, <2>1, <2>4, <2>5
<1>7. ASSUME NEW t \in Writers, NEW n \in Versions \ {0}, StartEmbed(t, n)
      PROVE  (ClientType /\ SawInv /\ ResultsInv /\ OnlyWhenReading /\ ThoroughInv)'
  <2>1. t \in Tenants
    BY RagAssumption
  <2>2. [Free EXCEPT !.pc = "embed", !.tenant = t, !.arg = n] \in Clients
    BY <1>1, <2>1 DEF Clients
  <2>3. PICK c \in Clients : c = [Free EXCEPT !.pc = "embed", !.tenant = t, !.arg = n]
    BY <2>2
  <2>4. c.pc = "embed" /\ c.left = {} /\ c.found = {} /\ c.saw = Free.saw /\ c.tenant = t
    BY <2>3 DEF Free
  <2>5. client' = c
    BY <1>7, <2>3 DEF StartEmbed
  <2>. QED
    BY <1>2, <2>1, <2>4, <2>5
<1>. QED
  BY <1>3, <1>4, <1>5, <1>6, <1>7 DEF TakeQueryVector, TakeNoteVector

\* The results of a ranking are as many as asked for, of the tenant, and all
\* there are when there is room for them.
LEMMA RankIsThorough ==
  ASSUME ClientInv, DocsInv, StoreInv, Grow, UNCHANGED <<docs, vectors, marred>>,
         client.pc = "rank",
         NEW K \in SUBSET Rankable(client.tenant),
         Cardinality(K) = Smaller(TopK, Cardinality(Rankable(client.tenant))),
         client' = [client EXCEPT !.pc = "read", !.left = K]
  PROVE  (ClientType /\ SawInv /\ ResultsInv /\ OnlyWhenReading /\ ThoroughInv)'
<1>0. /\ client \in Clients /\ client.tenant \in Tenants /\ client.found = {} /\ SawInv
      /\ vectors \subseteq Ids /\ IsFiniteSet(vectors) /\ TopK \in Nat
  BY RagAssumption DEF ClientInv, ClientType, TablesType, OnlyWhenReading
<1>1. /\ Rankable(client.tenant) \subseteq vectors
      /\ \A v \in Rankable(client.tenant) : OwnerOf(v) = client.tenant
  BY DEF Rankable
<1>2. IsFiniteSet(Rankable(client.tenant)) /\ Cardinality(Rankable(client.tenant)) \in Nat
  BY <1>0, <1>1, FS_Subset, FS_CardinalityType
<1>3. /\ IsFiniteSet(K) /\ Cardinality(K) <= TopK
      /\ Cardinality(Rankable(client.tenant)) <= TopK => K = Rankable(client.tenant)
  <2>1. /\ IsFiniteSet(K)
        /\ Cardinality(K) = Cardinality(Rankable(client.tenant)) => K = Rankable(client.tenant)
    BY <1>2, FS_Subset
  <2>2. /\ Smaller(TopK, Cardinality(Rankable(client.tenant))) <= TopK
        /\ Cardinality(Rankable(client.tenant)) <= TopK =>
             Smaller(TopK, Cardinality(Rankable(client.tenant))) = Cardinality(Rankable(client.tenant))
    BY <1>0, <1>2 DEF Smaller
  <2>. QED
    BY <2>1, <2>2
<1>4. [client EXCEPT !.pc = "read", !.left = K] \in Clients
  BY <1>0, <1>1 DEF Clients
<1>5. PICK c \in Clients : c = [client EXCEPT !.pc = "read", !.left = K]
  BY <1>4
<1>6. /\ client' = c /\ c.pc = "read" /\ c.left = K /\ c.found = {}
      /\ c.tenant = client.tenant /\ c.saw = client.saw /\ c.cut = client.cut
  BY <1>0, <1>5 DEF Clients
<1>7. ClientType' /\ SawInv' /\ OnlyWhenReading'
  BY <1>0, <1>6 DEF ClientType, Clients, SawInv, OnlyWhenReading, Ids
<1>8. ResultsInv'
  <2>1. Cardinality(K) + Cardinality({}) <= TopK
    BY <1>0, <1>3, FS_EmptySet, FS_CardinalityType
  <2>2. \A v \in c.left : OwnerOf(v)' = c.tenant
    BY <1>1, <1>6 DEF OwnerOf
  <2>3. IsFiniteSet(c.left) /\ IsFiniteSet(c.found) /\ c.left \subseteq vectors'
    BY <1>1, <1>3, <1>6, FS_EmptySet
  <2>. QED
    BY <1>6, <2>1, <2>2, <2>3 DEF ResultsInv
<1>9. ThoroughInv'
  <2>1. Rankable(client.tenant)' = Rankable(client.tenant)
    BY DEF Rankable, OwnerOf
  <2>2. SUFFICES ASSUME Cardinality(Rankable(client.tenant)) <= TopK, NEW d \in Docs, Expected(d)'
                 PROVE  ChunksOf(d)' \subseteq K
    BY <1>6, <2>1 DEF ThoroughInv, Rankable, OwnerOf
  <2>3. /\ docs[d].status = "indexed" /\ d \notin marred /\ Owner[d] = client.tenant
        /\ ChunksOf(d)' = ChunksOf(d)
    BY <1>6, <2>2 DEF Expected, ChunksOf
  <2>4. ChunksOf(d) \subseteq vectors
    BY <2>3, CompleteIsIndexed DEF IndexedIsComplete
  <2>5. \A v \in ChunksOf(d) : OwnerOf(v) = client.tenant
    BY <2>3, RagAssumption DEF ChunksOf, OwnerOf
  <2>. QED
    BY <1>3, <2>2, <2>3, <2>4, <2>5 DEF Rankable
<1>. QED
  BY <1>7, <1>8, <1>9

\* A result that is read is found when it is the chunk of a document that is
\* there; of a document that is expected every result is.
LEMMA ReadIsSound ==
  ASSUME ClientInv, DocsInv, StoreInv, Grow, UNCHANGED <<docs, chunkRows, vectors, marred>>,
         NEW v \in client.left, ReadChunk(v)
  PROVE  (ClientType /\ SawInv /\ ResultsInv /\ OnlyWhenReading /\ ThoroughInv)'
<1>0. /\ client \in Clients /\ client.tenant \in Tenants /\ client.pc = "read" /\ SawInv
      /\ ResultsInv /\ TopK \in Nat
  BY RagAssumption DEF ClientInv, ClientType, ReadChunk
<1>1. PICK ok \in BOOLEAN :
        client' = [client EXCEPT !.left = @ \ {v},
                     !.found = IF ok /\ v \in chunkRows THEN @ \union {v} ELSE @,
                     !.cut = @ \/ ~ok]
  <2>1. ReadsOk \subseteq BOOLEAN
    BY FaultyAssumption DEF ReadsOk
  <2>. QED
    BY <2>1 DEF ReadChunk
<1>2. PICK cut \in BOOLEAN : cut <=> client.cut \/ ~ok
  OBVIOUS
<1>3. PICK found \in SUBSET (Docs \X Nat) :
        found = IF ok /\ v \in chunkRows THEN client.found \union {v} ELSE client.found
  BY <1>0 DEF Clients, DocsInv, DocsType
<1>4. [client EXCEPT !.left = client.left \ {v}, !.found = found, !.cut = cut] \in Clients
  BY <1>0 DEF Clients
<1>5. PICK c \in Clients : c = [client EXCEPT !.left = client.left \ {v}, !.found = found, !.cut = cut]
  BY <1>4
<1>6. /\ c.pc = "read" /\ c.left = client.left \ {v} /\ c.found = found
      /\ c.tenant = client.tenant /\ c.saw = client.saw /\ c.cut = cut
  BY <1>0, <1>5 DEF Clients
<1>7. client' = c
  <2>1. cut = (client.cut \/ ~ok)
    BY <1>0, <1>2 DEF Clients
  <2>. QED
    BY <1>1, <1>3, <1>5, <2>1
<1>8. ClientType' /\ SawInv' /\ OnlyWhenReading'
  BY <1>0, <1>6, <1>7 DEF ClientType, Clients, SawInv, OnlyWhenReading, Ids
<1>9. v \in chunkRows => Owner[v[1]] = client.tenant /\ client.saw[v[1]] # "gone"
  <2>. SUFFICES ASSUME v \in chunkRows
                PROVE  Owner[v[1]] = client.tenant /\ client.saw[v[1]] # "gone"
    OBVIOUS
  <2>1. v[1] \in Docs /\ v[1] \notin Tenants /\ Present(v[1])
    BY RagAssumption DEF DocsInv, DocsType, ChunksHaveDocuments
  <2>2. OwnerOf(v) = client.tenant
    BY <1>0 DEF ResultsInv
  <2>. QED
    BY <1>0, <2>1, <2>2 DEF OwnerOf, Present, SawInv
<1>10. ResultsInv'
  <2>1. /\ IsFiniteSet(client.left) /\ IsFiniteSet(client.found)
        /\ Cardinality(client.left) + Cardinality(client.found) <= TopK
    BY <1>0 DEF ResultsInv
  <2>2. IsFiniteSet(c.left) /\ Cardinality(c.left) = Cardinality(client.left) - 1
    <3>1. /\ IsFiniteSet(client.left \ {v})
          /\ Cardinality(client.left \ {v}) = Cardinality(client.left) - 1
      <4>1. ASSUME NEW S, IsFiniteSet(S), v \in S
            PROVE  IsFiniteSet(S \ {v}) /\ Cardinality(S \ {v}) = Cardinality(S) - 1
        BY <4>1, FS_RemoveElement
      <4>. QED
        BY <2>1, <4>1
    <3>. QED
      BY <1>6, <3>1
  <2>3. /\ IsFiniteSet(client.found \union {v})
        /\ Cardinality(client.found \union {v}) \in {Cardinality(client.found), Cardinality(client.found) + 1}
    BY <2>1, FS_AddElement
  <2>4. found = client.found \/ found = client.found \union {v}
    BY <1>3
  <2>5. IsFiniteSet(found) /\ Cardinality(found) \in {Cardinality(client.found), Cardinality(client.found) + 1}
    BY <2>1, <2>3, <2>4
  <2>6. Cardinality(client.left) \in Nat /\ Cardinality(client.found) \in Nat
    BY <2>1, FS_CardinalityType
  <2>7. Cardinality(c.left) + Cardinality(c.found) <= TopK
    BY <1>0, <1>6, <2>1, <2>2, <2>5, <2>6
  <2>8. \A w \in c.left : OwnerOf(w)' = c.tenant
    BY <1>0, <1>6 DEF ResultsInv, OwnerOf
  <2>9. \A w \in c.found : Owner[w[1]] = c.tenant /\ c.saw[w[1]] # "gone"
    BY <1>0, <1>3, <1>6, <1>9 DEF ResultsInv
  <2>10. c.left \subseteq vectors'
    BY <1>0, <1>6 DEF ResultsInv
  <2>. QED
    BY <1>6, <1>7, <2>2, <2>5, <2>7, <2>8, <2>9, <2>10 DEF ResultsInv
<1>11. ThoroughInv'
  <2>1. Rankable(client.tenant)' = Rankable(client.tenant)
    BY <1>6, <1>7 DEF Rankable, OwnerOf
  <2>2. SUFFICES ASSUME ~cut, Cardinality(Rankable(client.tenant)) <= TopK,
                        NEW d \in Docs, Expected(d)'
                 PROVE  ChunksOf(d)' \subseteq c.left \union c.found
    BY <1>6, <1>7, <2>1 DEF ThoroughInv, Rankable, OwnerOf
  <2>3. Expected(d) /\ ChunksOf(d)' = ChunksOf(d)
    BY <1>6, <1>7, <2>2 DEF Expected, ChunksOf
  <2>4. ok /\ ~client.cut
    BY <1>2, <2>2
  <2>5. ChunksOf(d) \subseteq client.left \union client.found
    BY <1>0, <2>2, <2>3, <2>4 DEF ClientInv, ThoroughInv
  <2>6. ChunksOf(d) \subseteq chunkRows
    BY <2>3, CompleteIsIndexed DEF Expected, IndexedIsComplete
  <2>. QED
    BY <1>3, <1>6, <2>3, <2>4, <2>5, <2>6
<1>. QED
  BY <1>8, <1>10, <1>11

LEMMA ClientInvNext ==
  DocsInv /\ StoreInv /\ ClientInv /\ [Next]_vars => ClientInv'
<1>. SUFFICES ASSUME DocsInv, StoreInv, ClientInv, [Next]_vars PROVE ClientInv'
  OBVIOUS
<1>1. StatusMoves /\ Grow
  BY StatusesMove, TablesGrow DEF ClientInv
<1>2. TablesType' /\ NotesInv'
  BY <1>1, ClientMoves, NotesKept DEF TablesType, Grow
<1>3. (ClientType /\ SawInv /\ ResultsInv /\ OnlyWhenReading /\ ThoroughInv)'
  <2>1. CASE UNCHANGED client
    BY <1>1, <2>1, OthersKeepSearch, OthersKeepThorough
  <2>2. CASE Rank /\ client' # Free
    <3>1. PICK K \in SUBSET Rankable(client.tenant) :
            /\ Cardinality(K) = Smaller(TopK, Cardinality(Rankable(client.tenant)))
            /\ client' = [client EXCEPT !.pc = "read", !.left = K]
      BY <2>2 DEF Rank
    <3>2. client.pc = "rank" /\ UNCHANGED <<docs, vectors, marred>>
      BY <2>2 DEF Rank, tables, past
    <3>. QED
      BY <1>1, <3>1, <3>2, RankIsThorough
  <2>3. ASSUME NEW v \in client.left, ReadChunk(v)
        PROVE  (ClientType /\ SawInv /\ ResultsInv /\ OnlyWhenReading /\ ThoroughInv)'
    BY <1>1, <2>3, ReadIsSound DEF ReadChunk, tables, past
  <2>4. ASSUME UNCHANGED docs,
               \/ TakeQueryVector \/ TakeNoteVector \/ CheckSources
               \/ client' = Free
               \/ \E t \in Tenants : StartSearch(t)
               \/ \E t \in Writers, n \in Versions \ {0} : StartEmbed(t, n)
        PROVE  (ClientType /\ SawInv /\ ResultsInv /\ OnlyWhenReading /\ ThoroughInv)'
    BY <2>4, WithoutResults DEF DocsInv
  <2>. QED
    BY <2>1, <2>2, <2>3, <2>4, ClientMoves
<1>. QED
  BY <1>2, <1>3 DEF ClientInv

LEMMA ClientInvHolds == Spec => []ClientInv
  BY InvHolds, StoreInvHolds, ClientInvInit, ClientInvNext, PTL DEF Spec

\* A search finds at most TopK chunks, all of its tenant and of documents that
\* were there when it began, whatever is ingested and deleted meanwhile.
THEOREM SearchesAreSound == Spec => []SearchIsSound
<1>1. ASSUME ClientInv, DocsInv PROVE SearchIsSound
  <2>1. Cardinality(client.found) <= TopK
    <3>1. /\ IsFiniteSet(client.left) /\ IsFiniteSet(client.found)
          /\ Cardinality(client.left) + Cardinality(client.found) <= TopK
      BY <1>1 DEF ClientInv, ResultsInv
    <3>2. Cardinality(client.left) \in Nat /\ Cardinality(client.found) \in Nat
      BY <3>1, FS_CardinalityType
    <3>. QED
      BY <3>1, <3>2, RagAssumption
  <2>2. \A v \in client.found : Owner[v[1]] = client.tenant /\ client.saw[v[1]] # "gone"
    BY <1>1 DEF ClientInv, ResultsInv
  <2>3. \A c \in chunkRows : Present(c[1])
    BY <1>1 DEF DocsInv, ChunksHaveDocuments
  <2>. QED
    BY <2>1, <2>2, <2>3 DEF SearchIsSound
<1>. QED
  BY <1>1, ClientInvHolds, InvHolds, PTL

\* With room for every vector of its tenant a search misses nothing of a
\* document that stays indexed, however many documents are ingested meanwhile.
THEOREM SearchesAreThorough == Spec => []SearchIsThorough
<1>1. ClientInv => SearchIsThorough
  BY DEF ClientInv, ThoroughInv, Expected, Answering, SearchIsThorough
<1>. QED
  BY <1>1, ClientInvHolds, PTL

\* A note that is known to be stored keeps its text, whoever embeds another one
\* and whatever fails.
THEOREM NotesStay == Spec => []NotesAreKept
<1>1. ClientInv => NotesAreKept
  BY DEF ClientInv, NotesInv, NotesAreKept
<1>. QED
  BY <1>1, ClientInvHolds, PTL

\* The tables, the frames and the history have their types throughout.
THEOREM RagTypeCorrect == Spec => []TypeOK
<1>1. ASSUME ChunkInv, DocsInv, SourcesInv, ClientInv PROVE TypeOK
  <2>1. ChunkerTypeOK
    BY <1>1 DEF ChunkInv, TextOK, Outs, ChunkerTypeOK
  <2>2. SourcesTypeOK
    BY <1>1 DEF SourcesInv
  <2>3. client \in Clients /\ client.left \subseteq vectors
    BY <1>1 DEF ClientInv, ClientType, ResultsInv
  <2>. QED
    BY <1>1, <2>1, <2>2, <2>3
    DEF DocsInv, DocsType, Pcs, ClientInv, TablesType, Clients, Ids, TypeOK
<1>. QED
  BY <1>1, InvHolds, SourcesInvHolds, ClientInvHolds, PTL
====
