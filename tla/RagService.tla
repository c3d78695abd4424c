---- MODULE RagService ----
(***************************************************************************)
(* services/rag over services/embeddings: a goroutine that ingests texts,  *)
(* one that searches and embeds other things, and the requests that delete *)
(* documents, over the tables rag_documents, rag_chunks and embeddings, one*)
(* statement per step, and over the sources of vectors.                    *)
(*                                                                         *)
(* An operator with the name of the one after it and a suffix is a faulty  *)
(* variant, for testing the properties.                                    *)
(***************************************************************************)
EXTENDS Chunker, EmbeddingSources, Statements, FiniteSets

CONSTANTS
  Docs,        \* the documents that may be ingested: fresh uuids
  Tenants,
  Owner,       \* Docs -> Tenants, who ingests it
  Writers,     \* the tenants that embed a note of their own
  BatchSize,   \* chunks whose vectors are asked for at a time; 10 in the code
  TopK         \* how many results a search asks for

Nothing == "none"

ASSUME RagAssumption ==
  /\ Callers = {"ingest", "client"}
  /\ Nothing \notin Docs /\ Docs \intersect Tenants = {}
  /\ Owner \in [Docs -> Tenants] /\ Writers \subseteq Tenants
  /\ BatchSize \in Nat \ {0} /\ TopK \in Nat \ {0}

VARIABLES
  docs,        \* rag_documents: Docs -> [status, count]
  chunkRows,   \* rag_chunks: pairs of a document and the index of a chunk
  vectors,     \* embeddings: such pairs for chunks, <<tenant, note>> for others
  notes,       \* Tenants -> the text whose vector its note has; 0 for none
  ingest,      \* the frame of Ingest: [pc, doc, at, upto]
  client,      \* the frame of Search or Embed: [pc, tenant, left, found, arg],
               \* with the history of a search: "saw", the statuses when it
               \* began, and "cut", whether a read of it failed
  told,        \* history: Docs -> what the caller of Ingest was told
  marred,      \* history: documents of which the insertion of a chunk or of a
               \* vector was refused, or its answer lost
  kept         \* history: Tenants -> the note its caller was told is stored

tables == <<docs, chunkRows, vectors, notes>>
past   == <<told, marred, kept>>
vars   == <<chunking, sources, tables, ingest, client, past>>

Note == 0     \* a tenant has one

OwnerOf(v) == IF v[1] \in Tenants THEN v[1] ELSE Owner[v[1]]

Statuses == {"absent", "processing", "indexed", "failed", "gone"}
Versions == 0 .. 2         \* bound: two texts of a note are told apart

TypeOK ==
  /\ ChunkerTypeOK /\ SourcesTypeOK
  /\ docs \in [Docs -> [status : Statuses, count : Nat]]
  /\ chunkRows \subseteq Docs \X Nat
  /\ vectors \subseteq (Docs \X Nat) \union (Tenants \X {Note})
  /\ notes \in [Tenants -> Versions]
  /\ ingest \in [pc : {"idle", "chunk", "document", "generate", "store", "vector", "fail", "index"},
                 doc : Docs \union {Nothing}, at : Nat, upto : Nat]
  /\ client.pc \in {"idle", "search", "rank", "read", "embed", "store", "check"}
  /\ client.tenant \in Tenants \union {Nothing} /\ client.arg \in Versions
  /\ client.left \subseteq vectors \union (Docs \X Nat) /\ client.found \subseteq Docs \X Nat
  /\ told \in [Docs -> {"nothing", "indexed", "error"}]
  /\ client.saw \in [Docs -> Statuses] /\ client.cut \in BOOLEAN
  /\ marred \subseteq Docs /\ kept \in [Tenants -> Versions]

AtRest == [pc |-> "idle", doc |-> Nothing, at |-> 0, upto |-> 0]
Free   == [pc |-> "idle", tenant |-> Nothing, left |-> {}, found |-> {}, arg |-> 0,
           saw |-> [d \in Docs |-> "absent"], cut |-> FALSE]

Init ==
  /\ given = <<>> /\ text = <<>> /\ sentences = <<>> /\ out = Unbegun /\ SourcesInit
  /\ docs = [d \in Docs |-> [status |-> "absent", count |-> 0]]
  /\ chunkRows = {} /\ vectors = {}
  /\ notes = [t \in Tenants |-> 0]
  /\ ingest = AtRest /\ client = Free
  /\ told = [d \in Docs |-> "nothing"]
  /\ marred = {} /\ kept = [t \in Tenants |-> 0]

----
Present(d) == docs[d].status \in {"processing", "indexed", "failed"}

\* UPDATE rag_documents SET status WHERE document_id: no row, no change.
SetStatusSwapped(d, s) == docs' = [docs EXCEPT ![d].status = IF Present(d) THEN d ELSE @]
SetStatusAnyway(d, s) == docs' = [docs EXCEPT ![d].status = s]
SetStatus(d, s) == docs' = [docs EXCEPT ![d].status = IF Present(d) THEN s ELSE @]

----
(* Ingest *)

Doc == ingest.doc
Count == Len(out.chunks)

StartIngest(d, t) ==
  /\ ingest = AtRest /\ docs[d].status = "absent" /\ told[d] = "nothing"
  /\ Takes(t)
  /\ ingest' = [AtRest EXCEPT !.pc = "chunk", !.doc = d]
  /\ UNCHANGED <<sources, tables, client, past>>

CutText ==
  /\ ingest.pc = "chunk" /\ ChunkNext
  /\ UNCHANGED <<sources, tables, ingest, client, past>>

\* Its locals, the chunks among them, are gone with it.
ReturnFromIngest(answer) ==
  /\ ingest' = AtRest /\ Takes(<<>>)
  /\ told' = [told EXCEPT ![Doc] = answer]

EndChunking ==
  /\ ingest.pc = "chunk" /\ Chunked
  /\ IF out.chunks = <<>>
     THEN ReturnFromIngest("error")
     ELSE ingest' = [ingest EXCEPT !.pc = "document"] /\ UNCHANGED <<chunking, told>>
  /\ UNCHANGED <<sources, tables, client, marred, kept>>

InsertDocument ==
  /\ ingest.pc = "document"
  /\ \E o \in Outcomes :
       /\ docs' = IF o.applied THEN [docs EXCEPT ![Doc] = [status |-> "processing", count |-> Count]]
                  ELSE docs
       /\ IF o.ok THEN ingest' = [ingest EXCEPT !.pc = "generate"] /\ UNCHANGED <<chunking, told>>
          ELSE ReturnFromIngest("error")
  /\ UNCHANGED <<sources, chunkRows, vectors, notes, client, marred, kept>>

\* The loop over batches and, in a batch, over its chunks.
AskVectors ==
  /\ ingest.pc = "generate" /\ Calls("ingest")
  /\ UNCHANGED <<chunking, primary, tables, ingest, client, past>>

Smaller(a, b) == IF a < b THEN a ELSE b

TakeVectors ==
  /\ ingest.pc = "generate" /\ gen["ingest"].pc \in {"ok", "failed"} /\ Returns("ingest")
  /\ ingest' = IF gen["ingest"].pc = "failed" THEN [ingest EXCEPT !.pc = "fail"]
               ELSE [ingest EXCEPT !.pc = "store", !.upto = Smaller(ingest.at + BatchSize, Count)]
  /\ UNCHANGED <<chunking, primary, tables, client, past>>

NextChunkSkippingTail ==
  ingest' = [ingest EXCEPT !.at = @ + 1,
               !.pc = CASE ingest.at + 1 < ingest.upto -> "store"
                        [] ingest.at + 1 = ingest.upto /\ ingest.upto + BatchSize <= Count -> "generate"
                        [] OTHER -> "index"]
NextChunk ==
  ingest' = [ingest EXCEPT !.at = @ + 1,
               !.pc = CASE ingest.at + 1 < ingest.upto -> "store"
                        [] ingest.at + 1 = ingest.upto /\ ingest.upto < Count -> "generate"
                        [] OTHER -> "index"]

Mar(o) == marred' = IF o.ok THEN marred ELSE marred \union {Doc}

\* A chunk that cannot be inserted is passed over, and its vector with it.
InsertChunkRetrying ==
  /\ ingest.pc = "store"
  /\ \E o \in OutcomesIf(Present(Doc)) :
       /\ chunkRows' = IF o.applied THEN chunkRows \union {<<Doc, ingest.at>>} ELSE chunkRows
       /\ ingest' = IF o.ok THEN [ingest EXCEPT !.pc = "vector"] ELSE ingest
       /\ Mar(o)
  /\ UNCHANGED <<chunking, sources, docs, vectors, notes, client, told, kept>>
InsertChunk ==
  /\ ingest.pc = "store"
  /\ \E o \in OutcomesIf(Present(Doc)) :    \* REFERENCES rag_documents
       /\ chunkRows' = IF o.applied THEN chunkRows \union {<<Doc, ingest.at>>} ELSE chunkRows
       /\ IF o.ok THEN ingest' = [ingest EXCEPT !.pc = "vector"] ELSE NextChunk
       /\ Mar(o)
  /\ UNCHANGED <<chunking, sources, docs, vectors, notes, client, told, kept>>

\* Refused as well when the source sent an empty vector; the error is dropped.
InsertVector ==
  /\ ingest.pc = "vector"
  /\ \E o \in Outcomes :
       /\ vectors' = IF o.applied THEN vectors \union {<<Doc, ingest.at>>} ELSE vectors
       /\ Mar(o)
  /\ NextChunk
  /\ UNCHANGED <<chunking, sources, docs, chunkRows, notes, client, told, kept>>

MarkFailed ==
  /\ ingest.pc = "fail"
  /\ \E o \in Outcomes : IF o.applied THEN SetStatus(Doc, "failed") ELSE UNCHANGED docs
  /\ ReturnFromIngest("error")
  /\ UNCHANGED <<sources, chunkRows, vectors, notes, client, marred, kept>>

MarkIndexedUnasked ==
  /\ ingest.pc = "index"
  /\ \E o \in Outcomes : IF o.applied THEN SetStatus(Doc, "indexed") ELSE UNCHANGED docs
  /\ ReturnFromIngest("indexed")
  /\ UNCHANGED <<sources, chunkRows, vectors, notes, client, marred, kept>>
MarkIndexed ==
  /\ ingest.pc = "index"
  /\ \E o \in Outcomes :
       /\ IF o.applied THEN SetStatus(Doc, "indexed") ELSE UNCHANGED docs
       /\ ReturnFromIngest(IF o.ok THEN "indexed" ELSE "error")
  /\ UNCHANGED <<sources, chunkRows, vectors, notes, client, marred, kept>>

\* DELETE ... WHERE document_id AND tenant_id; its chunks go with it, its
\* vectors, which refer to nothing, stay.
DeleteDocument(d, t) ==
  /\ Owner[d] = t /\ Present(d)
  /\ docs' = [docs EXCEPT ![d].status = "gone"]
  /\ chunkRows' = {c \in chunkRows : c[1] # d}
  /\ UNCHANGED <<chunking, sources, vectors, notes, ingest, client, past>>

----
(* The client: rag's Search, and embeddings' Embed of a note *)

StartSearch(t) ==
  /\ client = Free /\ Calls("client")
  /\ client' = [Free EXCEPT !.pc = "search", !.tenant = t,
                            !.saw = [d \in Docs |-> docs[d].status]]
  /\ UNCHANGED <<chunking, primary, tables, ingest, past>>

TakeVector(pc, next) ==
  /\ client.pc = pc /\ gen["client"].pc \in {"ok", "failed"} /\ Returns("client")
  /\ client' = IF gen["client"].pc = "ok" THEN [client EXCEPT !.pc = next] ELSE Free
  /\ UNCHANGED <<chunking, primary, tables, ingest, past>>

TakeQueryVector == TakeVector("search", "rank")

\* The nearest TopK vectors of the tenant, whichever those are.
RankableOfAll(t) == vectors
Rankable(t) == {v \in vectors : OwnerOf(v) = t}

Rank ==
  /\ client.pc = "rank"
  /\ \/ \E K \in SUBSET Rankable(client.tenant) :
          /\ Cardinality(K) = Smaller(TopK, Cardinality(Rankable(client.tenant)))
          /\ client' = [client EXCEPT !.pc = "read", !.left = K]
     \/ Faulty /\ client' = Free
  /\ UNCHANGED <<chunking, sources, tables, ingest, past>>

\* A result that is no chunk, or whose chunk cannot be read, is passed over.
ReadChunkStopping(v) ==
  /\ client.pc = "read" /\ v \in client.left
  /\ \E ok \in ReadsOk :
       client' = [client EXCEPT !.left = IF ok /\ v \in chunkRows THEN @ \ {v} ELSE {},
                    !.found = IF ok /\ v \in chunkRows THEN @ \union {v} ELSE @,
                    !.cut = @ \/ ~ok]
  /\ UNCHANGED <<chunking, sources, tables, ingest, past>>
ReadChunk(v) ==
  /\ client.pc = "read" /\ v \in client.left
  /\ \E ok \in ReadsOk :
       client' = [client EXCEPT !.left = @ \ {v},
                    !.found = IF ok /\ v \in chunkRows THEN @ \union {v} ELSE @,
                    !.cut = @ \/ ~ok]
  /\ UNCHANGED <<chunking, sources, tables, ingest, past>>

Answering == client.pc = "read" /\ client.left = {}     \* Search returns found

EndSearch ==
  /\ Answering /\ client' = Free
  /\ UNCHANGED <<chunking, sources, tables, ingest, past>>

StartEmbed(t, version) ==
  /\ client = Free /\ Calls("client")
  /\ client' = [Free EXCEPT !.pc = "embed", !.tenant = t, !.arg = version]
  /\ UNCHANGED <<chunking, primary, tables, ingest, past>>

TakeNoteVector == TakeVector("embed", "store")

\* The id is made of the tenant and the source: a second vector is refused.
InsertNoteIgnoring ==
  /\ client.pc = "store"
  /\ LET t == client.tenant
     IN  \E o \in Outcomes :
           /\ vectors' = IF o.applied THEN vectors \union {<<t, Note>>} ELSE vectors
           /\ notes' = IF o.applied /\ notes[t] = 0 THEN [notes EXCEPT ![t] = client.arg] ELSE notes
           /\ kept' = IF o.ok THEN [kept EXCEPT ![t] = client.arg] ELSE kept
  /\ client' = Free
  /\ UNCHANGED <<chunking, sources, docs, chunkRows, ingest, told, marred>>
InsertNote ==
  /\ client.pc = "store"
  /\ LET t == client.tenant
     IN  \E o \in OutcomesIf(<<t, Note>> \notin vectors) :
           /\ vectors' = IF o.applied THEN vectors \union {<<t, Note>>} ELSE vectors
           /\ notes' = IF o.applied THEN [notes EXCEPT ![t] = client.arg] ELSE notes
           /\ kept' = IF o.ok THEN [kept EXCEPT ![t] = client.arg] ELSE kept
  /\ client' = Free
  /\ UNCHANGED <<chunking, sources, docs, chunkRows, ingest, told, marred>>

----
\* MultiOllama's HealthCheck by itself.
CheckSources ==
  /\ client = Free /\ Probes("client")
  /\ client' = [Free EXCEPT !.pc = "check"]
  /\ UNCHANGED <<chunking, primary, tables, ingest, past>>

EndCheck ==
  /\ client.pc = "check" /\ gen["client"].pc \in {"ok", "failed"} /\ Returns("client")
  /\ client' = Free
  /\ UNCHANGED <<chunking, primary, tables, ingest, past>>

\* A step of a request to the sources.
Request(c) ==
  Generating(c) /\ UNCHANGED <<chunking, tables, ingest, client, past>>

Ingesting ==
  \/ CutText \/ EndChunking \/ InsertDocument \/ AskVectors \/ TakeVectors
  \/ InsertChunk \/ InsertVector \/ MarkFailed \/ MarkIndexed

Searching ==
  \/ TakeQueryVector \/ Rank \/ EndSearch \/ TakeNoteVector \/ InsertNote
  \/ EndCheck
  \/ \E v \in client.left : ReadChunk(v)

Next ==
  \/ \E d \in Docs, t \in Texts : StartIngest(d, t)
  \/ Ingesting
  \/ \E d \in Docs, t \in Tenants : DeleteDocument(d, t)
  \/ \E t \in Tenants : StartSearch(t)
  \/ \E t \in Writers, n \in Versions \ {0} : StartEmbed(t, n)
  \/ CheckSources
  \/ Searching
  \/ \E c \in Callers : Request(c)

Spec == Init /\ [][Next]_vars

\* Statements return and the client's requests have a timeout (ollama.go:24).
Fairness == WF_vars(Ingesting \/ Request("ingest"))

FairSpec == Spec /\ Fairness

----
ChunksOf(d) == {<<d, i>> : i \in 0 .. (docs[d].count - 1)}

\* A document shown as indexed has all its chunks, in every batch, and their
\* vectors, unless one of those statements failed, which Ingest passes over
\* (service.go:107-144); and no document has a chunk it does not count.
IndexedIsComplete ==
  \A d \in Docs :
    /\ docs[d].status = "indexed" /\ d \notin marred => ChunksOf(d) \subseteq chunkRows \intersect vectors
    /\ \A c \in chunkRows : c[1] = d => c \in ChunksOf(d)

\* What the caller of Ingest was told can be seen in the table, unless the
\* document was deleted: "indexed" is the status it has, and it has none
\* without a row; a document whose vectors could not be made is never indexed.
ToldIsTrue ==
  \A d \in Docs :
    /\ told[d] = "indexed" => docs[d].status \in {"indexed", "gone"}
    /\ docs[d].status = "failed" => told[d] = "error"

\* A search finds chunks of its tenant only, TopK at most, none of a document
\* that had been deleted when it began, and whatever chunk a delete leaves
\* readable has its document (service.go:178-193, vector_store.go:60-63).
SearchIsSound ==
  /\ \A v \in client.found : Owner[v[1]] = client.tenant /\ client.saw[v[1]] # "gone"
  /\ Cardinality(client.found) <= TopK
  /\ \A c \in chunkRows : Present(c[1])

\* A search with room for every vector of its tenant, none of whose reads
\* failed, misses no chunk of a document that was indexed before: vectors without a
\* chunk, notes and other tenants cost it places, nothing else does.
SearchIsThorough ==
  Answering /\ ~client.cut /\ Cardinality(Rankable(client.tenant)) <= TopK =>
    \A d \in Docs :
      /\ Owner[d] = client.tenant /\ d \notin marred
      /\ client.saw[d] = "indexed" /\ docs[d].status = "indexed"
      => ChunksOf(d) \subseteq client.found

\* A note whose caller was told it is stored keeps the vector of that text: a
\* second text under its id is refused, not taken for stored (service.go:37-43).
NotesAreKept == \A t \in Tenants : kept[t] # 0 => notes[t] = kept[t]

\* The documents behave as their catalogue promises.
Catalogue ==
  INSTANCE DocumentCatalogue
    WITH status <- [d \in Docs |-> docs[d].status],
         holds  <- [d \in Docs |-> {c[2] : c \in {r \in chunkRows : r[1] = d}}]

CatalogueSpec == Catalogue!Spec

\* Every Ingest returns, whichever statement and source fails, whoever deletes
\* its document, and whatever the searches do to the source it asks.
EveryIngestReturns == ingest # AtRest ~> ingest = AtRest
====
