---- MODULE SemanticCache ----
(***************************************************************************)
(* services/semanticcache: Store and Lookup over the table semantic_cache, *)
(* whose rows are known by their tenant and the first half of the hash of  *)
(* the input, and over the table embeddings, which Store does not write    *)
(* and others fill.  Different inputs have different hashes, halves        *)
(* included.  A text that is embedded and never stored stands for a chunk  *)
(* of a document.                                                          *)
(***************************************************************************)
EXTENDS Clock, Statements

CONSTANTS
  Entries,     \* pairs of a tenant and a text, where the texts are similar to
               \* each other
  TaskTypes,
  Lookers      \* goroutines that call Lookup, one call after the other

Unknown == "none"
Nowhere == <<Unknown, Unknown>>

ASSUME CacheAssumption == Unknown \notin TaskTypes

VARIABLES
  cache,     \* Entries -> [task, output, until]; the task and the
             \* output (the task it was computed for) Unknown for no row
  vectors,   \* the entries whose text is embedded
  look       \* Lookers -> [pc, key, task, output, similar], keys being Entries

caching == <<cache, vectors, look>>

Absent  == [task |-> Unknown, output |-> Unknown, until |-> Never]
Looking == {"idle", "exact", "semantic", "similar", "matched", "missed"}

NotLooking ==
  [pc |-> "idle", key |-> Nowhere, task |-> Unknown, output |-> Unknown, similar |-> Nowhere]

CacheTypeOK ==
  /\ cache \in [Entries -> [task : TaskTypes \union {Unknown}, output : TaskTypes \union {Unknown},
                            until : Nat]]
  /\ vectors \subseteq Entries
  /\ look \in [Lookers -> [pc : Looking, key : Entries \union {Nowhere},
                           task : TaskTypes \union {Unknown}, output : TaskTypes \union {Unknown},
                           similar : Entries \union {Nowhere}]]

CacheInit ==
  /\ cache = [e \in Entries |-> Absent]
  /\ vectors = {}
  /\ look = [l \in Lookers |-> NotLooking]

\* INSERT ... ON CONFLICT DO UPDATE, of the output and the expiry only.
Store(e, task, ttl) ==
  LET of == IF cache[e] = Absent THEN task ELSE cache[e].task
  IN  /\ cache' = [cache EXCEPT ![e] = [task |-> of, output |-> task,
                                        until |-> IF ttl = 0 THEN Never ELSE now + ttl]]
      /\ UNCHANGED <<vectors, look>>

\* Service.Embed, or the ingestion of a document: nothing removes a vector.
Embed(e) ==
  /\ e \notin vectors
  /\ vectors' = vectors \union {e}
  /\ UNCHANGED <<cache, look>>

StartLookup(l, e, task) ==
  /\ look[l] = NotLooking
  /\ look' = [look EXCEPT ![l] = [NotLooking EXCEPT !.pc = "exact", !.key = e, !.task = task]]
  /\ UNCHANGED <<cache, vectors>>

\* The rows of both queries: the second, for the text that was looked up as
\* well, differs from the first in the length of the hash alone.
Valid(e, task) == cache[e].task = task /\ ~Past(cache[e].until)

Found(l) == {e \in Entries : e = look[l].key /\ Valid(e, look[l].task)}

Goes(l, pc) == look' = [look EXCEPT ![l].pc = pc]

Answer(l, e) == look' = [look EXCEPT ![l].pc = "matched", ![l].output = cache[e].output]

SelectExact(l) ==
  /\ look[l].pc = "exact"
  /\ \/ \E e \in Found(l) : Answer(l, e)
     \/ (Found(l) = {} \/ Faulty) /\ Goes(l, "semantic")
  /\ UNCHANGED <<cache, vectors>>

\* The nearest vector of the tenant, when it passes the threshold.
SearchSimilar(l) ==
  /\ look[l].pc = "semantic"
  /\ \/ \E e \in {f \in vectors : f[1] = look[l].key[1]} :
          look' = [look EXCEPT ![l].pc = "similar", ![l].similar = e]
     \/ Goes(l, "missed")
  /\ UNCHANGED <<cache, vectors>>

SelectSimilar(l) ==
  /\ look[l].pc = "similar"
  /\ \/ \E e \in Found(l) : Answer(l, e)
     \/ (Found(l) = {} \/ Faulty) /\ Goes(l, "missed")
  /\ UNCHANGED <<cache, vectors>>

EndLookup(l) ==
  /\ look[l].pc \in {"matched", "missed"}
  /\ look' = [look EXCEPT ![l] = NotLooking]
  /\ UNCHANGED <<cache, vectors>>

CacheNext ==
  \/ \E e \in Entries, task \in TaskTypes, ttl \in {0, 1} : Store(e, task, ttl)
  \/ \E e \in Entries : Embed(e)
  \/ \E l \in Lookers :
       \/ \E e \in Entries, task \in TaskTypes : StartLookup(l, e, task)
       \/ SelectExact(l) \/ SearchSimilar(l) \/ SelectSimilar(l) \/ EndLookup(l)

\* The table by itself, and time.
CacheSpec ==
  /\ ClockInit /\ CacheInit
  /\ [][(CacheNext /\ UNCHANGED now) \/ (Tick /\ UNCHANGED caching)]_<<now, caching>>

----
\* "task_type = $2" of both queries (cache.go:34, 59), "Repeated reasoning over
\* the same inputs" (docs/architecture.md:62): what a Lookup returns is the output
\* of the kind of task it was asked for.
OutputIsOfTheTask ==
  \A l \in Lookers : look[l].pc = "matched" => look[l].output = look[l].task

\* "embed the input, run a pgvector similarity search, accept the best match
\* above a configurable threshold" (docs/architecture.md:63): with no failure,
\* when the nearest text is stored for the tenant and the task, its answer is
\* what the Lookup returns.
SimilarTextIsServed ==
  [][\A l \in Lookers :
       look[l].pc = "similar" /\ look'[l].pc = "missed"
         => ~Valid(look[l].similar, look[l].task)]_caching
====
