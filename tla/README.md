# A TLA+ model of agentic-golang

agentic-golang is a Go library that runs declarative, database-driven agent
workflows over Postgres: sessions are attached to workflows, a loop walks the
workflow's graph node by node, executors resolve nodes (often through a language
model), and the outcome is written as decisions on the session's tasks. This
directory holds the specification of its core: TLA+ modules translated from the
source, the configurations TLC checks them with, and theorems that TLAPS proves
for every value of the constants.

Line numbers below refer to `src/agentic/loopcontroller/loop.go` unless a file is
named.

## Inventory

| Component | State | Operations | What is hard about it | What makes it correct |
|---|---|---|---|---|
| Loop controller (`agentic/loopcontroller`) | ledger rows `agentic_loop_runs`, try-run rows, the accumulated `env` and the iteration count of each call | `StartWorkflow`, `Run`, `writePerTaskDecisions`, `markStopped` | many statements and no transaction; cancelled contexts; crashes; two calls on one session; pauses that arrive at any time; cyclic graphs | limits hold; the ledger tells how runs ended; positions are durable and follow the graph; human gates stop the run; no decision is made up, no task forgotten; every call returns |
| Decisions (same file) | none (pure) | `deriveDecisionFromEnv`, `isExplicitlyCompliant`, `deriveSummaryFromEnv` | substrings, mixtures of keys, entries that are no objects | the rule of the comments at 553-556 and 587-604, which two kinds of arrays are found to break |
| Sessions (`agentic/sessions`) | `agent_sessions`: status, workflow, node; snapshots | `Create`, `Get`, `AttachWorkflow`, `UpdateCurrentNode`, `UpdateStatus`, `Close`, `ListExpired`, `SaveCompressedState`, `LoadLatestCompressedState` | unguarded updates by several writers; ids from seconds | positions and statuses follow the runs; what is loaded was inserted less than a second before, or after, the last snapshot that was saved |
| Workflow graph (`agentic/workflow`) | read-only tables | `LoadGraph`, `SelectNextEdge` | equal priorities, conditions that do not compile | only edges that match are taken |
| Memory (`agentic/memory`) | `agent_memory_items` with `is_current` | `Put`, `Get`, `Query`, `Invalidate` | supersede and insert are two statements | one current item per key once no writers overlap; what was acknowledged is found |
| Model router (`services/modelrouter`) | provider map, model map, health records | `Register`, `Complete`, `RunHealthChecks` | results recorded after the HTTP call, outside the critical section they were chosen in; map order; replaced providers | routing prefers providers that work and have the model; outages are contained and end |
| Providers (`services/modelrouter/providers`) | none | HTTP calls | - | out of scope: formats |
| LLM executor (`agentic/executor`) | none | `CanHandle`, `Execute` | node types nobody handles; unparsable answers | deterministic nodes never ask a model; as many requests as attempts |
| Agent registry (`agentic/agents`) | definitions, instances | `GetDefinition`, `CreateInstance` | - | - |
| Reviews (`agentic/reviews`) | `human_reviews` | `Create`, `Assign`, `Resolve`, `Dismiss` | unguarded transitions, NULL columns that cannot be scanned | a review that waits for a human is listed (found not to be) |
| Rules engine (`services/rulesengine`) | compiled options | `EvaluateBoolWithVars` | declarations from whatever keys `env` has | an unrelated key changes no condition |
| Semantic cache (`services/semanticcache`) | `semantic_cache` | `Lookup`, `Store` | an id without the task type, two tiers, expiry | an answer is one for its task type, and similar texts share it (neither is found to be) |
| RAG (`services/rag`) | documents, chunks, embeddings | `Ingest`, `Search`, `DeleteDocument`, chunking | partial failure, deletions meanwhile, vectors that outlive their chunks | an indexed document is complete; callers are told the truth; searches are sound and miss nothing they have room for; chunks cover the text |
| Embeddings (`services/embeddings`) | the primary of `MultiOllama` | `Generate`, `HealthCheck` | failover through a shared field | the remote source is asked before a call fails |
| Retry engine (`services/retryengine`) | none | `Execute`, `calculateDelay` | cancellation, overflow, retries that count against shared health | bounded attempts, delays and refusals |
| Observability, prompt templates | event rows; a table | `Record`, `List` | - | - |

How they interact: an application calls `StartWorkflow` (attach, seed the input in
memory, `Run`) or `Run`; `Run` reads the session, inserts its ledger row, loads
the graph, and then for each node reads the session's status, calls the first
executor that accepts the node's type, stores the output in memory, selects an
edge with the rules engine and moves the session. The LLM executor calls the
router, the router a provider. At the end the ledger row is stopped, the tasks of
the session are decided, and the session's status is set. Other goroutines or
processes pause, resume, close and start sessions meanwhile. The only state that
is shared in memory is the router's and that of `MultiOllama`; everything else
meets in the database, one autocommitted statement at a time.

`PROJECT.json` lists every component with its status, and every hazard at its
line with the properties that watch it.

## Modules

| Module | What it is |
|---|---|
| `Decisions` | environments, findings and the derivation of decisions, as operators |
| `LoopController` | the loop: one process per invocation, one action per SQL statement or decision of `Run` |
| `LoopLedger` | abstract: what the table `agentic_loop_runs` promises its readers |
| `LoopProperties` | invariants, action properties, the refinement and liveness of the loop |
| `MCLoop` | two workflow tables and the outputs and inputs of the small instances |
| `LoopControllerProofs` | the inductive invariant of the loop: types, limits, the ledger |
| `LoopSafetyProofs` | decisions and tasks; pauses, the position and the human gate |
| `FindingsScan` | the scan of a findings array entry by entry, with its properties |
| `FindingsScanProofs` | its correctness for arrays of every length |
| `ModelRouter` | the router, its callers, the health checker and the services behind it |
| `MCRouter` | names and models of three providers, two under one name |
| `NodeAttempts` | the retry engine around the LLM executor around the router |
| `MCAttempts` | nodes, policies and providers of the small instance |
| `RouterProofs` | status and routing; both under retries; attempts and strikes |
| `Statements` | the outcomes of an SQL statement, shared by the modules below |
| `Clock` | the time the stores read |
| `Chunker` | `ChunkText` paragraph by paragraph and sentence by sentence |
| `EmbeddingSources` | `MultiOllama`: two sources and the shared `primary` |
| `RagService` | `Ingest`, `Search`, `DeleteDocument` and `Embed`, over both of those |
| `DocumentCatalogue` | abstract: the life of a document and of its chunks |
| `MCRag` | texts, tenants and sizes of the small instance |
| `ChunkerProofs` | bounds, order and completeness of the chunks |
| `RagProofs` | what callers are told, the catalogue, the sources |
| `RagCompletenessProofs` | completeness of what is indexed, searches, notes |
| `MemoryStore` | `Put`, `Get`, `Query`, `Invalidate` of one key |
| `Snapshots` | saving and loading compressed state |
| `SemanticCache` | `Store` and `Lookup`, beside the vectors that others store |
| `Reviews` | rows of `human_reviews` and who can read them |
| `MCStores` | the four stores and the scan side by side |
| `StoreProofs` | memory and snapshots, the types of all, and that each is the same beside the others |

`RagService` extends `Chunker` and `EmbeddingSources`: a step of either is a step of
the service while `Ingest` or a request is in it. `NodeAttempts` extends
`ModelRouter` and conjoins its actions with what they do to the frames of the two
`Execute`s. The stores share only the clock.

Operators whose name is that of the next operator with a suffix
(`SpentOffByOne` before `Spent`, `RegisterBlank` before `Register`) are faulty
variants. Each property of a passing run has been seen to fail with one of them in
place of the real definition; `PROJECT.json` "mutants" says which.

### LoopController and the code

*State.* `session` is the row of `agent_sessions` as far as the loop reads it
(status, `current_workflow_id`, `current_node_id`; `""` is Go's empty string).
`loop_input` is the current `loop_input` memory item and `rows` every input and
output value that was inserted in memory. `ledger` has a row per invocation,
`tries` the number of its try-run rows, `tasks` status and decision of the tasks.
`run[r]` is the stack frame of invocation `r`: a program counter, the arguments,
the *snapshot* of the session's workflow and node (135, updated at 289 only), the
iteration count, the reason to stop. `env[r]` is the accumulated environment.
`cancelled` holds the invocations whose context is done, and `reported` is a
history variable: those that returned an error or logged one. Two fields of the
frame are history too: `held`, set by `Pause` in every run in progress and cleared
by `Resume` and `Close` only, whatever else overwrites the status, and `overrun`, the
nodes a run entered while held though its read of the status did not fail.

*Actions.* `AttachWorkflow`, `SupersedeInput`, `InsertInput` are the statements of
`StartWorkflow`; `LoadSession`, `CreateLoopRun`, `LoadGraph` the opening of `Run`;
`SeePause`, `SpendIterations`, `RunOutOfTime`, `HaveNoPosition`, `MissNode` and
`EnterNode` the six ways an iteration can start (183-227), in the order of the
code's early returns; `BeginNode`, `FailNode`, `FinishNode`, `UpdateCurrentNode`,
`CountIteration` one node (229-302); `MarkStopped`, `CollectTasks`, `DecideTask`,
`LoseTaskRows`, `UpdateStatus` the end. `Endings` tabulates, for each reason to
stop, the ledger status, whether tasks are decided, and the session status.
`Pause`, `Resume`, `Close`, `Cancel`, `Crash`, `CallRun` and `StartWorkflow` are
the surroundings.

*Statements.* A write is applied and acknowledged, refused, or applied with its
answer lost (`Outcomes`); on a context that is done `database/sql` refuses it.
Where the code drops an error (`_, _ =`) the model goes on; where it logs or
returns it the invocation is `reported`.

*Data.* An environment is a partial function from the five keys that the loop or
the example edges look at. A finding is its status word, with the substrings the
code looks for as a set (`Markers`). An edge condition is a set of equalities; one
over an absent key does not hold, as one that does not compile does not
(`workflow/graph.go:88-94`). Priorities decide, and among equal ones any edge may
be first.

*Left out.* Broadcast events, log texts, `result_summary`, metrics rows, the
completion of try-run rows and compressed state: nothing in the loop reads them
back. Time: `RunOutOfTime` may happen at the top of any iteration. Memory expiry:
the loop stores without one.

### ModelRouter and the code

`providers`, `modelMap` and `health` are the router's maps; a call and a health
check are processes that choose under the lock, wait outside it and record under
it again (`Resolve`, `CallEnds`, `RecordCall`; `RunHealthChecks`, `HealthCheck`,
`RecordProbe`). `resolveProvider` returns a set since Go's map order is random. A
provider may be registered again with another instance; the model map then keeps
the old one for models that the new one lacks. An error may come from a service
that is up (a cancelled context, a rejected request). `ErrorMsg` and `LastCheck`
are left out. `RunHealthChecks` reads the provider map without the lock; the model
reads it at once, that is, registrations do not race with the start of a round.

### NodeAttempts and the code

`exec[c]` is the frame of `Engine.Execute` (`retryengine/retry.go`) with that of
`LLMExecutor.Execute` inside: node, policy, attempt, delay, the last error and the
answer. `StartExecute`, `EndWait` and `AfterError` are the loop of `Execute`
(64-90), `GetDefinition`, `FindNoProvider`, `Request`, `TakeRefusal` and
`TakeAnswer` the executor (`executor.go:47-107`); `Request` is the router's
`Resolve`, the two `Take`s its `RecordCall`. `asked`, `to` and `strikes` are
history. That an application gives the one `Execute` to the other is what the
repository's README offers; no code in the source does it, so this composition is
an assumption.

An error is one of four kinds and a policy the set of kinds whose text contains
one of its substrings. No text in the library contains those of `DefaultPolicy`
(`timeout_error`, `rate_limit_error`, `llm_error`), hence its empty `retryOn`. A
cancelled context is the other choice at each wait, and a refusal elsewhere. Durations are milliseconds between
`-Half` and `Half - 1` and wrap there, as nanoseconds do at `2^63`; the jitter is one of its extremes, 0
and 999. `parseJSONObject` yields an object, nothing, or for the text `null` a nil
map, on which the assignment at 104 panics. Outages are left to the answers (a
service that is up may refuse); `router_recovery` has them.

### RagService and the code

*Chunker.* Of a text the lengths of paragraphs and sentences are kept, in runes,
trimmed and not blank. A chunk is its length, the interval of sentences it holds
(without those of the overlap), and the length of the last piece added. `Joined`
is both branches of 65-81 and, with another separator, of 103-118.

*Sources.* `primary` is read and written by every caller without a lock. The Go
memory model gives a racing read of one pointer one of the values written, so each
access is one atomic read or write; that `Generate` reads the field three times
(128, 129, 131) is in the model as three steps. What a source answers is a choice.

*Tables.* `docs` is `rag_documents`, `chunkRows` the pairs of document and index in
`rag_chunks`, `vectors` the rows of `embeddings`, `notes` what a tenant's own
embedding was made of. Foreign key and cascade (`service.go:72`) are in
`InsertChunk` and `DeleteDocument`; vectors refer to nothing and stay. Each
statement is a step with an outcome of `Statements`; where the code drops an error
(121, 140) or goes on (137) so does the model. `told`, `marred`, `kept` and the
client's `saw` and `cut` are history.

*Left out.* The vectors' values: `Rank` takes any `TopK` vectors of the tenant.
Content hashes, file names, frameworks; a second client, since all a client shares
with the first is `primary`, which `Ingest` races with already.

### The stores and the code

*MemoryStore* is one key: `items` is the sequence of its rows, with the time of
insertion and of expiry. `Put` is `StartPut` (the expiry is taken from the process'
clock, 43-47), `Supersede` and `InsertItem`, so that Puts interleave and fail in
between. `Get` is a set since rows of one instant may come in any order. `raced` and
`acked` are history.

*Snapshots* makes the id from the second before it inserts; `created_at` is the
database's time at the insertion. `asOf` is history: the latest time at which a
snapshot was made whose saver was told that it, or its id, is stored.

*SemanticCache* has the conflict clause of `Store` (86-93: the output of the row is
updated, the task type is not) and `Lookup` query by query; different texts have
different hashes. The similarity search (49) is over the table `embeddings`, which is
`vectors` here: the texts that are embedded. `Store` (74-95) does not write it, only
`Embed` and `Ingest` of the RAG service do (the action `Embed`), and nothing takes a
vector away. A text that is embedded and never stored stands for a chunk or a note.
Among the vectors of the tenant the search may find any or none. `hit_count` is
left out.

*Reviews* has the unguarded updates, and the NULLs of `assigned_to` and
`resolved_by` that cannot be scanned into a string (`review.go:134, 152`): `Readable`.

*FindingsScan* is the one of these that stores nothing: the two loops over an
array of findings, one entry a step, with `seen` for the index of either. `Meaning`,
`Rule` and `Misread` are not code but what its comments say and where it departs
from them.

`MCStores` puts the four stores and the scan beside each other; `part` says which one
a behaviour is about, since no step of one reads another's state and the product of
all would only repeat that.

## Runs

| Run | Checks | Shows |
|---|---|---|
| `loop_exclusive` | `TypeOK`, `IterationsBounded`, `LedgerSettled`, `SessionNeverAheadOfLedger`, `PositionIsDurable`, `PauseWindow`, `WalkIsAPath`, `HumanGateHolds`, `LedgerSpec` | with two invocations one after the other, each of them subject to refused and lost statements, cancellation and crashes (3.8 million states) |
| `loop_shared` | `DecisionsAreBacked`, `NoTaskForgotten`, `EveryRunReturns` | with two invocations at the same time, two workflows and two tasks, no failures, weak fairness of each invocation (565 thousand states) |
| `router_choice` | `AttemptsTypeOK`, `StatusFollowsFailures`, `ThreeStrikes`, `AttemptsAreAccounted`, `RoutingIsSound` | nodes resolved again and again with three policies over three providers, the health checker's goroutines and registrations (4.6 million states) |
| `router_recovery` | `OutageIsContained`, `ChecksBringBack` | two names, one of them registered with two instances, with fair answers (240 thousand states) |
| `retrieval` | `TypeOK`, `TextIsCovered`, `ChunksBounded`, `FailsOver`, `IndexedIsComplete`, `ToldIsTrue`, `SearchIsSound`, `SearchIsThorough`, `NotesAreKept`, `CatalogueSpec`, `EveryIngestReturns` | a document ingested, searched and deleted in any interleaving, notes of its tenant, failing statements and sources, weak fairness of `Ingest` (1.0 million states) |
| `stores` | `TypeOK`, `LatestIsCurrent`, `CurrentAreFew`, `AckedIsFound`, `LoadedIsRecent`, `ScanFollowsRule`, `VerdictMatchesSummary` | three writers of a key, two savers, a cache of three entries, two reviews, with time and failing statements, and all findings arrays of up to three entries (3.2 million states) |
| `loop_resume` | `ReviewOnlyWithoutDecision` | **violated**: a resumed run does not see what an earlier run of the session decided (comment at 388-391) |
| `loop_attach` | `AttachStartsAtEntry` | **violated**: `AttachWorkflow` leaves the old position (comment at `sessions/session.go:137`) |
| `findings_stated` | `ComplianceIsStated` | **violated**: "INCOMPLETE" contains "complete" (comment at 587-588) |
| `cache_similar` | `SimilarTextIsServed` | **violated**: the semantic tier looks up the hash of the text it was given, not of the match (`docs/architecture.md:63-64`) |
| `cache_task` | `OutputIsOfTheTask` | **violated**: a `Store` for another kind of task replaces the output under the first one's task type (`semanticcache/cache.go:34, 90`) |
| `reviews_pending` | `PendingIsListed` | **violated**: a pending review has NULL columns, which `List` cannot scan and passes over (`reviews/review.go:115-118`) |

Four more divergences have no run of their own:

* Even if the second query of `Lookup` asked for the match's hash, `Store` embeds
  nothing, so that a tenant who only stores and looks up has no vector to be found;
  `cache_similar` takes the vector from somebody's `Embed`.
* An array of findings none of which is an object is "comply", since the flag starts
  true (575-598, against "no fabrication" at 556). `ComplianceIsStated` fails for it
  as well, and `findings_stated` stops at the one cause or the other.
* A decision in the input of a session is written though no node ran (434), which
  is a basis by 392-393 and none by 478-480.
* The summary counts as compliant whatever is not negative, "pending" included
  (627-643), while the decision beside it does not; `VerdictMatchesSummary` compares
  the negative ones only.

Deadlock is not checked anywhere: a system in which every invocation has been
made and has returned, the session closed, may rest, and so may the stores. That
nothing blocks *before* that is what `EveryRunReturns` says.

### Bounds, and why they are enough

* `Runs`: two invocations. An invocation never starts again, so `{r1, r2}` gives
  start then resume, attach then attach, and two concurrent callers, which is
  where the interactions are; a third adds repetitions.
* `MaxActive` (invocations in progress): 1 in `loop_exclusive`, since some of what
  is checked there holds for a run that has its session for itself (a run that ends
  sets the status without a guard, `session.go:123`: it undoes a pause, and another
  run in progress goes on); 2 in `loop_shared`.
* `MaxIterations` = 2 and graphs of three nodes with a cycle and a human gate:
  the limit, the cycle, the gate, the end without edges and an edge to a node that
  is gone all happen.
* `Outputs`: chosen per run so that both edges of the first node can be taken, and
  so that evidence, answers for one task and nothing at all can be merged.
* `MaxFindings` = 3: a negative, an ambiguous and a compliant entry in any order,
  with or without one that is no object.
* `MaxFailures` = 3: `ConsecutiveFailures` is only compared with 1 and 3, so
  counting no further loses nothing.
* One caller in the router runs: each name has in addition the goroutine of its
  health check, so two results for one provider are in flight and are recorded in
  either order. The theorems hold for any number of callers.
* Policies in `MCAttempts`: the default one; four attempts on refusals, one more
  than take a provider offline, whose exponential delays wrap at `Half` = 4096; two
  attempts on other errors with jitter.
* `BatchSize` = 2 and texts of no, two and three chunks: no batch, a full one, a
  full and a partial one. Of the texts one has a paragraph cut by sentences with a
  sentence longer than a chunk, between a paragraph that fits and the end.
* One document: documents meet in nothing but the places of a search, for which
  the note (and vectors left by a deletion) compete; the other tenant shows that
  searches keep to their own. The theorems hold for any number of documents.
* `TopK` = 3: with the note four vectors may compete for the places, and without it
  there is room for all.
* `MaxItems` = 3 with three writers: two that overlap and one that comes after
  them, which is what `LatestIsCurrent` is about; `MaxTime` = 3 and times to live
  of 0 and 1: an item may expire before, between and after other insertions.
* `Second` = 2 units of the clock: two ids within a second and two that are not.

### Fairness

`FairSpec` of the loop assumes weak fairness of each invocation's own steps, and
nothing of pauses, resumes, closes or calls. The Go scheduler runs a goroutine
that can run; statements and executors are assumed to answer (the provider
clients have HTTP timeouts of 60 to 120 seconds, and a statement that fails is an
answer). Without the latter assumption nothing is live, since `TimeoutMs` is
recorded and never enforced. `RunOutOfTime` gets no fairness of its own: runs end
by their iteration limit.

`FairSpec` of the router assumes weak fairness of each call and each check that
is out. No fairness is assumed of `RunHealthChecks`, since nothing in the source
schedules it: `ChecksBringBack` has checks that succeed again and again as its
premise.

`FairSpec` of `RagService` assumes weak fairness of the goroutine in `Ingest`
together with its request: statements return, and the client's requests have a
timeout of 60 seconds (`ollama.go:24`). Nothing is assumed of searches, deletions
and other uses of the sources, which may move `primary` at any time.

## Proofs

All theorems are proved for every value of the constants that satisfies the named
assumptions of the modules: any number of invocations, any workflow tables, outputs
and limits (`LoopAssumption`, `GraphAssumption`, `AnswersAssumption`), arrays of any
length (`FindingsAssumption`), any providers and callers (`RouterAssumption`), any
nodes, policies and ranges of durations (`AttemptsAssumption`), any texts and sizes
that `NewChunker` leaves (`ChunkerAssumption`), any documents, tenants, batches and
failures (`RagAssumption`, `FaultyAssumption`), any finite set of writers
(`MemoryAssumption`), any savers and length of a second (`SnapshotAssumption`), any
tenants, texts and task types (`CacheAssumption`). Seven theorems about the loop
have a hypothesis of their own, which is stated below with its reason.

Every invariant, action property and refinement that a passing run checks is stated
by a theorem. `PROJECT.json` "theorems" lists them with their properties.

*The loop* (`LoopControllerProofs`). `TypeOK` alone is not inductive for the
properties: that a ledger row is stopped once needs to know which program counters
still have to stop it. The inductive invariant is `Inv == TypeOK /\ \A r \in Runs :
RunInv(r)`, where `RunInv` has three parts: `RunControl` says what a
program counter implies of the frame (a graph is loaded while a node is worked on;
tasks are decided and the session's status is set only for endings that do so),
`RunLimits` relates the iteration count, the try-run rows and the ledger's count
(try-run rows are at most one ahead of the iteration count, and only while a node
is in flight, when the count is below the limit; the ledger is never ahead), and
`RunRow` relates the ledger row's status to the program counter (no row before
`CreateLoopRun`, running through the loop, the ending's status or a reported
failure after `MarkStopped`). `InvHolds` is proved with one step per
action; most actions move a single invocation and leave the others' parts alone,
which a few lemmas say once. From it:

* `TypeCorrect`, `IterationsAreBounded`, `LedgerIsSettled`: invariants.
* `SessionFollowsLedger`: the session's status is set by `UpdateStatus` only after
  `MarkStopped` of the same invocation, which left the row or the report; ledger
  rows that are stopped never change, so later steps cannot take the evidence away.
* `LedgerIsRefined`: `Spec => Ledger!Spec`, with `ledger` mapped to itself; each
  step of the loop is a step of `LoopLedger` or leaves the ledger alone.

*Decisions and tasks* (`LoopSafetyProofs`, first half) are what `loop_shared`
checks, and the theorems assume what that run does: `Faulty = FALSE`. They are not
true otherwise. The query for the tasks and the UPDATE of a task may fail, and the
code goes on (398-403, 462-468): a task stays open, and a decision may be written
while the output that gives it was not stored (263). Any number of invocations may
share the session. `UnfailingNext` first says that then no context ever ends, so
that every statement is done. `NoTaskIsForgotten` needs `AnsweredInv`: of the tasks
that a run which saw work has gone over none is open, and no step of any run opens a
task again. `DecisionsAreAllBacked` needs `SourcedInv`: every value of an
environment, and of the `loop_input` item that it starts from, comes from a stored
value under the same key, however runs merge; and each clause of the derivation
looks at one key at a time (`DecisionHasAReason`).

*Pause, position and gate* (`LoopSafetyProofs`, second half) are what
`loop_exclusive` checks, with failures, cancellation and crashes. The theorems have
the form `Spec /\ []Alone => ...`, where `Alone` says that no two invocations of the
session are in progress at the same time, and `OneAtATime` proves `[]Alone` for
every instance with `MaxActive = 1`. Without it they are false: the position is kept
in the frame of each run and written without a guard, as the status is
(`sessions/session.go:123`), so two runs overwrite each other's, and the end of one
undoes a pause that the other has not seen. `PauseWindowHolds` needs `HeldInv`: a
run that is held is in progress and the session still paused, since the run itself
sets the status only as it ends; therefore at the top of the loop it sees the pause,
unless the read fails (183-189), and what it enters then is not counted. `TracksInv`
says what each program counter implies of frame and row: before a node the frame's
position is the row's or, when that is empty, the graph's entry; after
`UpdateCurrentNode` the row's is the target of an edge from the node just done; and
a run that stops to wait has left a `human_input` node by such an edge. Hence
`PositionIsKept`, `WalksAreOnPaths`, `HumanGatesHold`.

*The scan* (`FindingsScanProofs`). The flags after `seen` entries say whether a
negative one is among them and whether all objects are explicitly compliant, that is,
the scan computes `DecisionFromFindings` of the entries' set, which is the code's rule
over substrings. `SubstringsFollowRule` compares that with `Rule`, which is the
comments' rule over what the words mean: they are the same unless the array is one of
`Misread`. Hence `ScanIsCorrect`, with that exception in its statement, and
`SummaryAgrees`; `ScanTypeCorrect` is its type.

*The router* (`RouterProofs`). The invariant adds to the types that the model
map's instances advertise their models and that provider names match, whence
`RoutesAreSound`; and that a record's status is that of its count, whence
`StatusIsFailures`.

*Retries over the router* (same module). Every step of `AttemptsNext` is a step of
the router or leaves it alone (`AttemptsAreSteps`), so its invariant and
`RoutingIsSound` carry over. `AttemptsAreAllAccounted` needs `FramesInv`, which
relates a frame's attempt, requests and answer at each program counter: one request
per attempt at most, none for a node of rules, the last error kept until the
attempts are used up, so that "exhausted" comes after the last attempt, with an
error that the policy names, or from a policy without attempts. That no wait exceeds
the cap and the jitter is proved with nothing known of a power of two but that it is
an integer: so is a wrapped product, possibly negative, and the comparison at the
end of `calculateDelay` does the rest. `ThreeStrikesHold` needs `StrikesInv`: the
strikes of a frame are at most the failures in a row of the provider they are of (a
success or a registration, which alone lower those, reset the strikes), and a frame
that is asking the provider that struck it has two at most. The latter holds when
the request is made, since an offline provider is not chosen and fewer than three
failures is what not offline means.

*The chunker* (`ChunkerProofs`). `ChunkInv` says of the chunk in the making and of
those made that they are within the bound and that each starts where the one before
ended. `ChunksAreBounded` and `ChunksAreConsecutive` follow. That all sentences of
the text are in the chunks (`EverySentenceIsKept`) is about `Sentences`, a sum over
the text by a recursive function, and so needs an induction over its length. The
library's induction rules take an operator; `SetInduction` says the same of a *set*
of numbers, proved from the least element of its complement, for which the
well-foundedness of the naturals is enough. With it `SentencesCount` (the sum is a
natural number) and `SentencesOfTail` (the sum of a text is that of its first
paragraph and of the rest) give the invariant `Covered`, in which the sentences in
the chunks, left of the paragraph and left of the text add up to those of the text.

*Ingest and its callers* (`RagProofs`, `RagCompletenessProofs`). `DocsInv` relates
the document in hand to the table: it is processing or deleted while `Ingest` works
on it, nobody has been told of it, and chunks have their documents; whence
`CallersAreToldTheTruth` and, step by step, `CatalogueIsRefined`. `StoreInv` adds how far
the two nested loops are: unless marred or deleted, the document has rows and
vectors for every index below `ingest.at`, the indexes are below the count, and the
count is that of the chunks in hand; at "index" `at` is the count, whence
`IndexedMeansComplete`. `ChunksStayBounded` and `TextStaysCovered` carry the
chunker's results over: a step of the service is one of the chunker or leaves it
alone.

*Sources* (`RagProofs`). `RequestsFailOver` needs `SourcesInv`, where `CallOK`
follows a request that has asked the local source alone: `primary` is local at that
point unless another caller has written it since (`raced`), therefore the request
falls back to the remote one, or was raced.

*Searches and notes* (`RagCompletenessProofs`). `ClientInv` adds the client to the
invariant of `Ingest`: a document that was indexed or gone when the search began is
so still or gone (`SawInv`), what is found and what is still to be read are at most
`TopK` vectors of its tenant, found ones of documents that were there
(`ResultsInv`), and, when all vectors of the tenant have room, every chunk of a
document that is indexed since before the search is among the ones or the others (`ThoroughInv`, which needs the completeness of what is
indexed). Hence `SearchesAreSound`, `SearchesAreThorough`, `NotesStay`, and with
the types of tables and frames `RagTypeCorrect`.

*The stores* (`StoreProofs`). While no Puts race there is one at most, nothing is
current when it is about to insert, and otherwise the last item alone may be
(`Orderly`); what is held to be acknowledged is current. Hence
`LatestAloneIsCurrent` and `WhatIsAckedIsFound`. Whoever is about to insert has
superseded every row there was, so the current rows and the writers about to insert
are together at most as many as there are writers (`Few`): `NoPileOfCurrentItems`.
The id of every snapshot, stored or about to be, is the second of a time before its
insertion (`IdsAreTimely`). A saver that is refused therefore finds a row whose
second is that of its own id, and times in one second are less than a second apart
(`SameSecond`): there is always a row inserted after the latest snapshot that savers
know of was made, or less than a second before (`SomeIsRecent`), and the one that is
loaded is no older. That is `LoadsAreRecent`. Of the cache and of the reviews only
the types are proved: what one would want to be true of them is what
`cache_similar`, `cache_task` and `reviews_pending` refute. That what is proved of
each alone holds of all together is `StoresAreIndependent`: `Spec => MemorySpec /\
SnapshotsSpec /\ CacheSpec /\ ReviewsSpec /\ ScanSpec`.

Only model-checked: the liveness properties `EveryRunReturns`,
`EveryIngestReturns`, `OutageIsContained` and `ChecksBringBack`. Liveness under
fairness needs ENABLED, which is beyond the prover. Each is checked on the instance
of its run, under the fairness stated above.

## Plan

Done: the loop with its ledger, decisions, the scan of findings, the router; the
stores; chunker, ingest, search and sources with the catalogue; retries and the
executor over the router; proofs of every safety property of the runs.

Left, in this order:

1. Weaker hypotheses for the theorems on decisions and tasks: that only the
   statements which the argument uses do not fail, in place of none at all.
2. The connection pool under `writePerTaskDecisions` (a cursor held open while the
   tasks are updated).
3. The expiry sweep of sessions, should the source get a caller of `ListExpired`.

## Not modelled

Provider wire formats, text extraction (`rag/extract.go`), similarity of vectors
and the CEL language are libraries or string processing. `Status`,
`ListDocuments`, `ListByTenant`, `ListExpired` and `ProviderModels` only read.
`AnalyzeWithLLM` formats what `Search` returned for a model. Observability is
independent INSERTs and SELECTs, as are the agent registry's instances; nothing in
the source reads them back. Prompt templates are a table without code. The HTTP
endpoints named in comments are not in the repository; `Pause` and `Resume` follow
the comment at 183-186. The pool of database connections has no size in the source,
so that a run may wait for itself with a pool of one (398-475) is noted as a hazard
and not checked. `RunHealthChecks` reading the provider map without the lock is a
data race on a map, for which Go may end the process; the model reads it at once.
