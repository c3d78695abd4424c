---- MODULE LoopController ----
(***************************************************************************)
(* The autonomous loop of agentic/loopcontroller over one session: every   *)
(* invocation of Controller.Run or StartWorkflow is a process that works   *)
(* against the session's row, its memory, its ledger row, the try-run      *)
(* table and the tenant's tasks with one SQL statement per step, while     *)
(* other invocations, the pause and close endpoints, cancellation of its   *)
(* context and crashes of the process interleave with it.                  *)
(*                                                                         *)
(* An operator with the name of the one after it and a suffix (SpentOff-   *)
(* ByOne, Spent) is a faulty variant, for testing the properties.          *)
(***************************************************************************)
EXTENDS Naturals, FiniteSets, Decisions

CONSTANTS
  Runs,           \* invocations of the loop on the session
  Starters,       \* those made through StartWorkflow; the others call Run
  Tasks,          \* task ids bound to the session
  Workflows,      \* workflow ids
  NodeIds,        \* node ids, whether or not a workflow has the node
  Graph,          \* workflow -> [entry, types, edges], the workflow tables
  Outputs,        \* what a node's executor may return; EmptyEnv is a nil map
  Inputs,         \* inputs StartWorkflow may be given; EmptyEnv is no input
  MaxIterations,  \* LoopConfig.MaxIterations
  MaxActive,      \* bound: invocations in progress at a time
  Faulty          \* whether statements may fail, contexts end, processes die

None == ""        \* Go's empty string: no workflow attached, no current node

ASSUME LoopAssumption ==
  /\ MaxIterations \in Nat \ {0}
  /\ Faulty \in BOOLEAN
  /\ None \notin Workflows \union NodeIds
  /\ \A o \in Outputs \union Inputs \union {EmptyEnv} : IsEnv(o)

\* Graph[w].types maps the ids of w's nodes to their node types; an edge is
\* [from, to, when, priority], whose "to" LoadGraph does not look for among the nodes.
ASSUME GraphAssumption ==
  \A w \in Workflows :
    /\ Graph[w].entry \in NodeIds \union {None}
    /\ \A x \in Graph[w].edges : x.to \in NodeIds

VARIABLES
  session,     \* the row of agent_sessions: [status, wf, node]
  loop_input,  \* the current loop_input item of session memory; EmptyEnv: none
  rows,        \* every value ever inserted in agent_memory_items
  ledger,      \* agentic_loop_runs: Runs -> [status, iter]
  tries,       \* rows of try_run_events: Runs -> Nat
  tasks,       \* the tenant's tasks: Tasks -> [status, decision]
  run,         \* the local state of each invocation, and two histories: "held",
               \* it was in progress at a pause that nobody has resumed or closed
               \* since, and "overrun", the nodes it entered while held though
               \* its read of the session's status did not fail
  env,         \* the accumulated environment of each invocation
  cancelled,   \* invocations whose context is done
  reported     \* history: invocations that logged or returned an error

database == <<session, loop_input, rows, ledger, tries, tasks>>
process  == <<run, env, cancelled, reported>>
vars     == <<database, process>>

----
(* Types *)

SessionStatuses == {"pending", "running", "paused", "waiting_for_user",
                    "completed", "timed_out", "failed", "closed"}

Stops == {"none", "paused", "max_iterations", "timeout", "no_position",
          "no_edges", "execution", "waiting", "error"}

Pcs == {"idle", "attach", "supersede", "insert", "load", "create", "graph",
        "top", "begin", "execute", "move", "count", "mark", "collect",
        "decide", "finish", "returned", "crashed"}

TypeOK ==
  /\ session \in [status : SessionStatuses, wf : Workflows \union {None},
                  node : NodeIds \union {None}]
  /\ loop_input \in Inputs \union {EmptyEnv}
  /\ rows \subseteq Inputs \union Outputs \union {EmptyEnv}
  /\ ledger \in [Runs -> [status : {"none", "running", "completed", "failed", "timed_out",
                                    "paused", "waiting_for_user"},
                          iter : Nat]]
  /\ tries \in [Runs -> Nat]
  /\ tasks \in [Tasks -> [status : {"open", "completed", "needs_review"},
                          decision : Answers]]
  /\ run \in [Runs -> [pc : Pcs, arg_wf : Workflows \union {None},
                       arg_in : Inputs \union {EmptyEnv},
                       wf : Workflows \union {None}, node : NodeIds \union {None},
                       next : NodeIds \union {None}, iter : Nat, stop : Stops,
                       left : SUBSET Tasks, work : BOOLEAN,
                       held : BOOLEAN, overrun : Nat]]
  /\ \A r \in Runs : IsEnv(env[r])
  /\ DOMAIN env = Runs
  /\ cancelled \subseteq Runs
  /\ reported \subseteq Runs

----
(* The database.  A statement is applied and acknowledged, refused, or     *)
(* applied with its answer lost; on a finished context database/sql        *)
(* refuses it before it is sent.                                           *)

Done    == [applied |-> TRUE,  ok |-> TRUE]
Refused == [applied |-> FALSE, ok |-> FALSE]
Lost    == [applied |-> TRUE,  ok |-> FALSE]

Outcomes(r) == CASE r \in cancelled -> {Refused}
                 [] r \notin cancelled /\ Faulty -> {Done, Refused, Lost}
                 [] OTHER -> {Done}

\* Whether a query may succeed, and whether it may fail.
ReadOk(r)   == r \notin cancelled
ReadFails(r) == r \in cancelled \/ Faulty
ReadResults(r) == {failed \in BOOLEAN : IF failed THEN ReadFails(r) ELSE ReadOk(r)}

Active == {r \in Runs : run[r].pc \notin {"idle", "returned", "crashed"}}

ProducedWork == \E q \in Runs : tries[q] > 0     \* sessionProducedWork

----
(* SelectNextEdge: edges are ordered by priority only, so the database may *)
(* return edges of equal priority in any order.  A condition is a set of   *)
(* equalities, and one that names an absent key does not compile.          *)

Holds(when, e) == \A k \in DOMAIN when : k \in DOMAIN e /\ e[k] = when[k]

MatchingEverywhere(w, n, e) ==
  {x \in Graph[w].edges : Holds(x.when, e)}
Matching(w, n, e) ==
  {x \in Graph[w].edges : x.from = n /\ Holds(x.when, e)}

SelectNextEdge(w, n, e) ==
  {x.to : x \in {y \in Matching(w, n, e) :
                   \A z \in Matching(w, n, e) : y.priority >= z.priority}}

NextNodeType(r) == Graph[run[r].wf].types[run[r].next]
NodeType(r) == Graph[run[r].wf].types[run[r].node]

----
(* How a run ends: the status of its ledger row, whether it decides the    *)
(* tasks, and the status it leaves in the session (None: untouched).       *)

Endings ==
  [none           |-> [row |-> "failed",           decides |-> FALSE, session |-> None],
   paused         |-> [row |-> "paused",           decides |-> FALSE, session |-> None],
   max_iterations |-> [row |-> "completed",        decides |-> TRUE,  session |-> "completed"],
   timeout        |-> [row |-> "timed_out",        decides |-> TRUE,  session |-> "timed_out"],
   no_position    |-> [row |-> "completed",        decides |-> TRUE,  session |-> "completed"],
   no_edges       |-> [row |-> "completed",        decides |-> TRUE,  session |-> "completed"],
   execution      |-> [row |-> "failed",           decides |-> FALSE, session |-> "failed"],
   waiting        |-> [row |-> "waiting_for_user", decides |-> FALSE,
                       session |-> "waiting_for_user"],
   error          |-> [row |-> "failed",           decides |-> FALSE, session |-> None]]

AfterMarkGoingOn(stop) ==
  CASE Endings[stop].decides -> "collect"
    [] stop = "waiting" -> "top"
    [] ~Endings[stop].decides /\ stop # "waiting" /\ Endings[stop].session # None -> "finish"
    [] OTHER -> "returned"
AfterMarkSpinning(stop) ==
  CASE Endings[stop].decides -> "collect"
    [] stop = "paused" -> "top"
    [] ~Endings[stop].decides /\ Endings[stop].session # None -> "finish"
    [] OTHER -> "returned"
AfterMark(stop) ==
  CASE Endings[stop].decides -> "collect"
    [] ~Endings[stop].decides /\ Endings[stop].session # None -> "finish"
    [] OTHER -> "returned"

\* The local state of an invocation that has done nothing, or of a dead one.
Fresh(pc) == [pc |-> pc, arg_wf |-> None, arg_in |-> EmptyEnv, wf |-> None,
              node |-> None, next |-> None, iter |-> 0, stop |-> "none",
              left |-> {}, work |-> FALSE, held |-> FALSE, overrun |-> 0]

Quietly       == UNCHANGED <<env, cancelled, reported>>
Goto(r, pc)   == run' = [run EXCEPT ![r].pc = pc] /\ Quietly
Halt(r, stop) == run' = [run EXCEPT ![r].pc = "mark", ![r].stop = stop] /\ Quietly

\* The call is over, and its local state with it.
Leave(r, pc) ==
  /\ run' = [run EXCEPT ![r] = Fresh(pc)]
  /\ env' = [env EXCEPT ![r] = EmptyEnv]
  /\ cancelled' = cancelled \ {r}
Return(r)      == Leave(r, "returned") /\ UNCHANGED reported
ReturnError(r) == Leave(r, "returned") /\ reported' = reported \union {r}

----
Init ==
  /\ session = [status |-> "pending", wf |-> None, node |-> None]
  /\ loop_input = EmptyEnv
  /\ rows = {}
  /\ ledger = [r \in Runs |-> [status |-> "none", iter |-> 0]]
  /\ tries = [r \in Runs |-> 0]
  /\ tasks = [t \in Tasks |-> [status |-> "open", decision |-> NoDecision]]
  /\ run = [r \in Runs |-> Fresh("idle")]
  /\ env = [r \in Runs |-> EmptyEnv]
  /\ cancelled = {}
  /\ reported = {}

----
(* The callers *)

MayInvoke(r) == run[r].pc = "idle" /\ Cardinality(Active) < MaxActive

FirstStatement(w, in) == CASE w # None -> "attach"
                           [] w = None /\ in # EmptyEnv -> "supersede"
                           [] OTHER -> "load"

StartWorkflow(r, w, in) ==
  /\ r \in Starters
  /\ MayInvoke(r)
  /\ run' = [run EXCEPT ![r].pc = FirstStatement(w, in),
                        ![r].arg_wf = w, ![r].arg_in = in]
  /\ Quietly /\ UNCHANGED database

CallRun(r) ==
  /\ r \notin Starters
  /\ MayInvoke(r)
  /\ Goto(r, "load")
  /\ UNCHANGED database

\* The locals of the runs in progress when a pause begins, or is over.
ActiveHeld(held) ==
  [r \in Runs |-> IF r \in Active THEN [run[r] EXCEPT !.held = held] ELSE run[r]]

\* POST /sessions/{id}/pause: the status is all it writes, whatever it was.
Pause ==
  /\ session' = [session EXCEPT !.status = "paused"]
  /\ run' = ActiveHeld(TRUE)
  /\ Quietly /\ UNCHANGED <<loop_input, rows, ledger, tries, tasks>>

\* Resume sets the status back to 'running' and calls Run again.
Resume(r) ==
  /\ r \notin Starters
  /\ MayInvoke(r)
  /\ session.status \in {"paused", "waiting_for_user"}
  /\ session' = [session EXCEPT !.status = "running"]
  /\ run' = [ActiveHeld(FALSE) EXCEPT ![r].pc = "load"]
  /\ Quietly /\ UNCHANGED <<loop_input, rows, ledger, tries, tasks>>

Close ==
  /\ session.status # "closed"
  /\ session' = [session EXCEPT !.status = "closed"]
  /\ run' = ActiveHeld(FALSE)
  /\ Quietly /\ UNCHANGED <<loop_input, rows, ledger, tries, tasks>>

\* The caller's context ends: a client that hangs up, a deadline.
Cancel(r) ==
  /\ Faulty /\ r \in Active \ cancelled
  /\ cancelled' = cancelled \union {r}
  /\ UNCHANGED <<database, run, env, reported>>

\* The process dies: its local state is gone, the database is what it was.
Crash(r) ==
  /\ Faulty /\ r \in Active
  /\ Leave(r, "crashed")
  /\ UNCHANGED <<database, reported>>

----
(* StartWorkflow *)

AttachWorkflow(r) ==
  /\ run[r].pc = "attach"
  /\ \E o \in Outcomes(r) :
       /\ session' = IF o.applied THEN [session EXCEPT !.wf = run[r].arg_wf] ELSE session
       /\ IF o.ok THEN Goto(r, FirstStatement(None, run[r].arg_in)) ELSE ReturnError(r)
  /\ UNCHANGED <<loop_input, rows, ledger, tries, tasks>>

\* memory.Put of the input: an UPDATE that supersedes the current item ...
SupersedeInput(r) ==
  /\ run[r].pc = "supersede"
  /\ \E o \in Outcomes(r) :
       /\ loop_input' = IF o.applied THEN EmptyEnv ELSE loop_input
       /\ IF o.ok THEN Goto(r, "insert") ELSE ReturnError(r)
  /\ UNCHANGED <<session, rows, ledger, tries, tasks>>

\* ... and an INSERT of the new one, in no transaction.
InsertInput(r) ==
  /\ run[r].pc = "insert"
  /\ \E o \in Outcomes(r) :
       /\ IF o.applied
          THEN loop_input' = run[r].arg_in /\ rows' = rows \union {run[r].arg_in}
          ELSE UNCHANGED <<loop_input, rows>>
       /\ IF o.ok THEN Goto(r, "load") ELSE ReturnError(r)
  /\ UNCHANGED <<session, ledger, tries, tasks>>

----
(* Run, up to its loop *)

\* The snapshot of the session that the run keeps to its end.
LoadSession(r) ==
  /\ run[r].pc = "load"
  /\ \/ /\ ReadOk(r)
        /\ run' = [run EXCEPT ![r].pc = "create", ![r].wf = session.wf,
                              ![r].node = session.node]
        /\ Quietly
     \/ ReadFails(r) /\ ReturnError(r)
  /\ UNCHANGED database

CreateLoopRun(r) ==
  /\ run[r].pc = "create"
  /\ \E o \in Outcomes(r) :
       /\ ledger' = IF o.applied
                    THEN [ledger EXCEPT ![r] = [status |-> "running", iter |-> 0]]
                    ELSE ledger
       /\ IF o.ok THEN Goto(r, "graph") ELSE ReturnError(r)
  /\ UNCHANGED <<session, loop_input, rows, tries, tasks>>

\* LoadGraph reads tables nobody writes; an input that cannot be read is none.
LoadGraph(r) ==
  /\ run[r].pc = "graph"
  /\ \/ /\ ReadOk(r) \/ run[r].wf = None
        /\ \/ ReadOk(r)    /\ env' = [env EXCEPT ![r] = Merge(EmptyEnv, loop_input)]
           \/ ReadFails(r) /\ UNCHANGED env
        /\ run' = [run EXCEPT ![r].pc = "top"]
        /\ UNCHANGED <<cancelled, reported>>
     \/ ReadFails(r) /\ run[r].wf # None /\ Halt(r, "error")
  /\ UNCHANGED database

----
(* The loop: the pause check, the limits and the current node.  The status *)
(* is read once per iteration, and a failed read counts as not paused.     *)

PassesPauseCheckAnyway(failed) == TRUE
PassesPauseCheck(failed) == session.status # "paused" \/ failed

SpentOffByOne(r) == run[r].iter > MaxIterations
Spent(r) == run[r].iter >= MaxIterations

CurrentNode(r) == CASE run[r].wf = None -> None
                    [] run[r].wf # None /\ run[r].node = None -> Graph[run[r].wf].entry
                    [] OTHER -> run[r].node

AtTop(r) == run[r].pc = "top"

Looping(r) == AtTop(r) /\ \E failed \in ReadResults(r) : PassesPauseCheck(failed)

SeePause(r) ==
  /\ AtTop(r) /\ ReadOk(r) /\ session.status = "paused"
  /\ Halt(r, "paused")
  /\ UNCHANGED database

SpendIterations(r) ==
  /\ Looping(r) /\ Spent(r)
  /\ Halt(r, "max_iterations")
  /\ UNCHANGED database

\* Time is not modelled: MaxRuntimeMs may be over at the top of any iteration.
RunOutOfTime(r) ==
  /\ Looping(r) /\ ~Spent(r)
  /\ Halt(r, "timeout")
  /\ UNCHANGED database

HaveNoPosition(r) ==
  /\ Looping(r) /\ ~Spent(r) /\ CurrentNode(r) = None
  /\ Halt(r, "no_position")
  /\ UNCHANGED database

MissNode(r) ==
  /\ Looping(r) /\ ~Spent(r) /\ CurrentNode(r) # None
  /\ CurrentNode(r) \notin DOMAIN Graph[run[r].wf].types
  /\ Halt(r, "error")
  /\ UNCHANGED database

EnterNode(r) ==
  /\ AtTop(r) /\ ~Spent(r) /\ CurrentNode(r) # None
  /\ CurrentNode(r) \in DOMAIN Graph[run[r].wf].types
  /\ \E failed \in ReadResults(r) :
       /\ PassesPauseCheck(failed)
       /\ run' = [run EXCEPT ![r].pc = "begin", ![r].node = CurrentNode(r),
                             ![r].overrun = IF run[r].held /\ ~failed THEN @ + 1 ELSE @]
  /\ Quietly
  /\ UNCHANGED database

----
(* One node *)

\* buildNodeInput only reads and swallows its errors; the try-run INSERT's
\* error is dropped too.  That the row is later marked completed or failed, and
\* the metrics record of the node, are left out: nothing reads them back.
BeginNode(r) ==
  /\ run[r].pc = "begin"
  /\ \E o \in Outcomes(r) :
       tries' = IF o.applied THEN [tries EXCEPT ![r] = @ + 1] ELSE tries
  /\ Goto(r, "execute") /\ UNCHANGED <<session, loop_input, rows, ledger, tasks>>

\* The executor fails, or none is registered for the node's type.
FailNodeUnmarked(r) ==
  /\ run[r].pc = "execute"
  /\ run' = [run EXCEPT ![r].pc = "finish", ![r].stop = "execution"]
  /\ Quietly /\ UNCHANGED database
FailNode(r) ==
  /\ run[r].pc = "execute"
  /\ Halt(r, "execution")
  /\ UNCHANGED database

\* The executor answers: its output is stored, if the store takes it, folded
\* into env whether or not it was, and the next edge is chosen.
FinishNode(r, out) ==
  /\ run[r].pc = "execute"
  /\ rows' \in IF out = EmptyEnv THEN {rows}
               ELSE {IF o.applied THEN rows \union {out} ELSE rows : o \in Outcomes(r)}
  /\ env' = [env EXCEPT ![r] = Merge(env[r], out)]
  /\ LET targets == SelectNextEdge(run[r].wf, run[r].node, Merge(env[r], out))
     IN  \/ /\ targets = {}
            /\ run' = [run EXCEPT ![r].pc = "mark", ![r].stop = "no_edges"]
         \/ \E n \in targets :
              run' = [run EXCEPT ![r].pc = "move", ![r].next = n]
  /\ UNCHANGED <<session, loop_input, ledger, tries, tasks, cancelled, reported>>

UpdateCurrentNodeUnchecked(r) ==
  /\ run[r].pc = "move"
  /\ \E o \in Outcomes(r) :
       /\ session' = IF o.applied
                     THEN [session EXCEPT !.wf = run[r].wf, !.node = run[r].next]
                     ELSE session
       /\ Goto(r, "count")
  /\ UNCHANGED <<loop_input, rows, ledger, tries, tasks>>
UpdateCurrentNode(r) ==
  /\ run[r].pc = "move"
  /\ \E o \in Outcomes(r) :
       /\ session' = IF o.applied
                     THEN [session EXCEPT !.wf = run[r].wf, !.node = run[r].next]
                     ELSE session
       /\ IF o.ok THEN Goto(r, "count") ELSE Halt(r, "error")
  /\ UNCHANGED <<loop_input, rows, ledger, tries, tasks>>

\* The row's count is written (its error dropped), the iteration counted, and
\* a human_input node ends the run, with the session already past the node.
CountIterationGateFirst(r) ==
  /\ run[r].pc = "count"
  /\ \E o \in Outcomes(r) :
       ledger' = IF o.applied THEN [ledger EXCEPT ![r].iter = run[r].iter + 1] ELSE ledger
  /\ run' = [run EXCEPT ![r].iter = @ + 1, ![r].node = run[r].next,
                        ![r].next = None,
                        ![r].pc   = IF NextNodeType(r) = "human_input" THEN "mark" ELSE "top",
                        ![r].stop = IF NextNodeType(r) = "human_input" THEN "waiting" ELSE "none"]
  /\ Quietly /\ UNCHANGED <<session, loop_input, rows, tries, tasks>>
CountIteration(r) ==
  /\ run[r].pc = "count"
  /\ \E o \in Outcomes(r) :
       ledger' = IF o.applied THEN [ledger EXCEPT ![r].iter = run[r].iter + 1] ELSE ledger
  /\ run' = [run EXCEPT ![r].iter = @ + 1, ![r].node = run[r].next,
                        ![r].next = None,
                        ![r].pc   = IF NodeType(r) = "human_input" THEN "mark" ELSE "top",
                        ![r].stop = IF NodeType(r) = "human_input" THEN "waiting" ELSE "none"]
  /\ Quietly /\ UNCHANGED <<session, loop_input, rows, tries, tasks>>

----
(* The end of a run: markStopped, writePerTaskDecisions, UpdateStatus *)

\* A failed write of the row is logged and otherwise ignored.
MarkStoppedSwapped(r) ==
  /\ run[r].pc = "mark"
  /\ \E o \in Outcomes(r) :
       /\ ledger' = IF o.applied
                    THEN [ledger EXCEPT ![r].status = run[r].stop]
                    ELSE ledger
       /\ reported' = IF o.ok /\ run[r].stop # "error" THEN reported
                                                       ELSE reported \union {r}
  /\ IF AfterMark(run[r].stop) = "returned"
     THEN Leave(r, "returned")
     ELSE /\ run' = [run EXCEPT ![r].pc = AfterMark(run[r].stop)]
          /\ UNCHANGED <<env, cancelled>>
  /\ UNCHANGED <<session, loop_input, rows, tries, tasks>>
MarkStopped(r) ==
  /\ run[r].pc = "mark"
  /\ \E o \in Outcomes(r) :
       /\ ledger' = IF o.applied
                    THEN [ledger EXCEPT ![r].status = Endings[run[r].stop].row]
                    ELSE ledger
       /\ reported' = IF o.ok /\ run[r].stop # "error" THEN reported
                                                       ELSE reported \union {r}
  /\ IF AfterMark(run[r].stop) = "returned"
     THEN Leave(r, "returned")
     ELSE /\ run' = [run EXCEPT ![r].pc = AfterMark(run[r].stop)]
          /\ UNCHANGED <<env, cancelled>>
  /\ UNCHANGED <<session, loop_input, rows, tries, tasks>>

\* The session's tasks are listed, and whether any node ever ran is counted;
\* a failed list ends the decisions, a failed count reads as no work.
CollectTasks(r) ==
  /\ run[r].pc = "collect"
  /\ \/ /\ ReadOk(r)
        /\ \E work \in {ProducedWork} \union (IF ReadFails(r) THEN {FALSE} ELSE {}) :
             run' = [run EXCEPT ![r].pc = IF Tasks = {} THEN "finish" ELSE "decide",
                                ![r].left = Tasks, ![r].work = work]
        /\ Quietly
     \/ ReadFails(r) /\ Goto(r, "finish")
  /\ UNCHANGED database

Verdict(d) == IF d = NoDecision
              THEN [status |-> "needs_review", decision |-> NoDecision]
              ELSE [status |-> "completed",    decision |-> d]

\* Without a decision a task is flagged, or left alone if no node ever ran.
DecidedOnly(r, t) ==
  IF DecisionFor(env[r], t) = NoDecision THEN {tasks[t]}
  ELSE {IF o.applied THEN Verdict(DecisionFor(env[r], t)) ELSE tasks[t] : o \in Outcomes(r)}
Decided(r, t) ==
  IF DecisionFor(env[r], t) = NoDecision /\ ~run[r].work THEN {tasks[t]}
  ELSE {IF o.applied THEN Verdict(DecisionFor(env[r], t)) ELSE tasks[t] : o \in Outcomes(r)}

DecideTask(r, t) ==
  /\ run[r].pc = "decide" /\ t \in run[r].left
  /\ \E v \in Decided(r, t) : tasks' = [tasks EXCEPT ![t] = v]
  /\ run' = [run EXCEPT ![r].left = @ \ {t},
                        ![r].pc = IF run[r].left = {t} THEN "finish" ELSE "decide"]
  /\ Quietly
  /\ UNCHANGED <<session, loop_input, rows, ledger, tries>>

\* The rows end early: rows.Err is not looked at.
LoseTaskRows(r) ==
  /\ run[r].pc = "decide" /\ ReadFails(r)
  /\ run' = [run EXCEPT ![r].left = {}, ![r].pc = "finish"]
  /\ Quietly
  /\ UNCHANGED database

UpdateStatus(r) ==
  /\ run[r].pc = "finish"
  /\ \E o \in Outcomes(r) :
       /\ session' = IF o.applied
                     THEN [session EXCEPT !.status = Endings[run[r].stop].session]
                     ELSE session
       /\ IF o.ok THEN Return(r) ELSE ReturnError(r)
  /\ UNCHANGED <<loop_input, rows, ledger, tries, tasks>>

----
Starting(r) == AttachWorkflow(r) \/ SupersedeInput(r) \/ InsertInput(r)
Opening(r)  == LoadSession(r) \/ CreateLoopRun(r) \/ LoadGraph(r)
Topping(r)  == \/ SeePause(r) \/ SpendIterations(r) \/ RunOutOfTime(r)
               \/ HaveNoPosition(r) \/ MissNode(r) \/ EnterNode(r)
OneNode(r)  == \/ BeginNode(r) \/ FailNode(r) \/ UpdateCurrentNode(r) \/ CountIteration(r)
               \/ \E out \in Outputs : FinishNode(r, out)
Ending(r)   == \/ MarkStopped(r) \/ CollectTasks(r) \/ LoseTaskRows(r) \/ UpdateStatus(r)
               \/ \E t \in Tasks : DecideTask(r, t)

\* What an invocation does by itself, once called.
Step(r) == Starting(r) \/ Opening(r) \/ Topping(r) \/ OneNode(r) \/ Ending(r)

Environment ==
  \/ Pause \/ Close
  \/ \E r \in Runs : CallRun(r) \/ Resume(r) \/ Cancel(r) \/ Crash(r)
  \/ \E r \in Runs, w \in Workflows \union {None}, in \in Inputs \union {EmptyEnv} :
       StartWorkflow(r, w, in)

Next == Environment \/ \E r \in Runs : Step(r)

Spec == Init /\ [][Next]_vars

\* Every statement and every executor answers (their HTTP clients time out), so
\* an invocation in progress goes on; nobody has to pause, resume or call.
FairSpec == Spec /\ \A r \in Runs : WF_vars(Step(r))
====
