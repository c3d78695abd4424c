---- MODULE LoopSafetyProofs ----
(***************************************************************************)
(* What the loop owes to its callers, proved: the decisions and the tasks  *)
(* of runs that share a session while nothing fails, and the pause, the    *)
(* position and the human gate of a session whose runs follow each other,  *)
(* whatever fails.                                                         *)
(***************************************************************************)
EXTENDS LoopControllerProofs, FiniteSetTheorems

----
(* Runs that share a session, while nothing fails *)

\* Without failures no context ends, no read fails and every statement is done.
Unfailing == cancelled = {}

LEMMA UnfailingNext ==
  ASSUME Faulty = FALSE, Unfailing, [Next]_vars PROVE Unfailing'
<1>. USE DEF Unfailing, Goto, Halt, Leave, Return, ReturnError, Quietly
<1>1. ASSUME Environment PROVE cancelled' = {}
  BY <1>1 DEF Environment, Pause, Close, CallRun, Resume, Cancel, Crash, StartWorkflow, process
<1>2. ASSUME NEW r \in Runs, Step(r) PROVE cancelled' = {}
  BY <1>2 DEF Step, Starting, Opening, Topping, OneNode, Ending, AttachWorkflow, SupersedeInput,
     InsertInput, LoadSession, CreateLoopRun, LoadGraph, SeePause, SpendIterations,
     RunOutOfTime, HaveNoPosition, MissNode, EnterNode, BeginNode, FailNode, FinishNode,
     UpdateCurrentNode, CountIteration, MarkStopped, CollectTasks, LoseTaskRows, DecideTask,
     UpdateStatus
<1>. QED
  BY <1>1, <1>2 DEF Next, vars, process

LEMMA NothingFails ==
  ASSUME Faulty = FALSE, Unfailing, NEW r \in Runs
  PROVE  ReadOk(r) /\ ~ReadFails(r) /\ Outcomes(r) = {Done} /\ Done.applied /\ Done.ok
BY DEF Unfailing, ReadOk, ReadFails, Outcomes, Done

\* The decisions: a task is never opened again, and when a run that saw work has
\* gone over a task, it is answered.
AnsweredInv ==
  \A r \in Runs :
    /\ run[r].pc = "decide" /\ run[r].work =>
         \A t \in Tasks \ run[r].left : tasks[t].status # "open"
    /\ run[r].pc = "finish" /\ run[r].work /\ Endings[run[r].stop].decides =>
         \A t \in Tasks : tasks[t].status # "open"

\* Each value of an environment comes from one of R, under the same key.
Backed(e, R) == \A k \in DOMAIN e : \E out \in R : k \in DOMAIN out /\ out[k] = e[k]

\* What the runs know was stored, and so were the reasons to comply.
SourcedInv ==
  /\ Backed(loop_input, rows)
  /\ \A r \in Runs : Backed(env[r], rows)
  /\ DecisionsAreBacked

\* What collecting the tasks does to the locals.
Collected(r, pc, work) == run' = [run EXCEPT ![r].pc = pc, ![r].left = Tasks, ![r].work = work]

LEMMA CollectEffect ==
  ASSUME TypeOK, NEW r \in Runs, NEW pc, NEW work, Collected(r, pc, work)
  PROVE  /\ run'[r].pc = pc /\ run'[r].left = Tasks /\ run'[r].overrun = run[r].overrun
         /\ run'[r].held = run[r].held /\ run'[r].stop = run[r].stop /\ run'[r].wf = run[r].wf /\ run'[r].node = run[r].node
<1>1. run \in [Runs -> RunType]
  BY DEF TypeOK, RunType
<1>2. run'[r] = [run[r] EXCEPT !.pc = pc, !.left = Tasks, !.work = work]
  BY <1>1 DEF Collected
<1>. QED
  BY <1>1, <1>2 DEF RunType

LEMMA CollectCases ==
  ASSUME TypeOK, NEW r \in Runs, CollectTasks(r)
  PROVE  \/ Goto(r, "finish") /\ ReadFails(r)
         \/ \E pc \in {"finish", "decide"} : \E work :
              /\ pc = IF Tasks = {} THEN "finish" ELSE "decide"
              /\ Collected(r, pc, work)
BY DEF CollectTasks, Collected

\* Only a decision touches a task, the one that it is about,
LEMMA TaskSteps ==
  ASSUME TypeOK, [Next]_vars, NEW t \in Tasks, tasks'[t] # tasks[t]
  PROVE  \E r \in Runs : DecideTask(r, t)
<1>1. ASSUME NEW r \in Runs, NEW u \in Tasks, DecideTask(r, u) PROVE u = t
  BY <1>1 DEF DecideTask, TypeOK
<1>2. ASSUME NEW r \in Runs, Step(r), \A u \in Tasks : ~DecideTask(r, u) PROVE tasks' = tasks
  BY <1>2 DEF Step, Starting, Opening, Topping, OneNode, Ending, AttachWorkflow, SupersedeInput,
     InsertInput, LoadSession, CreateLoopRun, LoadGraph, SeePause, SpendIterations,
     RunOutOfTime, HaveNoPosition, MissNode, EnterNode, BeginNode, FailNode, FinishNode,
     UpdateCurrentNode, CountIteration, MarkStopped, CollectTasks, LoseTaskRows,
     UpdateStatus, database
<1>3. ASSUME Environment PROVE tasks' = tasks
  BY <1>3 DEF Environment, Pause, Close, CallRun, Resume, Cancel, Crash, StartWorkflow, database
<1>. QED
  BY <1>1, <1>2, <1>3 DEF Next, vars, database

\* and answers it.
LEMMA TasksStayAnswered ==
  ASSUME TypeOK, [Next]_vars, NEW t \in Tasks, tasks[t].status # "open"
  PROVE  tasks'[t].status # "open"
<1>1. ASSUME NEW r \in Runs, DecideTask(r, t) PROVE tasks'[t].status # "open"
  <2>1. PICK v \in Decided(r, t) : tasks' = [tasks EXCEPT ![t] = v]
    BY <1>1 DEF DecideTask
  <2>2. v = tasks[t] \/ v = Verdict(DecisionFor(env[r], t))
    BY DEF Decided
  <2>3. Verdict(DecisionFor(env[r], t)).status # "open"
    BY DEF Verdict
  <2>. QED
    BY <2>1, <2>2, <2>3 DEF TypeOK
<1>. QED
  BY <1>1, TaskSteps

AnsweredBy(r) ==
  /\ run[r].pc = "decide" /\ run[r].work =>
       \A t \in Tasks \ run[r].left : tasks[t].status # "open"
  /\ run[r].pc = "finish" /\ run[r].work /\ Endings[run[r].stop].decides =>
       \A t \in Tasks : tasks[t].status # "open"

\* The acting invocation.
LEMMA AnsweredStep ==
  ASSUME Faulty = FALSE, Unfailing, TypeOK, NEW r \in Runs, RunControl(r), AnsweredBy(r), Step(r)
  PROVE  AnsweredBy(r)'
<1>. USE DEF TypeOK, Goto, Halt, Leave, Fresh, Return, ReturnError
<1>1. CASE Starting(r)
  BY <1>1 DEF Starting, AttachWorkflow, SupersedeInput, InsertInput, FirstStatement, AnsweredBy
<1>2. CASE Opening(r)
  BY <1>2 DEF Opening, LoadSession, CreateLoopRun, LoadGraph, AnsweredBy
<1>3. CASE Topping(r)
  BY <1>3 DEF Topping, SeePause, SpendIterations, RunOutOfTime, HaveNoPosition, MissNode,
              EnterNode, AnsweredBy
<1>4. CASE OneNode(r)
  BY <1>4 DEF OneNode, BeginNode, FailNode, FinishNode, UpdateCurrentNode, CountIteration, AnsweredBy
<1>5. CASE MarkStopped(r)
  <2>1. \/ run'[r].pc = "returned"
        \/ run'[r].pc = AfterMark(run[r].stop) /\ run'[r].stop = run[r].stop
    BY <1>5 DEF MarkStopped
  <2>2. AfterMark(run[r].stop) = "finish" => ~Endings[run[r].stop].decides
    BY DEF AfterMark
  <2>3. AfterMark(run[r].stop) # "decide"
    BY DEF AfterMark
  <2>. QED
    BY <2>1, <2>2, <2>3 DEF AnsweredBy
<1>6. CASE CollectTasks(r)
  <2>1. /\ run'[r].pc = IF Tasks = {} THEN "finish" ELSE "decide"
        /\ run'[r].left = Tasks
    <3>1. PICK pc, work : /\ pc = IF Tasks = {} THEN "finish" ELSE "decide"
                          /\ Collected(r, pc, work)
      BY <1>6, NothingFails, CollectCases
    <3>. QED
      BY <3>1, CollectEffect
  <2>. QED
    BY <2>1 DEF AnsweredBy
<1>7. CASE LoseTaskRows(r)
  BY <1>7, NothingFails DEF LoseTaskRows
<1>8. ASSUME NEW t \in Tasks, DecideTask(r, t) PROVE AnsweredBy(r)'
  <2>1. /\ run[r].pc = "decide" /\ t \in run[r].left
        /\ run'[r].left = run[r].left \ {t} /\ run'[r].work = run[r].work
        /\ run'[r].pc = IF run[r].left = {t} THEN "finish" ELSE "decide"
    BY <1>8 DEF DecideTask
  <2>2. \A u \in Tasks \ {t} : tasks'[u] = tasks[u]
    BY <1>8 DEF DecideTask
  <2>3. ASSUME run[r].work PROVE tasks'[t].status # "open"
    <3>1. PICK v \in Decided(r, t) : tasks' = [tasks EXCEPT ![t] = v]
      BY <1>8 DEF DecideTask
    <3>2. v = Verdict(DecisionFor(env[r], t))
      <4>1. PICK d : d = DecisionFor(env[r], t)
        OBVIOUS
      <4>2. Outcomes(r) = {Done} /\ Done.applied
        BY NothingFails
      <4>3. Decided(r, t) = {IF o.applied THEN Verdict(DecisionFor(env[r], t)) ELSE tasks[t] : o \in {Done}}
        BY <2>3, <4>2, Zenon DEF Decided
      <4>4. PICK o \in {Done} : v = IF o.applied THEN Verdict(DecisionFor(env[r], t)) ELSE tasks[t]
        BY <4>3, Zenon
      <4>. QED
        BY <4>2, <4>4, Zenon
    <3>3. v.status # "open"
      BY <3>2 DEF Verdict
    <3>. QED
      BY <3>1, <3>3
  <2>4. ASSUME run'[r].work, NEW u \in Tasks, u \notin run'[r].left
        PROVE  tasks'[u].status # "open"
    <3>1. CASE u = t
      BY <2>1, <2>3, <2>4, <3>1
    <3>2. CASE u # t
      <4>1. u \notin run[r].left /\ run[r].work
        BY <2>1, <2>4, <3>2
      <4>2. tasks[u].status # "open"
        BY <2>1, <4>1 DEF AnsweredBy
      <4>. QED
        BY <2>2, <3>2, <4>2
    <3>. QED
      BY <3>1, <3>2
  <2>5. run'[r].pc = "finish" => run'[r].left = {}
    BY <2>1
  <2>6. run'[r].pc = "decide" /\ run'[r].work =>
          \A u \in Tasks \ run'[r].left : tasks'[u].status # "open"
    BY <2>4
  <2>7. run'[r].pc = "finish" /\ run'[r].work => \A u \in Tasks : tasks'[u].status # "open"
    BY <2>4, <2>5
  <2>. QED
    BY <2>6, <2>7 DEF AnsweredBy
<1>9. CASE UpdateStatus(r)
  BY <1>9 DEF UpdateStatus, AnsweredBy
<1>. QED
  BY <1>1, <1>2, <1>3, <1>4, <1>5, <1>6, <1>7, <1>8, <1>9 DEF Step, Ending

\* An invocation that does not act keeps its part, whatever others do to the tasks.
LEMMA AnsweredStays ==
  ASSUME TypeOK, [Next]_vars, NEW q \in Runs, AnsweredBy(q),
         \/ /\ run'[q].pc = run[q].pc /\ run'[q].work = run[q].work
            /\ run'[q].left = run[q].left /\ run'[q].stop = run[q].stop
         \/ run'[q].pc \notin {"decide", "finish"}
  PROVE  AnsweredBy(q)'
BY TasksStayAnswered DEF AnsweredBy

LEMMA AnsweredNext ==
  ASSUME Faulty = FALSE, Unfailing, Inv, AnsweredInv, [Next]_vars PROVE AnsweredInv'
<1>0. TypeOK /\ \A q \in Runs : RunControl(q) /\ AnsweredBy(q)
  BY DEF Inv, RunInv, AnsweredInv, AnsweredBy
<1>. SUFFICES ASSUME NEW q \in Runs PROVE AnsweredBy(q)'
  BY DEF AnsweredInv, AnsweredBy
<1>1. ASSUME NEW r \in Runs, Step(r) PROVE AnsweredBy(q)'
  <2>1. CASE q = r
    BY <1>0, <1>1, <2>1, AnsweredStep
  <2>2. CASE q # r
    BY <1>0, <1>1, <2>2, StepKeepsOthers, AnsweredStays DEF OthersKeep
  <2>. QED
    BY <2>1, <2>2
<1>2. CASE Pause \/ Close
  <2>1. SameButHeld(run'[q], run[q])
    BY <1>0, <1>2, TypeParts, ActiveHeldType DEF Pause, Close
  <2>. QED
    BY <1>0, <2>1, AnsweredStays DEF SameButHeld
<1>3. CASE UNCHANGED vars
  BY <1>0, <1>3, AnsweredStays DEF vars, process
<1>7. ASSUME NEW r \in Runs, Resume(r) PROVE AnsweredBy(q)'
  <2>1. CASE q = r
    <3>1. run'[q].pc = "load"
      BY <1>0, <1>7, <2>1, TypeParts, ResumeEffect
    <3>. QED
      BY <1>0, <3>1, AnsweredStays
  <2>2. CASE q # r
    <3>1. SameButHeld(run'[q], run[q])
      BY <1>0, <1>7, <2>2, TypeParts, ResumeEffect
    <3>. QED
      BY <1>0, <3>1, AnsweredStays DEF SameButHeld
  <2>. QED
    BY <2>1, <2>2
<1>4. ASSUME NEW r \in Runs, CallRun(r) PROVE AnsweredBy(q)'
  <2>1. run' = [run EXCEPT ![r].pc = "load"]
    BY <1>4 DEF CallRun, Goto
  <2>2. IF q = r THEN run'[q].pc = "load" ELSE run'[q] = run[q]
    BY <1>0, <2>1 DEF TypeOK
  <2>. QED
    BY <1>0, <2>2, AnsweredStays
<1>5. ASSUME NEW r \in Runs, Cancel(r) \/ Crash(r) PROVE FALSE
  BY <1>5 DEF Cancel, Crash
<1>6. ASSUME NEW r \in Runs, NEW w, NEW in, StartWorkflow(r, w, in) PROVE AnsweredBy(q)'
  <2>1. PICK pc : /\ pc \in {"attach", "supersede", "load"}
                  /\ run' = [run EXCEPT ![r].pc = pc, ![r].arg_wf = w, ![r].arg_in = in]
    BY <1>6 DEF StartWorkflow, FirstStatement
  <2>2. IF q = r THEN run'[q].pc = pc ELSE run'[q] = run[q]
    BY <1>0, <2>1 DEF TypeOK
  <2>. QED
    BY <1>0, <2>1, <2>2, AnsweredStays
<1>. QED
  BY <1>1, <1>2, <1>3, <1>4, <1>5, <1>6, <1>7 DEF Next, Environment

\* While nothing fails, a run that decides after work was done leaves no task of
\* the session without an answer when it sets the session's status.
THEOREM NoTaskIsForgotten ==
  ASSUME Faulty = FALSE PROVE Spec => []NoTaskForgotten
<1>1. Init => Unfailing /\ AnsweredInv
  BY DEF Init, Unfailing, AnsweredInv, Fresh
<1>2. Unfailing /\ Inv /\ AnsweredInv /\ [Next]_vars => Unfailing' /\ AnsweredInv'
  BY UnfailingNext, AnsweredNext DEF Inv
<1>3. AnsweredInv => NoTaskForgotten
  BY DEF AnsweredInv, NoTaskForgotten
<1>. QED
  BY <1>1, <1>2, <1>3, InvHolds, PTL DEF Spec

----
(* Where decisions come from *)

LEMMA BackedFacts ==
  ASSUME NEW R
  PROVE  /\ Backed(EmptyEnv, R)
         /\ \A out \in R : Backed(out, R)
         /\ \A e, S : Backed(e, R) /\ R \subseteq S => Backed(e, S)
<1>1. DOMAIN EmptyEnv = {}
  BY DEF EmptyEnv
<1>. QED
  BY <1>1 DEF Backed

LEMMA MergeIsBacked ==
  ASSUME NEW R, NEW e, NEW out, Backed(e, R), Backed(out, R)
  PROVE  Backed(Merge(e, out), R)
<1>. SUFFICES ASSUME NEW k \in DOMAIN Merge(e, out)
              PROVE  \E o \in R : k \in DOMAIN o /\ o[k] = Merge(e, out)[k]
  BY DEF Backed
<1>1. CASE k \in DOMAIN out
  BY <1>1 DEF Merge, Backed
<1>2. CASE k \notin DOMAIN out
  BY <1>2 DEF Merge, Backed
<1>. QED
  BY <1>1, <1>2

\* An output with one key of another has what the loop reads of that key.
Only(out, k) == [x \in {k} |-> out[x]]

LEMMA OneKey ==
  ASSUME NEW out, NEW k
  PROVE  DOMAIN Only(out, k) = {k} /\ Only(out, k)[k] = out[k]
BY DEF Only

\* A decision rests on one key, so on one stored value.
LEMMA DecisionHasAReason ==
  ASSUME NEW R, NEW e, NEW t, NEW d, d # NoDecision, Backed(e, R), DecisionFor(e, t) = d
  PROVE  \E out \in R : d \in Claims(out, t)
<1>1. ASSUME NEW k \in DOMAIN e,
             \A c : DOMAIN c = {k} /\ c[k] = e[k] => DecisionFor(c, t) = d
      PROVE  \E out \in R : d \in Claims(out, t)
  <2>1. PICK out \in R : k \in DOMAIN out /\ out[k] = e[k]
    BY DEF Backed
  <2>2. DecisionFor(Only(out, k), t) = d
    BY <1>1, <2>1, OneKey
  <2>. QED
    BY <2>1, <2>2 DEF Claims, Only
<1>2. CASE HasOwnDecision(e, t)
  BY <1>1, <1>2 DEF DecisionFor, HasOwnDecision
<1>3. CASE ~HasOwnDecision(e, t) /\ "decision" \in DOMAIN e /\ e["decision"] # NoDecision
  <2>1. e["decision"] = d
    BY <1>3 DEF DecisionFor, GlobalDecision
  <2>. QED
    BY <1>1, <1>3, <2>1 DEF DecisionFor, HasOwnDecision, GlobalDecision
<1>4. ASSUME ~HasOwnDecision(e, t), deriveDecisionFromEnv(e) = d
      PROVE  \E out \in R : d \in Claims(out, t)
  <2>1. ASSUME NEW c, NEW k \in {"overall_status", "findings"}, DOMAIN c = {k},
               deriveDecisionFromEnv(c) = d
        PROVE  DecisionFor(c, t) = d
    BY <2>1 DEF DecisionFor, HasOwnDecision, GlobalDecision
  <2>2. CASE OverallOf(e) \in {"compliant", "non_compliant"}
    <3>1. "overall_status" \in DOMAIN e /\ e["overall_status"] = OverallOf(e)
      BY <2>2 DEF OverallOf
    <3>2. ASSUME NEW c, DOMAIN c = {"overall_status"}, c["overall_status"] = e["overall_status"]
          PROVE  deriveDecisionFromEnv(c) = d
      <4>1. OverallOf(c) = OverallOf(e)
        BY <3>1, <3>2 DEF OverallOf
      <4>. QED
        BY <1>4, <2>2, <4>1 DEF deriveDecisionFromEnv
    <3>. QED
      BY <1>1, <2>1, <3>1, <3>2
  <2>3. CASE OverallOf(e) \notin {"compliant", "non_compliant"}
    <3>1. DecisionFromFindings(FindingsOf(e)) = d
      BY <1>4, <2>3 DEF deriveDecisionFromEnv
    <3>2. "findings" \in DOMAIN e /\ FindingsOf(e) = e["findings"]
      BY <1>4, <3>1 DEF FindingsOf, DecisionFromFindings
    <3>3. ASSUME NEW c, DOMAIN c = {"findings"}, c["findings"] = e["findings"]
          PROVE  deriveDecisionFromEnv(c) = d
      <4>1. OverallOf(c) = "" /\ FindingsOf(c) = FindingsOf(e)
        BY <3>2, <3>3 DEF OverallOf, FindingsOf
      <4>. QED
        BY <3>1, <4>1 DEF deriveDecisionFromEnv
    <3>. QED
      BY <1>1, <2>1, <3>2, <3>3
  <2>. QED
    BY <2>2, <2>3
<1>. QED
  BY <1>2, <1>3, <1>4 DEF DecisionFor, GlobalDecision

\* Most steps store nothing, and an invocation that leaves forgets what it knew.
LEMMA MemoryStep ==
  ASSUME Faulty = FALSE, Unfailing, TypeOK, NEW r \in Runs, Step(r)
  PROVE  \/ /\ UNCHANGED <<loop_input, rows>>
            /\ \A q \in Runs : env'[q] = env[q] \/ env'[q] = EmptyEnv
         \/ /\ loop_input' = EmptyEnv /\ UNCHANGED <<rows, env>>
         \/ /\ loop_input' \in rows' /\ rows \subseteq rows' /\ UNCHANGED env
         \/ /\ UNCHANGED <<loop_input, rows>>
            /\ env' = [env EXCEPT ![r] = Merge(EmptyEnv, loop_input)]
         \/ \E out \in rows' \union {EmptyEnv} :
              /\ loop_input' = loop_input /\ rows \subseteq rows'
              /\ env' = [env EXCEPT ![r] = Merge(env[r], out)]
<1>. USE DEF Goto, Halt, Quietly
<1>0. /\ DOMAIN env = Runs
      /\ Return(r) \/ ReturnError(r) => \A q \in Runs : env'[q] = env[q] \/ env'[q] = EmptyEnv
  BY DEF TypeOK, Return, ReturnError, Leave
<1>1. CASE AttachWorkflow(r)
  BY <1>0, <1>1 DEF AttachWorkflow
<1>2. CASE SupersedeInput(r)
  BY <1>2, NothingFails DEF SupersedeInput
<1>3. CASE InsertInput(r)
  BY <1>3, NothingFails DEF InsertInput
<1>4. CASE LoadSession(r) \/ CreateLoopRun(r)
  BY <1>0, <1>4 DEF LoadSession, CreateLoopRun, database
<1>5. CASE LoadGraph(r)
  BY <1>5, NothingFails DEF LoadGraph, database
<1>6. CASE Topping(r)
  BY <1>6 DEF Topping, SeePause, SpendIterations, RunOutOfTime, HaveNoPosition, MissNode,
              EnterNode, database
<1>7. ASSUME NEW out \in Outputs, FinishNode(r, out)
      PROVE  /\ out \in rows' \union {EmptyEnv} /\ rows \subseteq rows'
             /\ loop_input' = loop_input /\ env' = [env EXCEPT ![r] = Merge(env[r], out)]
  BY <1>7, NothingFails DEF FinishNode
<1>8. CASE BeginNode(r) \/ FailNode(r) \/ UpdateCurrentNode(r) \/ CountIteration(r)
  BY <1>8 DEF BeginNode, FailNode, UpdateCurrentNode, CountIteration, database
<1>9. CASE MarkStopped(r)
  BY <1>0, <1>9 DEF MarkStopped, Leave
<1>10. CASE CollectTasks(r) \/ LoseTaskRows(r) \/ UpdateStatus(r)
  BY <1>0, <1>10 DEF CollectTasks, LoseTaskRows, UpdateStatus, database
<1>11. ASSUME NEW t \in Tasks, DecideTask(r, t) PROVE UNCHANGED <<loop_input, rows, env>>
  BY <1>11 DEF DecideTask
<1>. QED
  BY <1>1, <1>2, <1>3, <1>4, <1>5, <1>6, <1>7, <1>8, <1>9, <1>10, <1>11
  DEF Step, Starting, Opening, OneNode, Ending

\* A run knows only what was stored,
LEMMA BackedNext ==
  ASSUME Faulty = FALSE, Unfailing, TypeOK, SourcedInv, [Next]_vars
  PROVE  /\ Backed(loop_input', rows') /\ \A q \in Runs : Backed(env'[q], rows')
         /\ rows \subseteq rows'
<1>0. /\ DOMAIN env = Runs
      /\ Backed(loop_input, rows) /\ \A q \in Runs : Backed(env[q], rows)
  BY DEF TypeOK, SourcedInv
<1>1. ASSUME NEW r \in Runs, Step(r)
      PROVE  /\ Backed(loop_input', rows') /\ \A q \in Runs : Backed(env'[q], rows')
             /\ rows \subseteq rows'
  <2>1. CASE /\ UNCHANGED <<loop_input, rows>>
             /\ \A q \in Runs : env'[q] = env[q] \/ env'[q] = EmptyEnv
    BY <1>0, <2>1, BackedFacts
  <2>2. CASE loop_input' = EmptyEnv /\ UNCHANGED <<rows, env>>
    BY <1>0, <2>2, BackedFacts
  <2>3. CASE loop_input' \in rows' /\ rows \subseteq rows' /\ UNCHANGED env
    BY <1>0, <2>3, BackedFacts
  <2>4. CASE /\ UNCHANGED <<loop_input, rows>>
             /\ env' = [env EXCEPT ![r] = Merge(EmptyEnv, loop_input)]
    <3>1. Backed(Merge(EmptyEnv, loop_input), rows)
      BY <1>0, BackedFacts, MergeIsBacked
    <3>. QED
      BY <1>0, <2>4, <3>1
  <2>5. ASSUME NEW out \in rows' \union {EmptyEnv}, loop_input' = loop_input,
               rows \subseteq rows', env' = [env EXCEPT ![r] = Merge(env[r], out)]
        PROVE  Backed(loop_input', rows') /\ \A q \in Runs : Backed(env'[q], rows')
    <3>1. \A q \in Runs : Backed(env[q], rows')
      BY <1>0, <2>5, BackedFacts
    <3>2. Backed(out, rows') /\ Backed(loop_input', rows')
      BY <1>0, <2>5, BackedFacts
    <3>3. Backed(Merge(env[r], out), rows')
      BY <3>1, <3>2, MergeIsBacked
    <3>. QED
      BY <1>0, <2>5, <3>1, <3>2, <3>3
  <2>. QED
    BY <1>1, <2>1, <2>2, <2>3, <2>4, <2>5, MemoryStep
<1>2. ASSUME Environment \/ UNCHANGED vars
      PROVE  UNCHANGED <<loop_input, rows>> /\ \A q \in Runs : env'[q] = env[q]
  <2>1. ASSUME NEW r \in Runs PROVE ~Crash(r) /\ ~Cancel(r)
    BY DEF Crash, Cancel
  <2>. QED
    BY <1>2, <2>1 DEF Environment, Pause, Close, CallRun, Resume, StartWorkflow, Goto, Quietly,
                      database, process, vars
<1>. QED
  BY <1>0, <1>1, <1>2 DEF Next

\* and a task that is decided is for a reason that was.
LEMMA SourcedNext ==
  ASSUME Faulty = FALSE, Unfailing, TypeOK, SourcedInv, [Next]_vars PROVE SourcedInv'
<1>1. /\ Backed(loop_input', rows') /\ \A q \in Runs : Backed(env'[q], rows')
      /\ rows \subseteq rows'
  BY BackedNext
<1>2. ASSUME NEW t \in Tasks, NEW d, d # NoDecision, tasks'[t].decision = d
      PROVE  \E out \in rows' : d \in Claims(out, t)
  <2>1. CASE tasks[t].decision = d
    BY <1>1, <1>2, <2>1 DEF SourcedInv, DecisionsAreBacked
  <2>2. CASE tasks[t].decision # d
    <3>1. PICK r \in Runs : DecideTask(r, t)
      BY <1>2, <2>2, TaskSteps
    <3>2. DecisionFor(env[r], t) = d
      <4>1. PICK v \in Decided(r, t) : tasks' = [tasks EXCEPT ![t] = v]
        BY <3>1 DEF DecideTask
      <4>2. v.decision = d
        BY <1>2, <4>1 DEF TypeOK
      <4>3. v = Verdict(DecisionFor(env[r], t))
        BY <2>2, <4>2 DEF Decided
      <4>. QED
        BY <1>2, <4>2, <4>3 DEF Verdict
    <3>3. Backed(env[r], rows')
      BY <1>1, BackedFacts DEF SourcedInv
    <3>. QED
      BY <1>2, <3>2, <3>3, DecisionHasAReason
  <2>. QED
    BY <2>1, <2>2
<1>3. DecisionsAreBacked'
  BY <1>2 DEF DecisionsAreBacked
<1>. QED
  BY <1>1, <1>3 DEF SourcedInv

\* While nothing fails, no task gets a decision unless one key of a stored input or
\* node output gives it, whatever runs overwrite each other's knowledge.
THEOREM DecisionsAreAllBacked ==
  ASSUME Faulty = FALSE PROVE Spec => []DecisionsAreBacked
<1>1. ASSUME Init PROVE Unfailing /\ SourcedInv
  BY <1>1, BackedFacts DEF Init, Unfailing, SourcedInv, DecisionsAreBacked
<1>2. Unfailing /\ Inv /\ SourcedInv /\ [Next]_vars => Unfailing' /\ SourcedInv'
  BY UnfailingNext, SourcedNext DEF Inv
<1>3. SourcedInv => DecisionsAreBacked
  BY DEF SourcedInv
<1>. QED
  BY <1>1, <1>2, <1>3, InvHolds, PTL DEF Spec

----
(* Runs that follow each other, whatever fails *)

Alone == \A p, q \in Active : p = q

\* An edge of the attached workflow from one node to another.
Linked(w, from, to) == \E x \in Graph[w].edges : x.from = from /\ x.to = to

\* Where the session's next step starts from.
Here == IF session.node = None THEN Graph[session.wf].entry ELSE session.node

\* What an invocation knows of the session's position at each point.
Tracks(r) ==
  /\ run[r].pc \in {"create", "graph", "top"} =>
       run[r].wf = session.wf /\ run[r].node = session.node
  /\ run[r].pc \in {"begin", "execute", "move"} =>
       run[r].wf = session.wf /\ run[r].node = Here
  /\ run[r].pc \in {"top", "begin", "execute", "move"} /\ run[r].iter > 0 =>
       session.node # None
  /\ run[r].pc = "move" => Linked(session.wf, run[r].node, run[r].next)
  /\ run[r].pc = "count" =>
       /\ run[r].wf = session.wf /\ run[r].next = session.node
       /\ Linked(session.wf, run[r].node, session.node)
       /\ session.node # None
  /\ run[r].pc \in {"mark", "finish"} /\ run[r].stop = "waiting" =>
       \E x \in Graph[session.wf].edges :
         x.to = session.node /\ Graph[session.wf].types[x.from] = "human_input"

TracksInv == \A r \in Runs : Tracks(r)

\* A step of an invocation is one of an active one, and makes no other active.
LEMMA StepsAreActive ==
  ASSUME NEW r \in Runs, Step(r) PROVE r \in Active
BY DEF Active, Step, Starting, Opening, Topping, OneNode, Ending, AttachWorkflow,
   SupersedeInput, InsertInput, LoadSession, CreateLoopRun, LoadGraph, SeePause,
   SpendIterations, RunOutOfTime, HaveNoPosition, MissNode, EnterNode, BeginNode, FailNode,
   FinishNode, UpdateCurrentNode, CountIteration, MarkStopped, CollectTasks, LoseTaskRows,
   DecideTask, UpdateStatus, AtTop, Looping

Invoked(r) ==
  MayInvoke(r) /\ \A q \in Runs \ {r} : run'[q].pc = run[q].pc

LEMMA OnlyInvokingActivates ==
  ASSUME TypeOK, [Next]_vars
  PROVE  Active' \subseteq Active \/ \E r \in Runs : Invoked(r)
<1>1. ASSUME NEW r \in Runs, Step(r) PROVE Active' \subseteq Active
  BY <1>1, StepsAreActive, StepKeepsOthers DEF Active, OthersKeep
<1>2. CASE Pause \/ Close
  <2>1. \A q \in Runs : SameButHeld(run'[q], run[q])
    BY <1>2, TypeParts, ActiveHeldType DEF Pause, Close
  <2>. QED
    BY <2>1 DEF Active, SameButHeld
<1>3. CASE UNCHANGED vars
  BY <1>3 DEF vars, process, Active
<1>4. ASSUME NEW r \in Runs, CallRun(r) PROVE Invoked(r)
  BY <1>4 DEF CallRun, Goto, Invoked, TypeOK
<1>8. ASSUME NEW r \in Runs, Resume(r) PROVE Invoked(r)
  BY <1>8, TypeParts, ResumeEffect DEF Resume, Invoked, SameButHeld
<1>5. ASSUME NEW r \in Runs, Cancel(r) PROVE Active' \subseteq Active
  BY <1>5 DEF Cancel, Active
<1>6. ASSUME NEW r \in Runs, Crash(r) PROVE Active' \subseteq Active
  BY <1>6 DEF Crash, Leave, Fresh, Active, TypeOK
<1>7. ASSUME NEW r \in Runs, NEW w, NEW in, StartWorkflow(r, w, in) PROVE Invoked(r)
  BY <1>7 DEF StartWorkflow, Invoked, TypeOK
<1>. QED
  BY <1>1, <1>2, <1>3, <1>4, <1>5, <1>6, <1>7, <1>8 DEF Next, Environment

\* Callers that allow one invocation at a time are never followed by two.
THEOREM OneAtATime ==
  ASSUME MaxActive = 1 PROVE Spec => []Alone
<1>1. Init => Alone
  BY DEF Init, Alone, Active, Fresh
<1>2. ASSUME TypeOK, Alone, [Next]_vars PROVE Alone'
  <2>1. CASE Active' \subseteq Active
    BY <1>2, <2>1 DEF Alone
  <2>2. ASSUME NEW r \in Runs, Invoked(r) PROVE Alone'
    <3>1. Active = {}
      <4>1. ASSUME NEW p \in Active PROVE Active = {p}
        BY <1>2, <4>1 DEF Alone
      <4>2. ASSUME NEW p \in Active PROVE Cardinality(Active) = 1
        BY <4>1, FS_Singleton
      <4>. QED
        BY <2>2, <4>2 DEF Invoked, MayInvoke
    <3>2. Active' \subseteq {r}
      BY <2>2, <3>1 DEF Active, Invoked
    <3>. QED
      BY <3>2 DEF Alone
  <2>. QED
    BY <1>2, <2>1, <2>2, OnlyInvokingActivates
<1>3. Inv => TypeOK
  BY DEF Inv
<1>. QED
  BY <1>1, <1>2, <1>3, InvHolds, PTL DEF Spec

----
(* The pause *)

\* A run held by a pause is in progress, on a session that is still paused, and
\* it has overrun nothing.
HeldInv ==
  \A r \in Runs :
    /\ run[r].overrun = 0
    /\ run[r].held => r \in Active /\ session.status = "paused"

\* A step of an invocation ends it, or leaves the pause, and its history, alone.
LEMMA HeldStep ==
  ASSUME TypeOK, HeldInv, NEW r \in Runs, Step(r)
  PROVE  /\ run'[r].overrun = 0
         /\ \/ run'[r].held = FALSE
            \/ /\ run'[r].held = run[r].held /\ session'.status = session.status
               /\ run'[r].pc \notin {"idle", "returned", "crashed"}
<1>. USE DEF TypeOK, Goto, Halt, Leave, Fresh, Return, ReturnError
<1>0. run[r].overrun = 0 /\ (run[r].held => session.status = "paused")
  BY DEF HeldInv
<1>1. CASE Starting(r)
  BY <1>0, <1>1 DEF Starting, AttachWorkflow, SupersedeInput, InsertInput, FirstStatement
<1>2. CASE Opening(r)
  BY <1>0, <1>2 DEF Opening, LoadSession, CreateLoopRun, LoadGraph, database
<1>3. CASE EnterNode(r)
  <2>1. PICK failed \in BOOLEAN :
          /\ PassesPauseCheck(failed)
          /\ run' = [run EXCEPT ![r].pc = "begin", ![r].node = CurrentNode(r),
                       ![r].overrun = IF run[r].held /\ ~failed THEN @ + 1 ELSE @]
    BY <1>3 DEF EnterNode, ReadResults
  <2>2. ~(run[r].held /\ ~failed)
    BY <1>0, <2>1 DEF PassesPauseCheck
  <2>3. run' = [run EXCEPT ![r].pc = "begin", ![r].node = CurrentNode(r),
                           ![r].overrun = run[r].overrun]
    BY <2>1, <2>2
  <2>. QED
    BY <1>0, <1>3, <2>3 DEF EnterNode, database
<1>4. CASE Topping(r) /\ ~EnterNode(r)
  <2>1. PICK s : Halt(r, s) /\ session' = session
    BY <1>4 DEF Topping, SeePause, SpendIterations, RunOutOfTime, HaveNoPosition, MissNode,
                database
  <2>. QED
    BY <1>0, <2>1
<1>5. CASE OneNode(r)
  <2>1. CASE BeginNode(r) \/ FailNode(r)
    BY <1>0, <2>1 DEF BeginNode, FailNode, database
  <2>2. CASE UpdateCurrentNode(r)
    BY <1>0, <2>2 DEF UpdateCurrentNode
  <2>3. CASE CountIteration(r)
    BY <1>0, <2>3 DEF CountIteration
  <2>4. ASSUME NEW out \in Outputs, FinishNode(r, out)
        PROVE  /\ run'[r].overrun = 0 /\ run'[r].held = run[r].held /\ session' = session
               /\ run'[r].pc \in {"mark", "move"}
    BY <1>0, <2>4 DEF FinishNode
  <2>. QED
    BY <1>5, <2>1, <2>2, <2>3, <2>4 DEF OneNode
<1>6. CASE MarkStopped(r)
  <2>1. AfterMark(run[r].stop) \in {"collect", "finish", "returned"}
    BY DEF AfterMark
  <2>. QED
    BY <1>0, <1>6, <2>1 DEF MarkStopped
<1>7. CASE LoseTaskRows(r) \/ UpdateStatus(r)
  BY <1>0, <1>7 DEF LoseTaskRows, UpdateStatus, database
<1>8. CASE CollectTasks(r)
  <2>1. session' = session
    BY <1>8 DEF CollectTasks, database
  <2>2. CASE Goto(r, "finish")
    BY <1>0, <2>1, <2>2
  <2>3. ASSUME NEW pc \in {"finish", "decide"}, NEW work, Collected(r, pc, work)
        PROVE  /\ run'[r].overrun = 0 /\ run'[r].held = run[r].held
               /\ run'[r].pc \in {"finish", "decide"}
    BY <1>0, <2>3, CollectEffect
  <2>4. \/ Goto(r, "finish")
        \/ \E pc \in {"finish", "decide"} : \E work : Collected(r, pc, work)
    BY <1>8, CollectCases
  <2>5. \/ Goto(r, "finish")
        \/ /\ run'[r].overrun = 0 /\ run'[r].held = run[r].held
           /\ run'[r].pc \in {"finish", "decide"}
    BY <2>3, <2>4
  <2>. QED
    BY <2>1, <2>2, <2>5
<1>9. ASSUME NEW t \in Tasks, DecideTask(r, t)
      PROVE  /\ run'[r].overrun = 0 /\ run'[r].held = run[r].held /\ session' = session
             /\ run'[r].pc \in {"finish", "decide"}
  BY <1>0, <1>9 DEF DecideTask
<1>. QED
  BY <1>1, <1>2, <1>3, <1>4, <1>5, <1>6, <1>7, <1>8, <1>9 DEF Step, Ending

\* No other run in progress can undo the pause while there is none.
LEMMA HeldNext ==
  ASSUME TypeOK, Alone, HeldInv, [Next]_vars PROVE HeldInv'
<1>0. ProcessType /\ Active \subseteq Runs
  BY TypeParts DEF Active
<1>1. ASSUME NEW r \in Runs, Step(r) PROVE HeldInv'
  <2>1. \A q \in Runs \ {r} : run'[q] = run[q]
    BY <1>1, StepKeepsOthers DEF OthersKeep
  <2>2. \A q \in Runs \ {r} : q \notin Active /\ ~run[q].held
    BY <1>1, StepsAreActive DEF Alone, HeldInv
  <2>3. \A q \in Runs \ {r} : run'[q].overrun = 0 /\ ~run'[q].held
    BY <2>1, <2>2 DEF HeldInv
  <2>4. run'[r].overrun = 0
        /\ (run'[r].held => r \in Active' /\ session'.status = "paused")
    BY <1>1, HeldStep DEF HeldInv, Active
  <2>. QED
    BY <2>3, <2>4 DEF HeldInv
<1>2. CASE Pause \/ Close
  <2>1. PICK held \in BOOLEAN : /\ run' = ActiveHeld(held)
                                /\ held => session'.status = "paused"
    BY <1>2 DEF Pause, Close, TypeOK
  <2>2. \A q \in Runs : run'[q].overrun = run[q].overrun /\ (q \in Active' <=> q \in Active)
    BY <1>0, <2>1, ActiveHeldType DEF SameButHeld, Active
  <2>3. \A q \in Runs : IF q \in Active THEN run'[q].held = held ELSE run'[q].held = run[q].held
    BY <1>0, <2>1, ActiveHeldType
  <2>. QED
    BY <2>1, <2>2, <2>3 DEF HeldInv
<1>3. ASSUME NEW r \in Runs, Resume(r) PROVE HeldInv'
  <2>1. r \notin Active /\ ~run[r].held /\ run'[r] = [run[r] EXCEPT !.pc = "load"]
    BY <1>0, <1>3, ResumeEffect DEF Active, HeldInv
  <2>2. run'[r].overrun = run[r].overrun /\ run'[r].held = run[r].held
    BY <2>1 DEF TypeOK
  <2>3. \A q \in Runs \ {r} : run'[q] = ActiveHeld(FALSE)[q] /\ SameButHeld(run'[q], run[q])
    BY <1>0, <1>3, ResumeEffect
  <2>4. \A q \in Runs \ {r} : IF q \in Active THEN run'[q].held = FALSE
                                              ELSE run'[q].held = run[q].held
    BY <1>0, <2>3, ActiveHeldType
  <2>5. \A q \in Runs \ {r} : ~run'[q].held
    <3>. SUFFICES ASSUME NEW q \in Runs \ {r} PROVE ~run'[q].held
      OBVIOUS
    <3>1. CASE q \in Active
      BY <2>4, <3>1
    <3>2. CASE q \notin Active
      BY <2>4, <3>2 DEF HeldInv
    <3>. QED
      BY <3>1, <3>2
  <2>6. \A q \in Runs : run'[q].overrun = 0 /\ ~run'[q].held
    BY <2>1, <2>2, <2>3, <2>5 DEF HeldInv, SameButHeld
  <2>. QED
    BY <2>6 DEF HeldInv
<1>4. ASSUME NEW r \in Runs, NEW w, NEW in, CallRun(r) \/ StartWorkflow(r, w, in) PROVE HeldInv'
  <2>1. r \notin Active /\ ~run[r].held
    BY <1>4 DEF CallRun, StartWorkflow, MayInvoke, Active, HeldInv
  <2>2. \A q \in Runs : /\ run'[q].overrun = run[q].overrun /\ (run'[q].held => run[q].held)
                       /\ (q # r => run'[q].pc = run[q].pc)
    <3>1. CASE CallRun(r)
      BY <3>1 DEF CallRun, Goto, TypeOK
    <3>2. CASE StartWorkflow(r, w, in)
      BY <3>2 DEF StartWorkflow, TypeOK
    <3>. QED
      BY <1>4, <3>1, <3>2
  <2>3. session' = session
    BY <1>4 DEF CallRun, StartWorkflow, database
  <2>4. \A q \in Runs : run'[q].overrun = 0
    BY <2>2 DEF HeldInv
  <2>5. ASSUME NEW q \in Runs, run'[q].held
        PROVE  q \in Active' /\ session'.status = "paused"
    <3>1. run[q].held
      BY <2>2, <2>5
    <3>2. q # r /\ q \in Active /\ session.status = "paused"
      BY <2>1, <3>1 DEF HeldInv
    <3>. QED
      BY <2>2, <2>3, <3>2 DEF Active
  <2>. QED
    BY <2>4, <2>5 DEF HeldInv
<1>5. ASSUME NEW r \in Runs, Crash(r) PROVE HeldInv'
  <2>1. session' = session /\ \A q \in Runs : IF q = r THEN run'[q] = Fresh("crashed")
                                                       ELSE run'[q] = run[q]
    BY <1>5 DEF Crash, Leave, database, TypeOK
  <2>2. Fresh("crashed").overrun = 0 /\ ~Fresh("crashed").held
    BY DEF Fresh
  <2>. QED
    BY <2>1, <2>2 DEF HeldInv, Active
<1>6. ASSUME UNCHANGED vars \/ \E r \in Runs : Cancel(r) PROVE HeldInv'
  BY <1>6 DEF vars, database, process, Cancel, HeldInv, Active
<1>. QED
  BY <1>1, <1>2, <1>3, <1>4, <1>5, <1>6 DEF Next, Environment

\* Whatever fails, while no two runs are active at once a run that was in progress
\* at a pause enters no further node before somebody resumes or closes the
\* session, unless its read of the status fails.
THEOREM PauseWindowHolds == Spec /\ []Alone => []PauseWindow
<1>1. Init => HeldInv
  BY DEF Init, HeldInv, Fresh
<1>2. Inv /\ Alone /\ HeldInv /\ [Next]_vars => HeldInv'
  BY HeldNext DEF Inv
<1>3. HeldInv => PauseWindow
  BY DEF HeldInv, PauseWindow
<1>. QED
  BY <1>1, <1>2, <1>3, InvHolds, PTL DEF Spec

----
(* The position *)

LEMMA OnlyWaitingWaits ==
  ASSUME NEW s \in Stops, Endings[s].session = "waiting_for_user" PROVE s = "waiting"
<1>1. \A u \in {"max_iterations", "timeout", "no_position", "no_edges", "execution"} :
        Endings[u].session \in {"completed", "timed_out", "failed"}
  BY DEF Endings
<1>2. \A u \in {"none", "paused", "error"} : Endings[u].session = None
  BY DEF Endings
<1>. QED
  BY <1>1, <1>2 DEF Stops, None

\* The steps that write the session's position, and those that do not.
SamePosition == session'.wf = session.wf /\ session'.node = session.node

LEMMA PositionSteps ==
  ASSUME TypeOK, NEW r \in Runs, Step(r), ~AttachWorkflow(r), ~UpdateCurrentNode(r)
  PROVE  SamePosition
<1>1. CASE UpdateStatus(r)
  BY <1>1 DEF UpdateStatus, TypeOK, SamePosition
<1>2. CASE ~UpdateStatus(r)
  BY <1>2 DEF Step, Starting, Opening, Topping, OneNode, Ending, SupersedeInput,
     InsertInput, LoadSession, CreateLoopRun, LoadGraph, SeePause, SpendIterations,
     RunOutOfTime, HaveNoPosition, MissNode, EnterNode, BeginNode, FailNode, FinishNode,
     CountIteration, MarkStopped, CollectTasks, LoseTaskRows, DecideTask, database, SamePosition
<1>. QED
  BY <1>1, <1>2

\* An invocation that stays where it is, of a session that does, keeps track.
LEMMA TracksStays ==
  ASSUME NEW q \in Runs, Tracks(q), SamePosition,
         \/ /\ run'[q].pc = run[q].pc /\ run'[q].wf = run[q].wf /\ run'[q].node = run[q].node
            /\ run'[q].next = run[q].next /\ run'[q].iter = run[q].iter
            /\ run'[q].stop = run[q].stop
         \/ run'[q].pc \in {"idle", "attach", "supersede", "insert", "load", "collect", "decide",
                            "returned", "crashed"}
  PROVE  Tracks(q)'
BY DEF Tracks, SamePosition, Here

\* The acting invocation, group of steps by group of steps.
LEMMA EnteringTracks ==
  ASSUME TypeOK, NEW r \in Runs, RunInv(r), Tracks(r), Starting(r) \/ Opening(r) \/ Topping(r)
  PROVE  Tracks(r)'
<1>. USE DEF Goto, Halt, Leave, Fresh, Return, ReturnError
<1>1. CASE Starting(r)
  BY <1>1 DEF Starting, AttachWorkflow, SupersedeInput, InsertInput, FirstStatement, Tracks, TypeOK
<1>2. CASE LoadSession(r)
  <2>1. run[r].iter = 0
    BY <1>2 DEF RunInv, RunLimits, LoadSession
  <2>. QED
    BY <1>2, <2>1 DEF LoadSession, Tracks, TypeOK, database
<1>3. CASE CreateLoopRun(r) \/ LoadGraph(r)
  <2>1. run[r].iter = 0
    BY <1>3 DEF RunInv, RunLimits, CreateLoopRun, LoadGraph
  <2>. QED
    BY <1>3, <2>1 DEF CreateLoopRun, LoadGraph, Tracks, TypeOK, database
<1>4. CASE EnterNode(r)
  <2>1. /\ run[r].pc = "top" /\ session' = session
        /\ run'[r].pc = "begin" /\ run'[r].wf = run[r].wf /\ run'[r].iter = run[r].iter
        /\ run'[r].node = CurrentNode(r) /\ CurrentNode(r) # None
    BY <1>4 DEF EnterNode, Looping, AtTop, TypeOK, database
  <2>2. CurrentNode(r) = Here
    BY <2>1 DEF CurrentNode, Here, Tracks
  <2>. QED
    BY <2>1, <2>2 DEF Tracks, Here
<1>5. CASE Topping(r) /\ ~EnterNode(r)
  <2>1. run'[r].pc = "mark" /\ run'[r].stop # "waiting"
    BY <1>5 DEF Topping, SeePause, SpendIterations, RunOutOfTime, HaveNoPosition, MissNode, TypeOK
  <2>. QED
    BY <2>1 DEF Tracks
<1>. QED
  BY <1>1, <1>2, <1>3, <1>4, <1>5 DEF Opening

LEMMA MovingTracks ==
  ASSUME TypeOK, NEW r \in Runs, RunInv(r), Tracks(r), OneNode(r)
  PROVE  Tracks(r)'
<1>. USE DEF Goto, Halt
<1>1. CASE BeginNode(r)
  BY <1>1 DEF BeginNode, Tracks, TypeOK, Here
<1>2. CASE FailNode(r)
  BY <1>2 DEF FailNode, Tracks, TypeOK
<1>3. ASSUME NEW out \in Outputs, FinishNode(r, out) PROVE Tracks(r)'
  <2>1. run[r].pc = "execute" /\ session' = session
    BY <1>3 DEF FinishNode
  <2>2. CASE run' = [run EXCEPT ![r].pc = "mark", ![r].stop = "no_edges"]
    BY <2>2 DEF Tracks, TypeOK
  <2>3. ASSUME NEW n \in SelectNextEdge(run[r].wf, run[r].node, Merge(env[r], out)),
               run' = [run EXCEPT ![r].pc = "move", ![r].next = n]
        PROVE  Tracks(r)'
    <3>1. Linked(run[r].wf, run[r].node, n)
      BY DEF SelectNextEdge, Matching, Linked
    <3>2. /\ run'[r].pc = "move" /\ run'[r].next = n /\ run'[r].wf = run[r].wf
          /\ run'[r].node = run[r].node /\ run'[r].iter = run[r].iter
      BY <2>3 DEF TypeOK
    <3>. QED
      BY <2>1, <3>1, <3>2 DEF Tracks, Here
  <2>. QED
    BY <1>3, <2>2, <2>3 DEF FinishNode
<1>4. CASE UpdateCurrentNode(r)
  <2>1. /\ run[r].pc = "move" /\ run[r].wf \in Workflows
        /\ Linked(run[r].wf, run[r].node, run[r].next)
    BY <1>4 DEF UpdateCurrentNode, Tracks, RunInv, RunControl, TypeOK
  <2>2. run[r].next # None
    BY <2>1, GraphAssumption, LoopAssumption DEF Linked
  <2>3. CASE Goto(r, "count")
    <3>1. session' = [session EXCEPT !.wf = run[r].wf, !.node = run[r].next]
      BY <1>4, <2>3 DEF UpdateCurrentNode, TypeOK, Outcomes, Done, Refused, Lost
    <3>2. session'.wf = run[r].wf /\ session'.node = run[r].next
      BY <3>1 DEF TypeOK
    <3>3. /\ run'[r].pc = "count" /\ run'[r].wf = run[r].wf /\ run'[r].next = run[r].next
          /\ run'[r].node = run[r].node
      BY <2>3 DEF TypeOK
    <3>. QED
      BY <2>1, <2>2, <3>2, <3>3 DEF Tracks
  <2>4. CASE Halt(r, "error")
    BY <2>4 DEF Tracks, TypeOK
  <2>. QED
    BY <1>4, <2>3, <2>4 DEF UpdateCurrentNode
<1>5. CASE CountIteration(r)
  <2>1. /\ run[r].pc = "count" /\ session' = session
        /\ run'[r].wf = run[r].wf /\ run'[r].node = run[r].next
        /\ run'[r].pc = IF NodeType(r) = "human_input" THEN "mark" ELSE "top"
    BY <1>5 DEF CountIteration, TypeOK
  <2>2. /\ run[r].wf = session.wf /\ run[r].next = session.node /\ session.node # None
        /\ Linked(session.wf, run[r].node, session.node)
    BY <2>1 DEF Tracks
  <2>3. CASE NodeType(r) = "human_input"
    BY <2>1, <2>2, <2>3 DEF Tracks, Linked, NodeType
  <2>4. CASE NodeType(r) # "human_input"
    BY <2>1, <2>2, <2>4 DEF Tracks
  <2>. QED
    BY <2>3, <2>4
<1>. QED
  BY <1>1, <1>2, <1>3, <1>4, <1>5 DEF OneNode

LEMMA EndingTracks ==
  ASSUME TypeOK, NEW r \in Runs, RunInv(r), Tracks(r), Ending(r)
  PROVE  Tracks(r)'
<1>1. CASE MarkStopped(r)
  <2>1. session' = session /\ run[r].pc = "mark"
    BY <1>1 DEF MarkStopped
  <2>2. \/ run'[r].pc = "returned"
        \/ run'[r].pc \in {"collect", "finish"} /\ run'[r].stop = run[r].stop
    BY <1>1 DEF MarkStopped, Leave, Fresh, AfterMark, TypeOK
  <2>. QED
    BY <2>1, <2>2 DEF Tracks
<1>2. CASE CollectTasks(r)
  <2>1. session' = session /\ Endings[run[r].stop].decides
    BY <1>2 DEF CollectTasks, database, RunInv, RunControl
  <2>2. run[r].stop # "waiting"
    BY <2>1 DEF Endings
  <2>3. run'[r].pc \in {"finish", "decide"} /\ run'[r].stop = run[r].stop
    <3>1. ASSUME NEW pc \in {"finish", "decide"}, NEW work, Collected(r, pc, work)
          PROVE  run'[r].pc = pc /\ run'[r].stop = run[r].stop
      BY <3>1, CollectEffect
    <3>2. Goto(r, "finish") => run'[r].pc = "finish" /\ run'[r].stop = run[r].stop
      BY DEF Goto, TypeOK
    <3>. QED
      BY <1>2, <3>1, <3>2, CollectCases
  <2>. QED
    BY <2>1, <2>2, <2>3 DEF Tracks
<1>3. ASSUME LoseTaskRows(r) \/ \E t \in Tasks : DecideTask(r, t) PROVE Tracks(r)'
  <2>1. session' = session /\ Endings[run[r].stop].decides
    BY <1>3 DEF LoseTaskRows, DecideTask, database, RunInv, RunControl
  <2>2. run[r].stop # "waiting"
    BY <2>1 DEF Endings
  <2>3. run'[r].pc \in {"finish", "decide"} /\ run'[r].stop = run[r].stop
    <3>1. ASSUME NEW left, NEW pc \in {"finish", "decide"},
                 run' = [run EXCEPT ![r].left = left, ![r].pc = pc]
          PROVE  run'[r].pc = pc /\ run'[r].stop = run[r].stop
      BY <3>1 DEF TypeOK
    <3>2. \E left, pc : /\ pc \in {"finish", "decide"}
                       /\ run' = [run EXCEPT ![r].left = left, ![r].pc = pc]
      <4>1. CASE LoseTaskRows(r)
        BY <4>1 DEF LoseTaskRows
      <4>2. ASSUME NEW t \in Tasks, DecideTask(r, t)
            PROVE  \E left, pc : /\ pc \in {"finish", "decide"}
                                /\ run' = [run EXCEPT ![r].left = left, ![r].pc = pc]
        <5>1. PICK pc \in {"finish", "decide"} :
                     pc = IF run[r].left = {t} THEN "finish" ELSE "decide"
          OBVIOUS
        <5>. QED
          BY <4>2, <5>1 DEF DecideTask
      <4>. QED
        BY <1>3, <4>1, <4>2
    <3>. QED
      BY <3>1, <3>2
  <2>. QED
    BY <2>2, <2>3 DEF Tracks
<1>4. CASE UpdateStatus(r)
  <2>1. run'[r].pc = "returned"
    BY <1>4 DEF UpdateStatus, Return, ReturnError, Leave, Fresh, TypeOK
  <2>. QED
    BY <2>1 DEF Tracks
<1>. QED
  BY <1>1, <1>2, <1>3, <1>4 DEF Ending

\* Every step keeps track of the position, while no two invocations are active.
LEMMA TracksNext ==
  ASSUME Inv, Alone, TracksInv, [Next]_vars PROVE TracksInv'
<1>0. TypeOK /\ \A q \in Runs : RunInv(q) /\ Tracks(q)
  BY DEF Inv, TracksInv
<1>. SUFFICES ASSUME NEW q \in Runs PROVE Tracks(q)'
  BY DEF TracksInv
<1>1. ASSUME NEW r \in Runs, Step(r) PROVE Tracks(q)'
  <2>1. CASE q = r
    BY <1>0, <1>1, <2>1, EnteringTracks, MovingTracks, EndingTracks DEF Step
  <2>2. CASE q # r
    <3>1. run'[q] = run[q]
      BY <1>0, <1>1, <2>2, StepKeepsOthers DEF OthersKeep
    <3>2. q \notin Active
      BY <1>1, <2>2, StepsAreActive DEF Alone
    <3>. QED
      BY <3>1, <3>2 DEF Active, Tracks
  <2>. QED
    BY <2>1, <2>2
<1>2. CASE Pause \/ Close
  <2>1. SamePosition /\ SameButHeld(run'[q], run[q])
    BY <1>0, <1>2, TypeParts, ActiveHeldType DEF Pause, Close, TypeOK, SamePosition
  <2>. QED
    BY <1>0, <2>1, TracksStays DEF SameButHeld
<1>3. ASSUME UNCHANGED vars \/ \E r \in Runs : Cancel(r) PROVE Tracks(q)'
  <2>1. SamePosition /\ run' = run
    BY <1>0, <1>3 DEF Cancel, vars, process, database, SamePosition, TypeOK
  <2>. QED
    BY <1>0, <2>1, TracksStays
<1>4. ASSUME NEW r \in Runs, CallRun(r) PROVE Tracks(q)'
  <2>1. run' = [run EXCEPT ![r].pc = "load"] /\ SamePosition
    BY <1>0, <1>4 DEF CallRun, Goto, database, SamePosition, TypeOK
  <2>2. IF q = r THEN run'[q].pc = "load" ELSE run'[q] = run[q]
    BY <1>0, <2>1 DEF TypeOK
  <2>. QED
    BY <1>0, <2>1, <2>2, TracksStays
<1>7. ASSUME NEW r \in Runs, Resume(r) PROVE Tracks(q)'
  <2>1. SamePosition
    BY <1>0, <1>7 DEF Resume, SamePosition, TypeOK
  <2>2. IF q = r THEN run'[q].pc = "load" ELSE SameButHeld(run'[q], run[q])
    BY <1>0, <1>7, TypeParts, ResumeEffect
  <2>. QED
    BY <1>0, <2>1, <2>2, TracksStays DEF SameButHeld
<1>5. ASSUME NEW r \in Runs, Crash(r) PROVE Tracks(q)'
  <2>1. SamePosition /\ IF q = r THEN run'[q].pc = "crashed" ELSE run'[q] = run[q]
    BY <1>0, <1>5 DEF Crash, Leave, Fresh, database, SamePosition, TypeOK
  <2>. QED
    BY <1>0, <2>1, TracksStays
<1>6. ASSUME NEW r \in Runs, NEW w, NEW in, StartWorkflow(r, w, in) PROVE Tracks(q)'
  <2>1. PICK pc : /\ pc \in {"attach", "supersede", "load"}
                  /\ run' = [run EXCEPT ![r].pc = pc, ![r].arg_wf = w, ![r].arg_in = in]
    BY <1>6 DEF StartWorkflow, FirstStatement
  <2>2. SamePosition /\ IF q = r THEN run'[q].pc = pc ELSE run'[q] = run[q]
    BY <1>0, <1>6, <2>1 DEF StartWorkflow, database, SamePosition, TypeOK
  <2>. QED
    BY <1>0, <2>1, <2>2, TracksStays
<1>. QED
  BY <1>1, <1>2, <1>3, <1>4, <1>5, <1>6, <1>7 DEF Next, Environment

LEMMA TracksHolds == Spec /\ []Alone => []TracksInv
<1>1. Init => TracksInv
  BY DEF Init, TracksInv, Tracks, Fresh
<1>2. Inv /\ Alone /\ TracksInv /\ [Next]_vars => TracksInv'
  BY TracksNext
<1>. QED
  BY <1>1, <1>2, InvHolds, PTL DEF Spec

\* Whatever fails, while no two runs are active at once the position that a run
\* goes on from is the one that the session's row has.
THEOREM PositionIsKept == Spec /\ []Alone => []PositionIsDurable
<1>1. TracksInv => PositionIsDurable
  BY DEF TracksInv, Tracks, Here, PositionIsDurable
<1>. QED
  BY <1>1, TracksHolds, PTL

\* The position moves along edges of the attached workflow only, from its entry
\* or from where it was, across pauses, crashes and new runs.
THEOREM WalksAreOnPaths == Spec /\ []Alone => WalkIsAPath
<1>1. ASSUME Inv, TracksInv, [Next]_vars, session'.node # session.node
      PROVE  \E x \in Graph[session'.wf].edges :
               /\ x.to = session'.node
               /\ x.from = IF session.node = None THEN Graph[session'.wf].entry
                                                  ELSE session.node
  <2>0. TypeOK
    BY <1>1 DEF Inv
  <2>1. PICK r \in Runs : Step(r)
    BY <1>1, <2>0 DEF Next, Environment, Pause, Close, CallRun, Resume, Cancel, Crash,
                      StartWorkflow, TypeOK, vars, database
  <2>2. UpdateCurrentNode(r)
    BY <1>1, <2>0, <2>1, PositionSteps DEF SamePosition, AttachWorkflow, TypeOK
  <2>3. session' = [session EXCEPT !.wf = run[r].wf, !.node = run[r].next]
    BY <1>1, <2>2 DEF UpdateCurrentNode
  <2>4. session'.wf = run[r].wf /\ session'.node = run[r].next
    BY <2>0, <2>3 DEF TypeOK
  <2>5. /\ run[r].wf = session.wf /\ run[r].node = Here
        /\ Linked(session.wf, run[r].node, run[r].next)
    BY <1>1, <2>2 DEF UpdateCurrentNode, TracksInv, Tracks
  <2>. QED
    BY <2>4, <2>5 DEF Linked, Here
<1>. QED
  BY <1>1, TracksHolds, InvHolds, PTL DEF Spec, WalkIsAPath

\* A session starts to wait for its user only just past a human_input node.
THEOREM HumanGatesHold == Spec /\ []Alone => HumanGateHolds
<1>1. ASSUME Inv, TracksInv, [Next]_vars,
             session'.status = "waiting_for_user", session.status # "waiting_for_user"
      PROVE  \E x \in Graph[session.wf].edges :
               /\ x.to = session.node
               /\ Graph[session.wf].types[x.from] = "human_input"
  <2>0. TypeOK
    BY <1>1 DEF Inv
  <2>1. PICK r \in Runs : UpdateStatus(r)
    BY <1>1, OnlyUpdateStatusEnds DEF Shown
  <2>2. run[r].pc = "finish" /\ session'.status = Endings[run[r].stop].session
    BY <1>1, <2>0, <2>1 DEF UpdateStatus, TypeOK
  <2>3. run[r].stop = "waiting"
    <3>1. run[r].stop \in Stops /\ Endings[run[r].stop].session = "waiting_for_user"
      BY <1>1, <2>0, <2>2 DEF TypeOK
    <3>. QED
      BY <3>1, OnlyWaitingWaits
  <2>. QED
    BY <1>1, <2>2, <2>3 DEF TracksInv, Tracks
<1>. QED
  BY <1>1, TracksHolds, InvHolds, PTL DEF Spec, HumanGateHolds
====
