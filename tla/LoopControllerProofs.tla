---- MODULE LoopControllerProofs ----
(***************************************************************************)
(* Proofs about the loop for every set of invocations, tasks, workflows    *)
(* and outputs, every limit, and with or without failures.                 *)
(***************************************************************************)
EXTENDS LoopProperties, TLAPS

----
(* Environments *)

\* The environment a fresh run starts with is an environment.
LEMMA EmptyIsEnv == IsEnv(EmptyEnv)
BY DEF IsEnv, EmptyEnv, Keys

\* Merging two environments gives an environment.
LEMMA MergeIsEnv ==
  ASSUME NEW e, NEW out, IsEnv(e), IsEnv(out)
  PROVE  IsEnv(Merge(e, out))
BY DEF IsEnv, Merge, Keys

\* Every decision is an answer, "" when there is none.
LEMMA DecisionIsAnswer ==
  ASSUME NEW e, NEW t, IsEnv(e)
  PROVE  DecisionFor(e, t) \in Answers
<1>1. ASSUME NEW fs PROVE DecisionFromFindings(fs) \in Answers
  BY AnswersAssumption DEF DecisionFromFindings
<1>2. deriveDecisionFromEnv(e) \in Answers
  BY <1>1, AnswersAssumption DEF deriveDecisionFromEnv
<1>3. GlobalDecision(e) \in Answers
  BY <1>2 DEF GlobalDecision, IsEnv
<1>. QED
  BY <1>3 DEF DecisionFor, HasOwnDecision, IsEnv

\* A selected edge leads to a node id.
LEMMA TargetsAreNodes ==
  ASSUME NEW w \in Workflows, NEW n, NEW e
  PROVE  SelectNextEdge(w, n, e) \subseteq NodeIds
BY GraphAssumption DEF SelectNextEdge, Matching

----
(* Type correctness.  A run past the top of its loop is at a node of an    *)
(* attached workflow, and one that decides or finishes is ending that way; *)
(* without that the next node and the session's last status have no type.  *)

RunControl(r) ==
  /\ run[r].pc \in {"begin", "execute", "move", "count"} => run[r].wf # None
  /\ run[r].pc \in {"collect", "decide"} => Endings[run[r].stop].decides
  /\ run[r].pc = "finish" => Endings[run[r].stop].session # None

Control == \A r \in Runs : RunControl(r)

\* What a step of a call that is over, or of one that goes on, leaves behind.
RunType == [pc : Pcs, arg_wf : Workflows \union {None},
            arg_in : Inputs \union {EmptyEnv},
            wf : Workflows \union {None}, node : NodeIds \union {None},
            next : NodeIds \union {None}, iter : Nat, stop : Stops,
            left : SUBSET Tasks, work : BOOLEAN, held : BOOLEAN, overrun : Nat]

\* A call that starts, or is over, has a well-typed local state.
LEMMA FreshType ==
  ASSUME NEW pc \in Pcs
  PROVE  Fresh(pc) \in RunType
BY DEF Fresh, RunType, Stops

\* Replacing one run's environment keeps every environment one.
LEMMA EnvUpdated ==
  ASSUME DOMAIN env = Runs, \A r \in Runs : IsEnv(env[r]),
         NEW q \in Runs, NEW e, IsEnv(e), env' = [env EXCEPT ![q] = e]
  PROVE  DOMAIN env' = Runs /\ \A r \in Runs : IsEnv(env'[r])
OBVIOUS

\* The database before any call is well typed, and no run is inside its loop.
LEMMA TypeInit == Init => TypeOK /\ Control
<1>. SUFFICES ASSUME Init PROVE TypeOK /\ Control
  OBVIOUS
<1>1. Fresh("idle") \in RunType /\ IsEnv(EmptyEnv)
  BY FreshType, EmptyIsEnv DEF Pcs
<1>2. run \in [Runs -> RunType] /\ \A r \in Runs : run[r].pc = "idle"
  BY <1>1 DEF Init, Fresh
<1>. QED
  BY <1>1, <1>2, AnswersAssumption
     DEF Init, TypeOK, RunType, Control, RunControl, SessionStatuses

\* The parts of the type invariant that the frame of each action fixes.
SessionType ==
  session \in [status : SessionStatuses, wf : Workflows \union {None},
               node : NodeIds \union {None}]
StoreType == /\ loop_input \in Inputs \union {EmptyEnv}
             /\ rows \subseteq Inputs \union Outputs \union {EmptyEnv}
LedgerType ==
  ledger \in [Runs -> [status : {"none", "running", "completed", "failed", "timed_out",
                                 "paused", "waiting_for_user"},
                       iter : Nat]]
TaskType ==
  tasks \in [Tasks -> [status : {"open", "completed", "needs_review"}, decision : Answers]]
ProcessType ==
  /\ run \in [Runs -> RunType]
  /\ DOMAIN env = Runs /\ \A r \in Runs : IsEnv(env[r])
  /\ cancelled \subseteq Runs /\ reported \subseteq Runs

\* The type invariant is the conjunction of its parts,
LEMMA TypeParts ==
  TypeOK <=> /\ SessionType /\ StoreType /\ LedgerType /\ TaskType
             /\ tries \in [Runs -> Nat] /\ ProcessType
BY DEF TypeOK, SessionType, StoreType, LedgerType, TaskType, ProcessType, RunType

\* in the next state too: a frame keeps the parts an action leaves alone.
LEMMA TypePartsNext ==
  TypeOK' <=> /\ SessionType' /\ StoreType' /\ LedgerType' /\ TaskType'
              /\ (tries \in [Runs -> Nat])' /\ ProcessType'
BY DEF TypeOK, SessionType, StoreType, LedgerType, TaskType, ProcessType, RunType

\* What the steps assign in a local state keeps its type,
LEMMA LocalUpdates ==
  ASSUME NEW x \in RunType, NEW pc \in Pcs
  PROVE  /\ [x EXCEPT !.pc = pc] \in RunType
         /\ \A s \in Stops : [x EXCEPT !.pc = pc, !.stop = s] \in RunType
         /\ \A w \in Workflows \union {None}, in \in Inputs \union {EmptyEnv} :
              [x EXCEPT !.pc = pc, !.arg_wf = w, !.arg_in = in] \in RunType
         /\ \A w \in Workflows \union {None}, n \in NodeIds \union {None} :
              [x EXCEPT !.pc = pc, !.wf = w, !.node = n] \in RunType
         /\ \A n \in NodeIds \union {None}, k \in Nat :
              [x EXCEPT !.pc = pc, !.node = n, !.overrun = k] \in RunType
         /\ \A n \in NodeIds \union {None} : [x EXCEPT !.pc = pc, !.next = n] \in RunType
<1>1. [x EXCEPT !.pc = pc] \in RunType
  BY DEF RunType
<1>2. ASSUME NEW s \in Stops PROVE [x EXCEPT !.pc = pc, !.stop = s] \in RunType
  BY DEF RunType
<1>3. ASSUME NEW w \in Workflows \union {None}, NEW in \in Inputs \union {EmptyEnv}
      PROVE  [x EXCEPT !.pc = pc, !.arg_wf = w, !.arg_in = in] \in RunType
  BY DEF RunType
<1>4. ASSUME NEW w \in Workflows \union {None}, NEW n \in NodeIds \union {None}
      PROVE  [x EXCEPT !.pc = pc, !.wf = w, !.node = n] \in RunType
  BY DEF RunType
<1>5. ASSUME NEW n \in NodeIds \union {None}, NEW k \in Nat
      PROVE  [x EXCEPT !.pc = pc, !.node = n, !.overrun = k] \in RunType
  BY DEF RunType
<1>6. ASSUME NEW n \in NodeIds \union {None} PROVE [x EXCEPT !.pc = pc, !.next = n] \in RunType
  BY DEF RunType
<1>. QED
  BY <1>1, <1>2, <1>3, <1>4, <1>5, <1>6

\* the tasks that are left, and what a counted iteration changes, too.
LEMMA LeftUpdates ==
  ASSUME NEW x \in RunType, NEW pc \in Pcs, NEW T \in SUBSET Tasks
  PROVE  /\ [x EXCEPT !.left = T, !.pc = pc] \in RunType
         /\ \A b \in BOOLEAN : [x EXCEPT !.pc = pc, !.left = T, !.work = b] \in RunType
<1>1. [x EXCEPT !.left = T, !.pc = pc] \in RunType
  BY DEF RunType
<1>2. ASSUME NEW b \in BOOLEAN PROVE [x EXCEPT !.pc = pc, !.left = T, !.work = b] \in RunType
  BY DEF RunType
<1>. QED
  BY <1>1, <1>2

LEMMA MovedType ==
  ASSUME NEW x \in RunType, NEW n \in Nat, NEW pc \in Pcs, NEW s \in Stops,
         NEW a \in NodeIds \union {None}, NEW b \in NodeIds \union {None}
  PROVE  [x EXCEPT !.iter = n, !.node = a, !.next = b, !.pc = pc, !.stop = s] \in RunType
BY DEF RunType

LEMMA LocalType ==
  ASSUME ProcessType, NEW r \in Runs PROVE run[r] \in RunType
BY DEF ProcessType

\* Leaving and going on keep the process state well typed.
LEMMA GotoType ==
  ASSUME ProcessType, NEW r \in Runs, NEW pc \in Pcs, Goto(r, pc)
  PROVE  ProcessType'
<1>1. [run[r] EXCEPT !.pc = pc] \in RunType
  BY LocalType, LocalUpdates
<1>2. run' = [run EXCEPT ![r] = [run[r] EXCEPT !.pc = pc]]
  BY DEF Goto, ProcessType
<1>3. run' \in [Runs -> RunType]
  BY <1>1, <1>2 DEF ProcessType
<1>. QED
  BY <1>3 DEF ProcessType, Goto, Quietly

\* Breaking out of the loop keeps the process state well typed.
LEMMA HaltType ==
  ASSUME ProcessType, NEW r \in Runs, NEW s \in Stops, Halt(r, s)
  PROVE  ProcessType'
<1>1. "mark" \in Pcs
  BY DEF Pcs
<1>2. [run[r] EXCEPT !.pc = "mark", !.stop = s] \in RunType
  BY <1>1, LocalType, LocalUpdates
<1>3. run' = [run EXCEPT ![r] = [run[r] EXCEPT !.pc = "mark", !.stop = s]]
  BY DEF Halt, ProcessType
<1>4. run' \in [Runs -> RunType]
  BY <1>2, <1>3 DEF ProcessType
<1>. QED
  BY <1>4 DEF ProcessType, Halt, Quietly

\* Dropping a call's locals keeps the process state well typed.
LEMMA LeaveType ==
  ASSUME ProcessType, NEW r \in Runs, NEW pc \in Pcs, Leave(r, pc),
         reported' \subseteq Runs
  PROVE  ProcessType'
<1>1. run' \in [Runs -> RunType]
  BY FreshType DEF ProcessType, Leave
<1>2. DOMAIN env' = Runs /\ \A q \in Runs : IsEnv(env'[q])
  BY EnvUpdated, EmptyIsEnv DEF ProcessType, Leave
<1>. QED
  BY <1>1, <1>2 DEF ProcessType, Leave

\* So does returning from runInternal, with an error or without.
LEMMA ReturnType ==
  ASSUME ProcessType, NEW r \in Runs, Return(r) \/ ReturnError(r)
  PROVE  ProcessType'
<1>1. Leave(r, "returned") /\ reported' \subseteq Runs
  BY DEF ProcessType, Return, ReturnError
<1>. QED
  BY <1>1, LeaveType DEF Pcs

\* A pause, or its end, changes nothing of the locals but the history of it.
SameButHeld(x, y) ==
  /\ x.pc = y.pc /\ x.wf = y.wf /\ x.node = y.node /\ x.next = y.next /\ x.iter = y.iter
  /\ x.stop = y.stop /\ x.left = y.left /\ x.work = y.work /\ x.overrun = y.overrun

LEMMA ActiveHeldType ==
  ASSUME ProcessType, NEW held \in BOOLEAN
  PROVE  /\ ActiveHeld(held) \in [Runs -> RunType]
         /\ \A r \in Runs : SameButHeld(ActiveHeld(held)[r], run[r])
         /\ \A r \in Active : ActiveHeld(held)[r].held = held
         /\ \A r \in Runs \ Active : ActiveHeld(held)[r] = run[r]
<1>1. \A r \in Runs : [run[r] EXCEPT !.held = held] \in RunType
  BY DEF ProcessType, RunType
<1>2. \A r \in Runs : SameButHeld([run[r] EXCEPT !.held = held], run[r])
                     /\ [run[r] EXCEPT !.held = held].held = held
  BY DEF ProcessType, RunType, SameButHeld
<1>3. \A r \in Runs : SameButHeld(run[r], run[r])
  BY DEF SameButHeld
<1>4. Active \subseteq Runs
  BY DEF Active
<1>. QED
  BY <1>1, <1>2, <1>3, <1>4 DEF ActiveHeld, ProcessType

\* Resume moves the run it starts, and releases the others.
LEMMA ResumeEffect ==
  ASSUME ProcessType, NEW r \in Runs, Resume(r)
  PROVE  /\ run[r].pc = "idle" /\ run'[r] = [run[r] EXCEPT !.pc = "load"]
         /\ run'[r].pc = "load"
         /\ \A q \in Runs \ {r} : run'[q] = ActiveHeld(FALSE)[q]
         /\ \A q \in Runs \ {r} : SameButHeld(run'[q], run[q])
         /\ SameButHeld(run'[r], [run[r] EXCEPT !.pc = "load"])
<1>. DEFINE H == ActiveHeld(FALSE)
<1>1. run[r].pc = "idle" /\ r \notin Active
  BY DEF Resume, MayInvoke, Active
<1>2. H \in [Runs -> RunType] /\ H[r] = run[r] /\ \A q \in Runs : SameButHeld(H[q], run[q])
  BY <1>1, ActiveHeldType
<1>3. run' = [H EXCEPT ![r].pc = "load"]
  BY DEF Resume
<1>. HIDE DEF H
<1>4. run'[r] = [run[r] EXCEPT !.pc = "load"] /\ \A q \in Runs \ {r} : run'[q] = H[q]
  BY <1>2, <1>3
<1>5. \A q \in Runs \ {r} : SameButHeld(run'[q], run[q])
  <2>. SUFFICES ASSUME NEW q \in Runs \ {r} PROVE SameButHeld(run'[q], run[q])
    OBVIOUS
  <2>1. SameButHeld(H[q], run[q]) /\ run'[q] = H[q]
    BY <1>2, <1>4
  <2>. QED
    BY <2>1
<1>6. SameButHeld(run'[r], [run[r] EXCEPT !.pc = "load"])
  BY <1>4 DEF SameButHeld
<1>7. run'[r].pc = "load"
  BY <1>4 DEF ProcessType, RunType
<1>. QED
  BY <1>1, <1>4, <1>5, <1>6, <1>7 DEF H

\* What the callers of the loop do, and a crash, keep every type.
LEMMA CallersType ==
  ASSUME TypeOK, NEW r \in Runs,
         NEW w \in Workflows \union {None}, NEW in \in Inputs \union {EmptyEnv},
         \/ Pause \/ Close \/ CallRun(r) \/ Resume(r) \/ Cancel(r) \/ Crash(r)
         \/ StartWorkflow(r, w, in)
  PROVE  TypeOK'
<1>. USE TypeParts, TypePartsNext
<1>0. "load" \in Pcs /\ "crashed" \in Pcs /\ FirstStatement(w, in) \in Pcs
  BY DEF Pcs, FirstStatement
<1>1. CASE Pause
  BY <1>1, ActiveHeldType DEF Pause, Quietly, SessionType, SessionStatuses, StoreType, LedgerType,
                              TaskType, ProcessType
<1>2. CASE Close
  BY <1>2, ActiveHeldType DEF Close, Quietly, SessionType, SessionStatuses, StoreType, LedgerType,
                              TaskType, ProcessType
<1>3. CASE CallRun(r)
  BY <1>0, <1>3, GotoType DEF CallRun, database, SessionType, StoreType, LedgerType, TaskType
<1>4. CASE Resume(r)
  <2>. DEFINE H == ActiveHeld(FALSE)
  <2>1. H \in [Runs -> RunType]
    BY ActiveHeldType
  <2>2. run' = [H EXCEPT ![r] = [H[r] EXCEPT !.pc = "load"]]
    BY <1>4, <2>1 DEF Resume
  <2>3. [H[r] EXCEPT !.pc = "load"] \in RunType
    BY <1>0, <2>1, LocalUpdates
  <2>. HIDE DEF H
  <2>4. ProcessType'
    BY <1>4, <2>1, <2>2, <2>3 DEF Resume, Quietly, ProcessType
  <2>. QED
    BY <1>4, <2>4 DEF Resume, SessionType, SessionStatuses, StoreType, LedgerType, TaskType
<1>5. CASE Cancel(r)
  BY <1>5 DEF Cancel, database, SessionType, StoreType, LedgerType, TaskType, ProcessType,
              Active
<1>6. CASE Crash(r)
  <2>1. ProcessType'
    BY <1>0, <1>6, LeaveType DEF Crash, ProcessType
  <2>. QED
    BY <1>6, <2>1 DEF Crash, database, SessionType, StoreType, LedgerType, TaskType
<1>7. CASE StartWorkflow(r, w, in)
  <2>1. [run[r] EXCEPT !.pc = FirstStatement(w, in), !.arg_wf = w, !.arg_in = in] \in RunType
    BY <1>0, LocalType, LocalUpdates
  <2>2. ProcessType'
    BY <1>7, <2>1 DEF StartWorkflow, ProcessType, Quietly
  <2>. QED
    BY <1>7, <2>2 DEF StartWorkflow, database, SessionType, StoreType, LedgerType, TaskType
<1>. QED
  BY <1>1, <1>2, <1>3, <1>4, <1>5, <1>6, <1>7

\* What StartWorkflow does before the loop, and opening the run, keep every type.
LEMMA StartingType ==
  ASSUME TypeOK, NEW r \in Runs, Starting(r) \/ Opening(r)
  PROVE  TypeOK'
<1>. USE TypeParts, TypePartsNext
<1>0. /\ {"insert", "load", "create", "graph", "top"} \subseteq Pcs /\ "error" \in Stops
      /\ FirstStatement(None, run[r].arg_in) \in Pcs
      /\ run[r].arg_wf \in Workflows \union {None}
      /\ run[r].arg_in \in Inputs \union {EmptyEnv}
  BY DEF Pcs, Stops, FirstStatement, ProcessType, RunType
<1>1. CASE AttachWorkflow(r)
  BY <1>0, <1>1, GotoType, ReturnType
     DEF AttachWorkflow, SessionType, StoreType, LedgerType, TaskType
<1>2. CASE SupersedeInput(r)
  BY <1>0, <1>2, GotoType, ReturnType
     DEF SupersedeInput, SessionType, StoreType, LedgerType, TaskType
<1>3. CASE InsertInput(r)
  BY <1>0, <1>3, GotoType, ReturnType
     DEF InsertInput, SessionType, StoreType, LedgerType, TaskType
<1>4. CASE LoadSession(r)
  <2>1. [run[r] EXCEPT !.pc = "create", !.wf = session.wf, !.node = session.node] \in RunType
    BY <1>0, LocalType, LocalUpdates DEF SessionType
  <2>2. ProcessType'
    BY <1>4, <2>1, ReturnType DEF LoadSession, ProcessType, Quietly
  <2>. QED
    BY <1>4, <2>2 DEF LoadSession, database, SessionType, StoreType, LedgerType, TaskType
<1>5. CASE CreateLoopRun(r)
  BY <1>0, <1>5, GotoType, ReturnType
     DEF CreateLoopRun, SessionType, StoreType, LedgerType, TaskType
<1>6. CASE LoadGraph(r)
  <2>1. IsEnv(Merge(EmptyEnv, loop_input)) /\ [run[r] EXCEPT !.pc = "top"] \in RunType
    BY <1>0, MergeIsEnv, EmptyIsEnv, LoopAssumption DEF StoreType, ProcessType, RunType
  <2>2. Halt(r, "error") => ProcessType'
    BY <1>0, HaltType
  <2>3. ASSUME run' = [run EXCEPT ![r].pc = "top"],
               UNCHANGED <<cancelled, reported>>,
               \/ env' = [env EXCEPT ![r] = Merge(EmptyEnv, loop_input)]
               \/ UNCHANGED env
        PROVE  ProcessType'
    <3>1. run' \in [Runs -> RunType]
      BY <2>1, <2>3 DEF ProcessType
    <3>2. DOMAIN env' = Runs /\ \A q \in Runs : IsEnv(env'[q])
      BY <2>1, <2>3, EnvUpdated DEF ProcessType
    <3>. QED
      BY <2>3, <3>1, <3>2 DEF ProcessType
  <2>. QED
    BY <1>6, <2>2, <2>3 DEF LoadGraph, database, SessionType, StoreType, LedgerType, TaskType
<1>. QED
  BY <1>1, <1>2, <1>3, <1>4, <1>5, <1>6 DEF Starting, Opening

\* The checks at the top of an iteration keep every type.
LEMMA ToppingType ==
  ASSUME TypeOK, NEW r \in Runs, Topping(r)
  PROVE  TypeOK'
<1>. USE TypeParts, TypePartsNext
<1>1. CASE EnterNode(r)
  <2>1. CurrentNode(r) \in NodeIds \union {None}
    BY GraphAssumption DEF CurrentNode, ProcessType, RunType
  <2>2. \A k \in Nat :
          [run[r] EXCEPT !.pc = "begin", !.node = CurrentNode(r), !.overrun = k] \in RunType
    <3>1. "begin" \in Pcs
      BY DEF Pcs
    <3>. QED
      BY <2>1, <3>1, LocalType, LocalUpdates
  <2>4. run[r].overrun \in Nat /\ run[r].overrun + 1 \in Nat
    BY DEF ProcessType, RunType
  <2>5. PICK k \in Nat : run' = [run EXCEPT ![r] = [run[r] EXCEPT !.pc = "begin",
                                    !.node = CurrentNode(r), !.overrun = k]]
    <3>1. PICK failed \in BOOLEAN :
            run' = [run EXCEPT ![r].pc = "begin", ![r].node = CurrentNode(r),
                       ![r].overrun = IF run[r].held /\ ~failed THEN @ + 1 ELSE @]
      BY <1>1 DEF EnterNode, ReadResults
    <3>. QED
      BY <2>4, <3>1 DEF ProcessType
  <2>3. ProcessType'
    BY <1>1, <2>2, <2>5 DEF EnterNode, ProcessType, Quietly
  <2>. QED
    BY <1>1, <2>3 DEF EnterNode, database, SessionType, StoreType, LedgerType, TaskType
<1>2. CASE \E s \in Stops : Halt(r, s) /\ UNCHANGED database
  BY <1>2, HaltType DEF database, SessionType, StoreType, LedgerType, TaskType
<1>3. {"paused", "max_iterations", "timeout", "no_position", "error"} \subseteq Stops
  BY DEF Stops
<1>. QED
  BY <1>1, <1>2, <1>3
     DEF Topping, SeePause, SpendIterations, RunOutOfTime, HaveNoPosition, MissNode

\* Executing a node and moving along an edge keeps every type.
LEMMA OneNodeType ==
  ASSUME TypeOK, Control, NEW r \in Runs, OneNode(r)
  PROVE  TypeOK'
<1>. USE TypeParts, TypePartsNext
<1>0. /\ {"execute", "move", "count", "mark", "top"} \subseteq Pcs
      /\ {"execution", "no_edges", "error", "waiting", "none"} \subseteq Stops
  BY DEF Pcs, Stops
<1>1. CASE BeginNode(r)
  BY <1>0, <1>1, GotoType DEF BeginNode, SessionType, StoreType, LedgerType, TaskType
<1>2. CASE FailNode(r)
  BY <1>0, <1>2, HaltType DEF FailNode, database, SessionType, StoreType, LedgerType, TaskType
<1>3. ASSUME NEW out \in Outputs, FinishNode(r, out) PROVE TypeOK'
  <2>1. IsEnv(Merge(env[r], out))
    BY MergeIsEnv, LoopAssumption DEF ProcessType
  <2>2. DOMAIN env' = Runs /\ \A q \in Runs : IsEnv(env'[q])
    BY <1>3, <2>1, EnvUpdated DEF FinishNode, ProcessType
  <2>3. run[r].wf \in Workflows
    BY <1>3 DEF FinishNode, Control, RunControl, ProcessType, RunType
  <2>4. SelectNextEdge(run[r].wf, run[r].node, Merge(env[r], out)) \subseteq NodeIds
    BY <2>3, TargetsAreNodes
  <2>5. /\ [run[r] EXCEPT !.pc = "mark", !.stop = "no_edges"] \in RunType
        /\ \A n \in NodeIds : [run[r] EXCEPT !.pc = "move", !.next = n] \in RunType
    BY <1>0, LocalType, LocalUpdates
  <2>6. run' \in [Runs -> RunType]
    <3>1. CASE run' = [run EXCEPT ![r].pc = "mark", ![r].stop = "no_edges"]
      BY <2>5, <3>1 DEF ProcessType
    <3>2. ASSUME NEW n \in NodeIds, run' = [run EXCEPT ![r].pc = "move", ![r].next = n]
          PROVE  run' \in [Runs -> RunType]
      BY <2>5, <3>2 DEF ProcessType
    <3>. QED
      BY <1>3, <2>4, <3>1, <3>2 DEF FinishNode
  <2>7. StoreType'
    BY <1>3 DEF FinishNode, StoreType
  <2>. QED
    BY <1>3, <2>2, <2>6, <2>7 DEF FinishNode, ProcessType, SessionType, LedgerType, TaskType
<1>4. CASE UpdateCurrentNode(r)
  <2>1. SessionType'
    <3>1. run[r].wf \in Workflows \union {None} /\ run[r].next \in NodeIds \union {None}
      BY DEF ProcessType, RunType
    <3>2. session' = session \/ session' = [session EXCEPT !.wf = run[r].wf, !.node = run[r].next]
      BY <1>4 DEF UpdateCurrentNode
    <3>. QED
      BY <3>1, <3>2 DEF SessionType
  <2>2. Goto(r, "count") \/ Halt(r, "error")
    BY <1>4 DEF UpdateCurrentNode
  <2>3. ProcessType'
    BY <1>0, <2>2, GotoType, HaltType
  <2>. QED
    BY <1>4, <2>1, <2>3 DEF UpdateCurrentNode, StoreType, LedgerType, TaskType
<1>5. CASE CountIteration(r)
  <2>1. run[r].iter + 1 \in Nat
    BY DEF ProcessType, RunType
  <2>2. \A pc \in {"mark", "top"}, s \in {"waiting", "none"}, n \in Nat :
          [run[r] EXCEPT !.iter = n, !.node = run[r].next, !.next = None,
                         !.pc = pc, !.stop = s] \in RunType
    <3>1. \A pc \in {"mark", "top"} : pc \in Pcs
      BY <1>0
    <3>2. \A s \in {"waiting", "none"} : s \in Stops
      BY <1>0
    <3>3. run[r].next \in NodeIds \union {None} /\ None \in NodeIds \union {None}
      BY DEF ProcessType, RunType
    <3>. QED
      BY <3>1, <3>2, <3>3, MovedType DEF ProcessType
  <2>3. ProcessType'
    BY <1>5, <2>1, <2>2 DEF CountIteration, ProcessType, Quietly
  <2>4. LedgerType'
    BY <1>5, <2>1 DEF CountIteration, LedgerType
  <2>. QED
    BY <1>5, <2>3, <2>4 DEF CountIteration, SessionType, StoreType, TaskType
<1>. QED
  BY <1>1, <1>2, <1>3, <1>4, <1>5 DEF OneNode

\* Marking the row, deciding the tasks and finishing the session keep every type.
LEMMA EndingType ==
  ASSUME TypeOK, Control, NEW r \in Runs, Ending(r)
  PROVE  TypeOK'
<1>. USE TypeParts, TypePartsNext
<1>0. {"returned", "collect", "decide", "finish"} \subseteq Pcs
  BY DEF Pcs
<1>1. CASE MarkStopped(r)
  <2>1. AfterMark(run[r].stop) \in Pcs
    BY <1>0 DEF AfterMark
  <2>2. Endings[run[r].stop].row \in {"completed", "failed", "timed_out", "paused",
                                      "waiting_for_user"}
    BY DEF ProcessType, RunType, Stops, Endings
  <2>3. LedgerType'
    BY <1>1, <2>2 DEF MarkStopped, LedgerType
  <2>4. reported' \subseteq Runs
    BY <1>1 DEF MarkStopped, ProcessType
  <2>5. [run[r] EXCEPT !.pc = AfterMark(run[r].stop)] \in RunType
    BY <2>1, LocalType, LocalUpdates
  <2>6. ProcessType'
    BY <1>0, <1>1, <2>4, <2>5, LeaveType DEF MarkStopped, ProcessType
  <2>. QED
    BY <1>1, <2>3, <2>6 DEF MarkStopped, SessionType, StoreType, TaskType
<1>2. CASE CollectTasks(r)
  <2>1. \A pc \in {"finish", "decide"}, b \in BOOLEAN :
          [run[r] EXCEPT !.pc = pc, !.left = Tasks, !.work = b] \in RunType
    BY <1>0, LocalType, LeftUpdates
  <2>2. Goto(r, "finish") => ProcessType'
    BY <1>0, GotoType
  <2>3. ASSUME NEW b \in BOOLEAN, NEW pc \in {"finish", "decide"}, Quietly,
               run' = [run EXCEPT ![r].pc = pc, ![r].left = Tasks, ![r].work = b]
        PROVE  ProcessType'
    BY <2>1, <2>3 DEF ProcessType, Quietly
  <2>4. ProcessType'
    BY <1>2, <2>2, <2>3 DEF CollectTasks, ProducedWork
  <2>. QED
    BY <1>2, <2>4 DEF CollectTasks, database, SessionType, StoreType, LedgerType, TaskType
<1>3. CASE LoseTaskRows(r)
  <2>1. [run[r] EXCEPT !.left = {}, !.pc = "finish"] \in RunType
    BY <1>0, LocalType, LeftUpdates
  <2>. QED
    BY <1>3, <2>1 DEF LoseTaskRows, database, SessionType, StoreType, LedgerType, TaskType,
                      ProcessType, Quietly
<1>4. CASE UpdateStatus(r)
  <2>1. Endings[run[r].stop].session \in SessionStatuses
    <3>1. Endings[run[r].stop].session # None
      BY <1>4 DEF UpdateStatus, Control, RunControl
    <3>. QED
      BY <3>1 DEF ProcessType, RunType, Stops, Endings, SessionStatuses
  <2>2. SessionType'
    BY <1>4, <2>1 DEF UpdateStatus, SessionType
  <2>. QED
    BY <1>4, <2>2, ReturnType DEF UpdateStatus, StoreType, LedgerType, TaskType
<1>5. ASSUME NEW t \in Tasks, DecideTask(r, t) PROVE TypeOK'
  <2>1. DecisionFor(env[r], t) \in Answers
    BY DecisionIsAnswer DEF ProcessType
  <2>2. Verdict(DecisionFor(env[r], t)) \in [status : {"open", "completed", "needs_review"},
                                             decision : Answers]
    BY <2>1, AnswersAssumption DEF Verdict
  <2>3. TaskType'
    BY <1>5, <2>2 DEF DecideTask, Decided, TaskType
  <2>4. \A pc \in {"finish", "decide"} :
          [run[r] EXCEPT !.left = run[r].left \ {t}, !.pc = pc] \in RunType
    <3>1. run[r].left \ {t} \in SUBSET Tasks
      BY LocalType DEF RunType
    <3>. QED
      BY <1>0, <3>1, LocalType, LeftUpdates
  <2>5. ProcessType'
    BY <1>5, <2>4 DEF DecideTask, ProcessType, Quietly
  <2>. QED
    BY <1>5, <2>3, <2>5 DEF DecideTask, SessionType, StoreType, LedgerType
<1>. QED
  BY <1>1, <1>2, <1>3, <1>4, <1>5 DEF Ending

----
(* What the counters and the ledger row of a run may be at each point of   *)
(* it.  A run that has not opened its row has neither row nor tries, and   *)
(* one that is executing a node has one iteration left to count.           *)

RunLimits(r) ==
  /\ run[r].pc \in {"idle", "attach", "supersede", "insert", "load", "create", "graph"} =>
       tries[r] = 0 /\ run[r].iter = 0 /\ ledger[r].iter = 0
  /\ run[r].pc \in {"top", "begin"} => tries[r] <= run[r].iter
  /\ run[r].pc \in {"execute", "move", "count"} => tries[r] <= run[r].iter + 1
  /\ run[r].pc \in {"begin", "execute", "move", "count"} => run[r].iter < MaxIterations
  /\ tries[r] <= MaxIterations /\ run[r].iter <= MaxIterations
  /\ ledger[r].iter <= MaxIterations
  /\ run[r].pc \notin {"returned", "crashed"} => ledger[r].iter <= run[r].iter

RunRow(r) ==
  /\ run[r].pc \in {"idle", "attach", "supersede", "insert", "load", "create"} =>
       ledger[r] = [status |-> "none", iter |-> 0]
  /\ run[r].pc \in {"graph", "top", "begin", "execute", "move", "count", "mark"} =>
       ledger[r].status = "running"
  /\ run[r].pc \in {"collect", "decide", "finish"} =>
       ledger[r].status = Endings[run[r].stop].row \/ r \in reported
  /\ run[r].pc = "returned" /\ ledger[r].status = "running" => r \in reported

RunInv(r) == RunControl(r) /\ RunLimits(r) /\ RunRow(r)

\* An action of one invocation leaves what concerns the others alone.
OthersKeep(r) ==
  \A q \in Runs \ {r} :
    /\ run'[q] = run[q] /\ ledger'[q] = ledger[q] /\ tries'[q] = tries[q]
    /\ q \in reported => q \in reported'

\* A run that keeps its locals and its row keeps its part of the invariant.
LEMMA OthersInv ==
  ASSUME NEW r \in Runs, OthersKeep(r), \A q \in Runs : RunInv(q)
  PROVE  \A q \in Runs \ {r} : RunInv(q)'
BY DEF OthersKeep, RunInv, RunControl, RunLimits, RunRow

\* A step of one invocation leaves the others' locals and rows alone.
LEMMA StepKeepsOthers ==
  ASSUME TypeOK, NEW r \in Runs, Step(r)
  PROVE  OthersKeep(r)
<1>. USE DEF TypeOK, OthersKeep, Goto, Halt, Leave, Return, ReturnError, Quietly, database
<1>1. CASE Starting(r)
  BY <1>1 DEF Starting, AttachWorkflow, SupersedeInput, InsertInput
<1>2. CASE Opening(r)
  BY <1>2 DEF Opening, LoadSession, CreateLoopRun, LoadGraph
<1>3. CASE Topping(r)
  BY <1>3 DEF Topping, SeePause, SpendIterations, RunOutOfTime, HaveNoPosition, MissNode,
              EnterNode
<1>4. CASE OneNode(r)
  BY <1>4 DEF OneNode, BeginNode, FailNode, FinishNode, UpdateCurrentNode, CountIteration
<1>5. CASE Ending(r)
  BY <1>5 DEF Ending, MarkStopped, CollectTasks, LoseTaskRows, DecideTask, UpdateStatus
<1>. QED
  BY <1>1, <1>2, <1>3, <1>4, <1>5 DEF Step

\* The acting invocation, group of steps by group of steps.
LEMMA StartingInv ==
  ASSUME TypeOK, NEW r \in Runs, RunInv(r), Starting(r)
  PROVE  RunInv(r)'
<1>. USE DEF TypeOK, RunInv, RunControl, RunLimits, RunRow, Goto, Leave, Fresh, Return,
             ReturnError, Quietly, FirstStatement
<1>1. CASE AttachWorkflow(r)
  BY <1>1 DEF AttachWorkflow
<1>2. CASE SupersedeInput(r)
  BY <1>2 DEF SupersedeInput
<1>3. CASE InsertInput(r)
  BY <1>3 DEF InsertInput
<1>. QED
  BY <1>1, <1>2, <1>3 DEF Starting

\* Loading the session and creating the row establish what the loop relies on.
LEMMA OpeningInv ==
  ASSUME TypeOK, NEW r \in Runs, RunInv(r), Opening(r)
  PROVE  RunInv(r)'
<1>. USE DEF TypeOK, RunInv, RunControl, RunLimits, RunRow, Goto, Halt, Leave, Fresh, Return,
             ReturnError, Quietly, database
<1>. USE LoopAssumption
<1>1. CASE LoadSession(r)
  BY <1>1 DEF LoadSession
<1>2. CASE CreateLoopRun(r)
  BY <1>2 DEF CreateLoopRun, Outcomes, Done, Refused, Lost
<1>3. CASE LoadGraph(r)
  BY <1>3 DEF LoadGraph
<1>. QED
  BY <1>1, <1>2, <1>3 DEF Opening

\* The checks at the top keep the limits and the row in step.
LEMMA ToppingInv ==
  ASSUME TypeOK, NEW r \in Runs, RunInv(r), Topping(r)
  PROVE  RunInv(r)'
<1>. USE DEF TypeOK, RunInv, RunControl, RunLimits, RunRow, Goto, Halt, Quietly, database,
             Looping, AtTop, Spent
<1>. USE LoopAssumption
<1>1. CASE EnterNode(r)
  <2>1. run[r].wf # None
    BY <1>1 DEF EnterNode, CurrentNode
  <2>. QED
    BY <1>1, <2>1 DEF EnterNode
<1>2. CASE \E s \in Stops : AtTop(r) /\ Halt(r, s) /\ UNCHANGED database
  BY <1>2
<1>3. {"paused", "max_iterations", "timeout", "no_position", "error"} \subseteq Stops
  BY DEF Stops
<1>. QED
  BY <1>1, <1>2, <1>3
     DEF Topping, SeePause, SpendIterations, RunOutOfTime, HaveNoPosition, MissNode

\* So do executing a node, moving and counting.
LEMMA OneNodeInv ==
  ASSUME TypeOK, NEW r \in Runs, RunInv(r), OneNode(r)
  PROVE  RunInv(r)'
<1>. USE DEF TypeOK, RunInv, RunControl, RunLimits, RunRow, Goto, Halt, Quietly, database
<1>. USE LoopAssumption
<1>1. CASE BeginNode(r)
  BY <1>1 DEF BeginNode
<1>2. CASE FailNode(r)
  BY <1>2 DEF FailNode
<1>3. ASSUME NEW out \in Outputs, FinishNode(r, out) PROVE RunInv(r)'
  BY <1>3 DEF FinishNode
<1>4. CASE UpdateCurrentNode(r)
  <2>1. /\ run[r].pc = "move" /\ UNCHANGED <<ledger, tries>>
        /\ Goto(r, "count") \/ Halt(r, "error")
    BY <1>4 DEF UpdateCurrentNode
  <2>. QED
    BY <2>1
<1>5. CASE CountIteration(r)
  <2>1. /\ run[r].pc = "count" /\ UNCHANGED <<tries, reported>>
        /\ UNCHANGED ledger \/ ledger' = [ledger EXCEPT ![r].iter = run[r].iter + 1]
    BY <1>5 DEF CountIteration
  <2>2. /\ run'[r].pc \in {"mark", "top"} /\ run'[r].iter = run[r].iter + 1
        /\ run'[r].wf = run[r].wf
    BY <1>5 DEF CountIteration
  <2>. QED
    BY <2>1, <2>2
<1>. QED
  BY <1>1, <1>2, <1>3, <1>4, <1>5 DEF OneNode

\* A run that decides the tasks sets the session's status afterwards.
LEMMA DecidersFinish ==
  \A s \in Stops : Endings[s].decides => Endings[s].session # None
<1>1. \A s \in {"max_iterations", "timeout", "no_position", "no_edges"} :
        Endings[s].session \in {"completed", "timed_out"}
  BY DEF Endings
<1>2. \A s \in {"none", "paused", "execution", "waiting", "error"} : Endings[s].decides = FALSE
  BY DEF Endings
<1>. QED
  BY <1>1, <1>2 DEF Stops, None

\* No ending leaves the row 'running', or writes any status but a stop.
LEMMA EndingsStop ==
  \A s \in Stops : Endings[s].row \in {"completed", "failed", "timed_out", "paused",
                                       "waiting_for_user"}
BY DEF Stops, Endings

\* After the loop the row stops, and stays stopped while the tasks are decided.
LEMMA EndingInv ==
  ASSUME TypeOK, NEW r \in Runs, RunInv(r), Ending(r)
  PROVE  RunInv(r)'
<1>0. Endings[run[r].stop].decides => Endings[run[r].stop].session # None
  <2>1. run[r].stop \in Stops
    BY DEF TypeOK
  <2>. QED
    BY <2>1, DecidersFinish
<1>. USE DEF TypeOK, RunInv, RunControl, RunLimits, RunRow, Goto, Leave, Fresh, Return,
             ReturnError, Quietly, database
<1>. USE LoopAssumption
<1>1. CASE MarkStopped(r)
  <2>1. run[r].stop \in Stops /\ Endings[run[r].stop].row # "running"
    BY EndingsStop
  <2>2. /\ run[r].pc = "mark" /\ UNCHANGED tries
        /\ ledger'[r].iter = ledger[r].iter
        /\ r \in reported => r \in reported'
        /\ ledger'[r].status = Endings[run[r].stop].row \/ r \in reported'
    BY <1>1 DEF MarkStopped, Outcomes, Done, Refused, Lost
  <2>3. \/ run'[r] = Fresh("returned")
        \/ /\ run'[r] = [run[r] EXCEPT !.pc = AfterMark(run[r].stop)]
           /\ AfterMark(run[r].stop) # "returned"
    BY <1>1 DEF MarkStopped
  <2>4. CASE run'[r] = Fresh("returned")
    BY <2>1, <2>2, <2>4
  <2>5. ASSUME run'[r] = [run[r] EXCEPT !.pc = AfterMark(run[r].stop)],
               AfterMark(run[r].stop) # "returned"
        PROVE  RunInv(r)'
    <3>1. PICK pc \in {"collect", "finish"} : pc = AfterMark(run[r].stop)
      BY <2>5 DEF AfterMark
    <3>2. /\ pc = "collect" => Endings[run[r].stop].decides
          /\ pc = "finish" => Endings[run[r].stop].session # None
      BY <3>1 DEF AfterMark
    <3>3. /\ run'[r].pc = pc /\ run'[r].stop = run[r].stop /\ run'[r].iter = run[r].iter
      BY <2>5, <3>1
    <3>. QED
      BY <2>2, <3>2, <3>3
  <2>. QED
    BY <2>3, <2>4, <2>5
<1>2. CASE CollectTasks(r)
  <2>0. run[r].pc = "collect" /\ UNCHANGED <<ledger, tries>>
    BY <1>2 DEF CollectTasks
  <2>1. ASSUME NEW b, NEW pc \in {"decide", "finish"}, Quietly,
               run' = [run EXCEPT ![r].pc = pc, ![r].left = Tasks, ![r].work = b]
        PROVE  RunInv(r)'
    BY <1>0, <2>0, <2>1
  <2>2. Goto(r, "finish") => RunInv(r)'
    BY <1>0, <2>0
  <2>. QED
    BY <1>2, <2>1, <2>2 DEF CollectTasks
<1>3. CASE LoseTaskRows(r)
  BY <1>0, <1>3 DEF LoseTaskRows
<1>4. ASSUME NEW t \in Tasks, DecideTask(r, t) PROVE RunInv(r)'
  BY <1>0, <1>4 DEF DecideTask
<1>5. CASE UpdateStatus(r)
  <2>1. run[r].pc = "finish" /\ UNCHANGED <<ledger, tries>>
    BY <1>5 DEF UpdateStatus
  <2>2. Return(r) \/ ReturnError(r)
    BY <1>5 DEF UpdateStatus
  <2>3. run'[r] = Fresh("returned") /\ (r \in reported => r \in reported')
    BY <2>2
  <2>4. ledger[r].status = "running" => r \in reported
    BY <2>1, EndingsStop
  <2>. QED
    BY <2>1, <2>3, <2>4
<1>. QED
  BY <1>1, <1>2, <1>3, <1>4, <1>5 DEF Ending

\* A step of one invocation keeps the invariant of all of them.
LEMMA StepInv ==
  ASSUME TypeOK, NEW r \in Runs, \A q \in Runs : RunInv(q), Step(r)
  PROVE  \A q \in Runs : RunInv(q)'
<1>1. RunInv(r)'
  BY StartingInv, OpeningInv, ToppingInv, OneNodeInv, EndingInv DEF Step
<1>2. \A q \in Runs \ {r} : RunInv(q)'
  BY StepKeepsOthers, OthersInv
<1>. QED
  BY <1>1, <1>2

\* What the callers do to any invocation keeps it.
LEMMA CallersInv ==
  ASSUME TypeOK, \A q \in Runs : RunInv(q), NEW r \in Runs,
         NEW w \in Workflows \union {None}, NEW in \in Inputs \union {EmptyEnv},
         \/ Pause \/ Close \/ CallRun(r) \/ Resume(r) \/ Cancel(r) \/ Crash(r)
         \/ StartWorkflow(r, w, in)
  PROVE  \A q \in Runs : RunInv(q)'
<1>. USE DEF TypeOK, RunInv, RunControl, RunLimits, RunRow, Goto, Quietly, database
<1>0. ProcessType
  BY TypeParts
<1>1. CASE Pause \/ Close
  <2>1. \A q \in Runs : SameButHeld(run'[q], run[q])
    BY <1>0, <1>1, ActiveHeldType DEF Pause, Close
  <2>2. UNCHANGED <<ledger, tries, reported>>
    BY <1>1 DEF Pause, Close
  <2>. QED
    BY <2>1, <2>2 DEF SameButHeld
<1>2. CASE Cancel(r)
  BY <1>2 DEF Cancel
<1>3. CASE CallRun(r)
  BY <1>3 DEF CallRun, MayInvoke
<1>6. CASE Resume(r)
  <2>1. \A q \in Runs \ {r} : SameButHeld(run'[q], run[q])
    BY <1>0, <1>6, ResumeEffect DEF Resume
  <2>2. run[r].pc = "idle" /\ SameButHeld(run'[r], [run[r] EXCEPT !.pc = "load"])
    BY <1>0, <1>6, ResumeEffect
  <2>3. UNCHANGED <<ledger, tries, reported>>
    BY <1>6 DEF Resume
  <2>. QED
    BY <2>1, <2>2, <2>3 DEF SameButHeld
<1>4. CASE Crash(r)
  BY <1>4, LoopAssumption DEF Crash, Leave, Fresh
<1>5. CASE StartWorkflow(r, w, in)
  <2>1. /\ run[r].pc = "idle" /\ UNCHANGED <<ledger, tries, reported>>
        /\ \E pc \in {"attach", "supersede", "load"} :
             run' = [run EXCEPT ![r].pc = pc, ![r].arg_wf = w, ![r].arg_in = in]
    BY <1>5 DEF StartWorkflow, MayInvoke, FirstStatement
  <2>. QED
    BY <2>1
<1>. QED
  BY <1>1, <1>2, <1>3, <1>4, <1>5, <1>6

----
(* The invariant, and what follows from it *)

Inv == TypeOK /\ \A r \in Runs : RunInv(r)

\* The invariant holds before any call,
LEMMA InvInit == Init => Inv
<1>. SUFFICES ASSUME Init PROVE Inv
  OBVIOUS
<1>1. TypeOK /\ Control
  BY TypeInit
<1>2. ASSUME NEW r \in Runs PROVE RunLimits(r) /\ RunRow(r)
  BY LoopAssumption DEF Init, Fresh, RunLimits, RunRow
<1>. QED
  BY <1>1, <1>2 DEF Inv, RunInv, Control

\* and every step keeps it.
LEMMA InvNext == Inv /\ [Next]_vars => Inv'
<1>. SUFFICES ASSUME Inv, [Next]_vars PROVE Inv'
  OBVIOUS
<1>0. TypeOK /\ Control /\ \A q \in Runs : RunInv(q)
  BY DEF Inv, Control, RunInv
<1>1. ASSUME NEW r \in Runs, Step(r) PROVE Inv'
  <2>1. TypeOK'
    BY <1>0, <1>1, StartingType, ToppingType, OneNodeType, EndingType DEF Step
  <2>. QED
    BY <1>0, <1>1, <2>1, StepInv DEF Inv
<1>2. ASSUME NEW r \in Runs, NEW w \in Workflows \union {None},
             NEW in \in Inputs \union {EmptyEnv},
             \/ Pause \/ Close \/ CallRun(r) \/ Resume(r) \/ Cancel(r) \/ Crash(r)
             \/ StartWorkflow(r, w, in)
      PROVE  Inv'
  BY <1>0, <1>2, CallersType, CallersInv DEF Inv
<1>3. CASE (Pause \/ Close) /\ Runs = {}
  BY <1>0, <1>3, TypeParts, TypePartsNext
     DEF Inv, Pause, Close, Quietly, SessionType, SessionStatuses, StoreType,
         LedgerType, TaskType, ProcessType, ActiveHeld
<1>4. CASE UNCHANGED vars
  BY <1>0, <1>4
     DEF Inv, vars, database, process, TypeOK, RunInv, RunControl, RunLimits, RunRow
<1>. QED
  BY <1>1, <1>2, <1>3, <1>4 DEF Next, Environment

\* The inductive invariant: types, where each run is, its limits and its ledger row.
THEOREM InvHolds == Spec => []Inv
<1>. QED
  BY InvInit, InvNext, PTL DEF Spec

\* Type correctness: in every reachable state each variable has its type,
\* whatever the workflows, the outputs of the nodes and the failures are.
THEOREM TypeCorrect == Spec => []TypeOK
<1>1. Inv => TypeOK
  BY DEF Inv
<1>. QED
  BY <1>1, InvHolds, PTL

\* No run executes more recorded nodes than MaxIterations, or counts ahead of
\* its work, for every limit and every interleaving of runs.
THEOREM IterationsAreBounded == Spec => []IterationsBounded
<1>1. Inv => IterationsBounded
  BY DEF Inv, RunInv, RunLimits, IterationsBounded, Active
<1>. QED
  BY <1>1, InvHolds, PTL

\* A run that has returned without reporting an error has stopped its row.
THEOREM LedgerIsSettled == Spec => []LedgerSettled
<1>1. Inv => LedgerSettled
  BY DEF Inv, RunInv, RunRow, LedgerSettled
<1>. QED
  BY <1>1, InvHolds, PTL

----
(* The ledger implements LoopLedger, and the session follows it. *)

\* Each step of an invocation is a step of its ledger row, or none.
LEMMA LedgerStep ==
  ASSUME Inv, NEW r \in Runs, Step(r)
  PROVE  \/ UNCHANGED ledger
         \/ Ledger!Create(r) \/ Ledger!Advance(r) \/ Ledger!Stop(r)
<1>. USE DEF Inv, TypeOK
<1>1. CASE CreateLoopRun(r)
  <2>1. ledger[r] = [status |-> "none", iter |-> 0]
    BY <1>1 DEF CreateLoopRun, RunInv, RunRow
  <2>. QED
    BY <1>1, <2>1 DEF CreateLoopRun, Ledger!Create, Ledger!NoRow
<1>2. CASE CountIteration(r)
  <2>1. /\ ledger[r].status = "running" /\ ledger[r].iter <= run[r].iter
        /\ run[r].iter < MaxIterations
    BY <1>2 DEF CountIteration, RunInv, RunRow, RunLimits
  <2>2. run[r].iter + 1 \in (ledger[r].iter + 1) .. MaxIterations
    BY <2>1, LoopAssumption
  <2>3. UNCHANGED ledger \/ ledger' = [ledger EXCEPT ![r].iter = run[r].iter + 1]
    BY <1>2 DEF CountIteration
  <2>. QED
    BY <2>1, <2>2, <2>3 DEF Ledger!Advance
<1>3. CASE MarkStopped(r)
  <2>1. ledger[r].status = "running"
    BY <1>3 DEF MarkStopped, RunInv, RunRow
  <2>2. Endings[run[r].stop].row \in Ledger!Stopped
    BY EndingsStop DEF Ledger!Stopped
  <2>3. UNCHANGED ledger \/ ledger' = [ledger EXCEPT ![r].status = Endings[run[r].stop].row]
    BY <1>3 DEF MarkStopped
  <2>. QED
    BY <2>1, <2>2, <2>3 DEF Ledger!Stop
<1>4. CASE ~CreateLoopRun(r) /\ ~CountIteration(r) /\ ~MarkStopped(r)
  BY <1>4 DEF Step, Starting, Opening, Topping, OneNode, Ending, AttachWorkflow, SupersedeInput,
     InsertInput, LoadSession, LoadGraph, SeePause, SpendIterations, RunOutOfTime,
     HaveNoPosition, MissNode, EnterNode, BeginNode, FailNode, FinishNode, UpdateCurrentNode,
     CollectTasks, LoseTaskRows, DecideTask, UpdateStatus, database
<1>. QED
  BY <1>1, <1>2, <1>3, <1>4

\* No caller, no cancellation and no crash touches the ledger.
LEMMA CallersKeepLedger == Environment => UNCHANGED ledger
BY DEF Environment, Pause, Close, CallRun, Resume, Cancel, Crash, StartWorkflow, database

\* Every step of the loop is a step of the ledger's specification, or none.
LEMMA LedgerNext == Inv /\ [Next]_vars => [Ledger!Next]_ledger
BY LedgerStep, CallersKeepLedger DEF Next, Ledger!Next, vars, database

\* The loop implements the ledger's specification: a reader of
\* agentic_loop_runs sees rows that start, count up to the limit and stop once.
THEOREM LedgerIsRefined == Spec => LedgerSpec
<1>1. Init => Ledger!Init
  BY DEF Init, Ledger!Init, Ledger!NoRow
<1>. QED
  BY <1>1, LedgerNext, InvHolds, PTL DEF Spec, LedgerSpec, Ledger!Spec

\* A row that has stopped stays as it is.
LEMMA StoppedStays ==
  ASSUME Inv, [Next]_vars, NEW q \in Runs, ledger[q].status \in Ledger!Stopped
  PROVE  ledger'[q].status = ledger[q].status
<1>. USE DEF Inv, TypeOK
<1>1. ASSUME NEW r \in Runs, Ledger!Create(r) PROVE ledger'[q].status = ledger[q].status
  BY <1>1 DEF Ledger!Create, Ledger!NoRow, Ledger!Stopped
<1>2. ASSUME NEW r \in Runs, Ledger!Advance(r) PROVE ledger'[q].status = ledger[q].status
  BY <1>2 DEF Ledger!Advance
<1>3. ASSUME NEW r \in Runs, Ledger!Stop(r) PROVE ledger'[q].status = ledger[q].status
  BY <1>3 DEF Ledger!Stop, Ledger!Stopped
<1>. QED
  BY <1>1, <1>2, <1>3, LedgerNext DEF Ledger!Next

\* An error once reported stays reported.
LEMMA ReportsStay ==
  ASSUME [Next]_vars PROVE reported \subseteq reported'
<1>. USE DEF Goto, Halt, Leave, Return, ReturnError, Quietly
<1>1. ASSUME Environment PROVE reported \subseteq reported'
  BY <1>1 DEF Environment, Pause, Close, CallRun, Resume, Cancel, Crash, StartWorkflow, process
<1>2. ASSUME NEW r \in Runs, Step(r) PROVE reported \subseteq reported'
  BY <1>2 DEF Step, Starting, Opening, Topping, OneNode, Ending, AttachWorkflow, SupersedeInput,
     InsertInput, LoadSession, CreateLoopRun, LoadGraph, SeePause, SpendIterations,
     RunOutOfTime, HaveNoPosition, MissNode, EnterNode, BeginNode, FailNode, FinishNode,
     UpdateCurrentNode, CountIteration, MarkStopped, CollectTasks, LoseTaskRows, DecideTask,
     UpdateStatus
<1>. QED
  BY <1>1, <1>2 DEF Next, vars, process

Shown == {"completed", "timed_out", "failed", "waiting_for_user"}

\* Only the last step of a run makes the session show an end.
LEMMA OnlyUpdateStatusEnds ==
  ASSUME Inv, [Next]_vars, session'.status # session.status, session'.status \in Shown
  PROVE  \E r \in Runs : UpdateStatus(r)
<1>1. ASSUME Environment PROVE FALSE
  BY <1>1 DEF Environment, Pause, Close, CallRun, Resume, Cancel, Crash, StartWorkflow, database,
              Inv, TypeOK, Shown
<1>2. ASSUME NEW r \in Runs, Step(r) PROVE UpdateStatus(r)
  BY <1>2 DEF Step, Starting, Opening, Topping, OneNode, Ending, AttachWorkflow, SupersedeInput,
     InsertInput, LoadSession, CreateLoopRun, LoadGraph, SeePause, SpendIterations,
     RunOutOfTime, HaveNoPosition, MissNode, EnterNode, BeginNode, FailNode, FinishNode,
     UpdateCurrentNode, CountIteration, MarkStopped, CollectTasks, LoseTaskRows, DecideTask,
     database, Inv, TypeOK
<1>. QED
  BY <1>1, <1>2 DEF Next, vars, database

\* A run that decides, or that waits or failed, writes the same end in both.
LEMMA EndingsAgree ==
  \A s \in Stops : Endings[s].session # None => Endings[s].session = Endings[s].row
<1>1. \A s \in {"max_iterations", "timeout", "no_position", "no_edges", "execution", "waiting"} :
        Endings[s].session = Endings[s].row
  BY DEF Endings
<1>2. \A s \in {"none", "paused", "error"} : Endings[s].session = None
  BY DEF Endings
<1>. QED
  BY <1>1, <1>2 DEF Stops

\* The session never shows an end that the ledger does not show too, unless an
\* error was reported: for any number of runs on it, failures and crashes.
THEOREM SessionFollowsLedger == Spec => []SessionNeverAheadOfLedger
<1>1. Init => SessionNeverAheadOfLedger
  BY DEF Init, SessionNeverAheadOfLedger
<1>2. ASSUME Inv, SessionNeverAheadOfLedger, [Next]_vars
      PROVE  SessionNeverAheadOfLedger'
  <2>. SUFFICES ASSUME session'.status \in Shown
                PROVE  \E q \in Runs : ledger'[q].status = session'.status \/ q \in reported'
    BY DEF SessionNeverAheadOfLedger, Shown
  <2>1. reported \subseteq reported'
    BY <1>2, ReportsStay
  <2>2. CASE session'.status = session.status
    <3>1. PICK q \in Runs : ledger[q].status = session.status \/ q \in reported
      BY <1>2, <2>2 DEF SessionNeverAheadOfLedger, Shown
    <3>. QED
      BY <1>2, <2>1, <2>2, <3>1, StoppedStays DEF Shown, Ledger!Stopped
  <2>3. CASE session'.status # session.status
    <3>1. PICK r \in Runs : UpdateStatus(r)
      BY <1>2, <2>3, OnlyUpdateStatusEnds
    <3>2. session'.status = Endings[run[r].stop].session /\ UNCHANGED ledger
      BY <1>2, <2>3, <3>1 DEF UpdateStatus, Inv, TypeOK
    <3>3. /\ Endings[run[r].stop].session = Endings[run[r].stop].row
          /\ ledger[r].status = Endings[run[r].stop].row \/ r \in reported
      BY <1>2, <3>1, EndingsAgree
         DEF UpdateStatus, Inv, TypeOK, RunInv, RunControl, RunRow
    <3>. QED
      BY <2>1, <3>2, <3>3
  <2>. QED
    BY <2>2, <2>3
<1>. QED
  BY <1>1, <1>2, InvHolds, PTL DEF Spec
====
