---- MODULE LoopProperties ----
(***************************************************************************)
(* What the loop owes to its callers, to the readers of its ledger and to  *)
(* the owners of the tasks.  Each run of MCLoop checks some of these.      *)
(***************************************************************************)
EXTENDS LoopController

\* The limit of LoopConfig.MaxIterations holds for what was executed and for
\* what the ledger says: no run records more nodes than it, or counts ahead of
\* its own work (loop.go:193 against the counters of 291-296).
IterationsBounded ==
  \A r \in Runs :
    /\ tries[r] <= MaxIterations
    /\ run[r].iter <= MaxIterations
    /\ ledger[r].iter <= MaxIterations
    /\ r \in Active => ledger[r].iter <= run[r].iter

\* Once Run has returned, its ledger row is no longer 'running', unless the
\* write failed and Run or the log said so: no early return of Run leaves a row
\* that looks alive for ever (loop.go:141-302, 516-523).
LedgerSettled ==
  \A r \in Runs :
    run[r].pc = "returned" /\ ledger[r].status = "running" => r \in reported

\* A session that shows an end of the loop has a run whose ledger row shows the
\* same end, or whose error was reported: at no point, a crash included, is the
\* session ahead of the ledger (markStopped comes before UpdateStatus).
SessionNeverAheadOfLedger ==
  session.status \in {"completed", "timed_out", "failed", "waiting_for_user"} =>
    \E r \in Runs : ledger[r].status = session.status \/ r \in reported

\* While a run is alone on its session, the position it continues from after an
\* iteration is the one the session row has: a crash or a pause at any moment
\* repeats at most the node in flight (loop.go:283-289, 186).
PositionIsDurable ==
  \A r \in Runs :
    run[r].pc \in {"top", "begin", "execute"} /\ run[r].iter > 0 =>
      session.wf = run[r].wf /\ session.node = run[r].node

\* The persisted position only moves along edges of the attached workflow, from
\* its entry or from where it was, across pauses, crashes and new runs.
WalkIsAPath ==
  [][session'.node # session.node =>
       \E x \in Graph[session'.wf].edges :
         /\ x.to = session'.node
         /\ x.from = IF session.node = None THEN Graph[session'.wf].entry
                                            ELSE session.node]_vars

\* A session starts to wait for its user only just past a human_input node.
HumanGateHolds ==
  [][session'.status = "waiting_for_user" /\ session.status # "waiting_for_user" =>
       \E x \in Graph[session.wf].edges :
         /\ x.to = session.node
         /\ Graph[session.wf].types[x.from] = "human_input"]_vars

\* The ledger keeps the promise of LoopLedger to its readers.
Ledger == INSTANCE LoopLedger
LedgerSpec == Ledger!Spec

\* Pausing is cooperative: until somebody resumes or closes the session, a run
\* that was in progress at the pause ends the node it is in and enters no other,
\* unless its read of the status fails (loop.go:183-191).  It is said of runs
\* that follow each other: another run that ends meanwhile sets the status and
\* undoes the pause (session.go:123).
PauseWindow == \A r \in Runs : run[r].overrun = 0

\* A task gets a decision only when one key of some stored input or node output
\* gives that decision for it: none is fabricated (loop.go:388-393), be it of a
\* mixture of keys or of the outputs of several runs, in any order.
DecisionsAreBacked ==
  \A t \in Tasks :
    tasks[t].decision # NoDecision =>
      \E out \in rows : tasks[t].decision \in Claims(out, t)

\* When nothing fails, a run that ends with decisions after work was done leaves
\* no task of the session without an answer when it sets the session's status:
\* each is decided or flagged (loop.go:428-475 before 197, 203, 214, 280).
NoTaskForgotten ==
  \A r \in Runs :
    run[r].pc = "finish" /\ Endings[run[r].stop].decides /\ run[r].work =>
      \A t \in Tasks : tasks[t].status # "open"

\* Every invocation returns, whatever the callers do meanwhile and whatever the
\* workflow's cycles are.
EveryRunReturns ==
  \A r \in Runs : run[r].pc # "idle" ~> run[r].pc = "returned"

----
(* What comments of the code say and the code does not do. *)

\* loop.go:388-391: a task "is moved to needs_review" if "no decision exists"; so
\* it is flagged only if no recorded input or output of the session has one for
\* it.  env, "the seeded input plus every node's output" (164), lives in one Run.
ReviewOnlyWithoutDecision ==
  \A t \in Tasks :
    tasks[t].status = "needs_review" =>
      \A out \in rows : Claims(out, t) = {}

\* session.go:137, "The current node is left empty; the loop starts from the
\* workflow's entry node": no run starts elsewhere after an attach.
AttachStartsAtEntry ==
  [][\A r \in Runs : AttachWorkflow(r) => session'.node = None]_vars
====
