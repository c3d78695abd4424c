---- MODULE LoopLedger ----
(***************************************************************************)
(* What the table agentic_loop_runs promises its readers: a run's row      *)
(* appears as 'running', its iteration count only grows and never passes   *)
(* the limit, and the row is stopped at most once and then never changes.  *)
(***************************************************************************)
EXTENDS Naturals

CONSTANTS Runs, MaxIterations

VARIABLE ledger        \* Runs -> [status, iter]

Stopped == {"completed", "failed", "timed_out", "paused", "waiting_for_user"}

NoRow == [status |-> "none", iter |-> 0]

Init == ledger = [r \in Runs |-> NoRow]

Create(r) ==
  /\ ledger[r] = NoRow
  /\ ledger' = [ledger EXCEPT ![r] = [status |-> "running", iter |-> 0]]

\* A count that was lost is made up by the next one, so a step may skip.
Advance(r) ==
  /\ ledger[r].status = "running"
  /\ \E n \in (ledger[r].iter + 1) .. MaxIterations :
       ledger' = [ledger EXCEPT ![r].iter = n]

Stop(r) ==
  /\ ledger[r].status = "running"
  /\ \E s \in Stopped : ledger' = [ledger EXCEPT ![r].status = s]

Next == \E r \in Runs : Create(r) \/ Advance(r) \/ Stop(r)

Spec == Init /\ [][Next]_ledger
====
