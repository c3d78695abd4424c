---- MODULE Statements ----
(***************************************************************************)
(* What becomes of a statement sent to Postgres: applied and acknowledged, *)
(* refused, or applied with its answer lost.                               *)
(***************************************************************************)
CONSTANTS Faulty     \* whether statements may fail

ASSUME FaultyAssumption == Faulty \in BOOLEAN

Done    == [applied |-> TRUE,  ok |-> TRUE]
Refused == [applied |-> FALSE, ok |-> FALSE]
Lost    == [applied |-> TRUE,  ok |-> FALSE]

Outcomes == IF Faulty THEN {Done, Refused, Lost} ELSE {Done}

\* A row that violates a constraint is refused in any case.
OutcomesIf(allowed) == IF allowed THEN Outcomes ELSE {Refused}

\* Whether a query may find what there is.
ReadsOk == {TRUE, ~Faulty}
====
