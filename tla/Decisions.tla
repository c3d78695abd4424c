---- MODULE Decisions ----
(***************************************************************************)
(* How a loop decides: the accumulated environment of a run (env in        *)
(* loop.go) and the decision each task receives from it.                   *)
(*                                                                         *)
(* An environment is a partial function from the keys the loop looks at to *)
(* their values.  A value whose type the code's assertion rejects reads as *)
(* an absent key and is modelled as one.  "" is Go's empty string.         *)
(* deriveDecisionOptimistic is a faulty variant of deriveDecisionFromEnv.  *)
(***************************************************************************)
EXTENDS Naturals

CONSTANT Answers     \* the strings that a node may give as a decision

Keys == {"decision", "task_decisions", "overall_status", "findings", "route"}

NoDecision == ""

ASSUME AnswersAssumption == {NoDecision, "comply", "noncomply"} \subseteq Answers

\* The initial environment: only "error" is set, and no decision reads it.
EmptyEnv == [k \in {} |-> ""]

IsEnv(e) ==
  /\ e = [k \in DOMAIN e |-> e[k]]
  /\ DOMAIN e \subseteq Keys
  /\ "decision" \in DOMAIN e => e["decision"] \in Answers
  /\ "task_decisions" \in DOMAIN e =>
       \A t \in DOMAIN e["task_decisions"] : e["task_decisions"][t] \in Answers

\* for k, v := range out { env[k] = v }
Merge(e, out) ==
  [k \in DOMAIN e \union DOMAIN out |-> IF k \in DOMAIN out THEN out[k] ELSE e[k]]

----
(* Findings.  A finding is the status word it carries, or NotAnObject for  *)
(* an entry of the array that is no JSON object; Markers gives, for each   *)
(* word, the substrings of its lower-cased text that the code looks for.   *)

NotAnObject == "not_an_object"

Markers == [compliant     |-> {"compliant"},
            non_compliant |-> {"non", "compliant"},
            failed        |-> {"fail"},
            incomplete    |-> {"complete"},
            pending       |-> {}]

Statuses == DOMAIN Markers

IsNegative(f) == Markers[f] \intersect {"non", "fail"} # {}

isExplicitlyCompliant(f) ==
  Markers[f] \intersect {"compliant", "comply", "pass", "complete", "met"} # {}

\* The set of finding entries of an environment; {} when there are none.
FindingsOf(e) == IF "findings" \in DOMAIN e THEN e["findings"] ELSE {}

\* What the scan of the findings array comes to.  Entries that are no objects are
\* skipped, so an array of nothing else has none that speaks against compliance;
\* FindingsScan compares this with what the comments of the code say.
DecisionFromFindings(entries) ==
  LET objects == entries \ {NotAnObject}
  IN  CASE entries = {} -> NoDecision
        [] \E f \in objects : IsNegative(f) -> "noncomply"
        [] /\ entries # {}
           /\ \A f \in objects : ~IsNegative(f) /\ isExplicitlyCompliant(f) -> "comply"
        [] OTHER -> NoDecision

OverallOf(e) ==
  IF "overall_status" \in DOMAIN e THEN e["overall_status"] ELSE ""

deriveDecisionOptimistic(e) ==
  CASE OverallOf(e) = "non_compliant" -> "noncomply"
    [] OverallOf(e) \in {"compliant", ""} -> "comply"
    [] OTHER -> DecisionFromFindings(FindingsOf(e))
deriveDecisionFromEnv(e) ==
  CASE OverallOf(e) = "non_compliant" -> "noncomply"
    [] OverallOf(e) = "compliant" -> "comply"
    [] OTHER -> DecisionFromFindings(FindingsOf(e))

----
\* The decision every task gets unless it has one of its own.
GlobalDecision(e) ==
  IF "decision" \in DOMAIN e /\ e["decision"] # NoDecision
  THEN e["decision"]
  ELSE deriveDecisionFromEnv(e)

HasOwnDecision(e, t) ==
  /\ "task_decisions" \in DOMAIN e
  /\ t \in DOMAIN e["task_decisions"]
  /\ e["task_decisions"][t] # NoDecision

\* The decision for one task: its own, or else the session's.
DecisionFor(e, t) ==
  IF HasOwnDecision(e, t) THEN e["task_decisions"][t] ELSE GlobalDecision(e)

\* What an output says about a task, one key of it taken by itself.
Claims(out, t) ==
  {DecisionFor([x \in {k} |-> out[x]], t) : k \in DOMAIN out} \ {NoDecision}
====
