---- MODULE MCLoop ----
(* Small instances of the loop: two workflows, one with a human gate and a  *)
(* cycle, one with a node of its own and an edge to one that was deleted.   *)
EXTENDS LoopProperties

Edge(from, to, when, priority) ==
  [from |-> from, to |-> to, when |-> when, priority |-> priority]

WorkflowTables ==
  [review |->
     [entry |-> "triage",
      types |-> [triage |-> "agent", ask |-> "human_input", judge |-> "agent"],
      edges |-> {Edge("triage", "ask",    [route |-> "ask"], 2),
                 Edge("triage", "judge",  EmptyEnv, 1),
                 Edge("ask",    "judge",  EmptyEnv, 1),
                 Edge("judge",  "triage", [route |-> "ask"], 1)}],
   audit  |->
     [entry |-> "scan",
      types |-> [scan |-> "agent"],
      edges |-> {Edge("scan", "gone", [route |-> "ask"], 1)}]]

AllNodes == {"triage", "ask", "judge", "scan", "gone"}

\* Nodes that only route.
RoutingOutputs == {EmptyEnv, [route |-> "ask"]}

\* A node that routes, one that gives evidence and answers for one task, and one
\* whose overall status is at odds with that evidence.
FindingOutputs == {[route |-> "ask"],
                   [findings |-> {"compliant"}, task_decisions |-> [t1 |-> "noncomply"]],
                   [overall_status |-> "non_compliant"]}

\* A workflow that decides at one node and not at the other.
DecidingOutputs == {EmptyEnv, [decision |-> "comply"]}

\* An input that has a decision in it already.
DecidedInputs == {[decision |-> "noncomply"]}
====
