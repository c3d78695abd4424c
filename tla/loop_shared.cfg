\* Two invocations at the same time, nothing fails, every step is fair.
CONSTANTS
  Answers = {"", "comply", "noncomply"}
  Runs = {"r1", "r2"}
  Starters = {"r1"}
  Tasks = {"t1", "t2"}
  Workflows = {"review", "audit"}
  NodeIds <- AllNodes
  Graph <- WorkflowTables
  Outputs <- FindingOutputs
  Inputs <- DecidedInputs
  MaxIterations = 2
  MaxActive = 2
  Faulty = FALSE
SPECIFICATION FairSpec
INVARIANTS
  DecisionsAreBacked
  NoTaskForgotten
PROPERTIES
  EveryRunReturns
CHECK_DEADLOCK FALSE
