\* One invocation at a time, nothing fails, no input: a run, a pause, a resume.
CONSTANTS
  Answers = {"", "comply", "noncomply"}
  Runs = {"r1", "r2"}
  Starters = {"r1"}
  Tasks = {"t1"}
  Workflows = {"review"}
  NodeIds <- AllNodes
  Graph <- WorkflowTables
  Outputs <- DecidingOutputs
  Inputs = {}
  MaxIterations = 2
  MaxActive = 1
  Faulty = FALSE
SPECIFICATION Spec
INVARIANT ReviewOnlyWithoutDecision
CHECK_DEADLOCK FALSE
