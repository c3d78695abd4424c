\* Two workflows attached one after the other, nothing fails.
CONSTANTS
  Answers = {"", "comply", "noncomply"}
  Runs = {"r1", "r2"}
  Starters = {"r1", "r2"}
  Tasks = {"t1"}
  Workflows = {"review", "audit"}
  NodeIds <- AllNodes
  Graph <- WorkflowTables
  Outputs <- RoutingOutputs
  Inputs = {}
  MaxIterations = 2
  MaxActive = 1
  Faulty = FALSE
SPECIFICATION Spec
PROPERTY AttachStartsAtEntry
CHECK_DEADLOCK FALSE
