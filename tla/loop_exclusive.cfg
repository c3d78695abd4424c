\* Two invocations, one at a time, with failing statements, cancelled contexts
\* and crashes.
CONSTANTS
  Answers = {"", "comply", "noncomply"}
  Runs = {"r1", "r2"}
  Starters = {"r1"}
  Tasks = {"t1"}
  Workflows = {"review"}
  NodeIds <- AllNodes
  Graph <- WorkflowTables
  Outputs <- RoutingOutputs
  Inputs = {}
  MaxIterations = 2
  MaxActive = 1
  Faulty = TRUE
SPECIFICATION Spec
INVARIANTS
  TypeOK
  IterationsBounded
  LedgerSettled
  SessionNeverAheadOfLedger
  PositionIsDurable
  PauseWindow
PROPERTIES
  WalkIsAPath
  HumanGateHolds
  LedgerSpec
CHECK_DEADLOCK FALSE
