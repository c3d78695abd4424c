\* A goroutine that resolves nodes again and again, and a health checker, over
\* three providers.
CONSTANTS
  Instances = {"old", "remote", "big"}
  Names = {"ollama", "cloud", "azure"}
  Models = {"small"}
  NameOf <- InstanceName
  Serves <- InstanceModels
  Calls = {"c1"}
  MaxFailures = 3
  Nodes <- SomeNodes
  Model = "small"
  Policies <- SomePolicies
  Half = 4096
SPECIFICATION AttemptsSpec
INVARIANTS
  AttemptsTypeOK
  StatusFollowsFailures
  ThreeStrikes
  AttemptsAreAccounted
PROPERTIES
  RoutingIsSound
CHECK_DEADLOCK FALSE
