\* A goroutine and a health checker over two names, one of them registered
\* again with other models, where every request that is out is answered.
CONSTANTS
  Instances = {"old", "new", "remote"}
  Names = {"ollama", "cloud"}
  Models = {"small", "large"}
  NameOf <- InstanceName
  Serves <- InstanceModels
  Calls = {"c1"}
  MaxFailures = 3
SPECIFICATION FairSpec
PROPERTIES
  OutageIsContained
  ChecksBringBack
CHECK_DEADLOCK FALSE
