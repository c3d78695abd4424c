---- MODULE MCRouter ----
(* A local provider, another one that replaces it under its name, and a     *)
(* remote one.  "small" is served by old and remote, "large" by the other.  *)
EXTENDS ModelRouter

InstanceName == [old |-> "ollama", new |-> "ollama", remote |-> "cloud"]

InstanceModels == [old |-> {"small"}, new |-> {"large"}, remote |-> {"small"}]
====
