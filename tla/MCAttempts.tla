---- MODULE MCAttempts ----
(* A local provider and two remote ones, of which one lacks the model; a    *)
(* node for the model and one for rules; and besides the default policy one *)
(* with one attempt more than take a provider offline, whose delays wrap,   *)
(* and one that retries other errors.                                       *)
EXTENDS NodeAttempts

InstanceName == [old |-> "ollama", remote |-> "cloud", big |-> "azure"]

InstanceModels == [old |-> {"small"}, remote |-> {"small"}, big |-> {}]

SomeNodes == {[llmAllowed |-> TRUE, canUseLLM |-> b] : b \in BOOLEAN}

Policy(n, errors, backoff, first, jittered) ==
  [max |-> n, retryOn |-> errors, strategy |-> backoff, initial |-> first, cap |-> 3000,
   jitter |-> jittered]

SomePolicies ==
  {Policy(4, {"refused"}, "exponential", 1500, FALSE),
   Policy(2, {"unparseable", "no provider"}, "linear", 2000, TRUE)}
====
