---- MODULE NodeAttempts ----
(***************************************************************************)
(* services/retryengine, Engine.Execute, around agentic/executor,          *)
(* LLMExecutor.Execute, over the model router: a goroutine resolves a node *)
(* by rules or by the model, and does so again after the errors that its   *)
(* policy names.  That a caller gives the one to the other is what the     *)
(* README of the repository offers; nothing in the source does.            *)
(*                                                                         *)
(* An operator with the name of the one after it and a suffix is a faulty  *)
(* variant, for testing the properties.                                    *)
(***************************************************************************)
EXTENDS ModelRouter, Integers

CONSTANTS
  Nodes,       \* [llmAllowed, canUseLLM]: of a node and of its definition
  Model,       \* the executor's
  Policies,    \* rows of retry_policies
  Half         \* bound: a duration is in -Half .. Half - 1 ms and wraps; Half is
               \* 2^63 ns in the code

\* The errors of LLMExecutor.Execute; a policy names one when its text contains
\* one of the policy's substrings.
Errors == {"definition", "no provider", "refused", "unparseable"}

PolicyFields == [max : Nat, retryOn : SUBSET Errors,
                 strategy : {"exponential", "linear", "fixed"},
                 initial : Nat, cap : Nat, jitter : BOOLEAN]

ASSUME AttemptsAssumption ==
  /\ Nodes \subseteq [llmAllowed : BOOLEAN, canUseLLM : BOOLEAN] /\ Nodes # {}
  /\ Model \in Models /\ Policies \subseteq PolicyFields /\ Half \in Nat \ {0}

\* The policy for none: no text of the library contains its substrings.
DefaultPolicy == [max |-> 3, retryOn |-> {}, strategy |-> "exponential",
                  initial |-> 1000, cap |-> 30000, jitter |-> TRUE]

VARIABLES exec    \* Calls -> the frames of the two Executes; asked, to and
                  \* strikes are history: the requests made, the name of the
                  \* provider that refused the last one, and how many it did
                  \* in a row with no success or registration in between

attempting == <<vars, exec>>

Frames ==
  [pc : {"idle", "attempt", "complete", "asking", "wait", "answered"},
   node : Nodes, policy : Policies \union {DefaultPolicy},
   attempt : Nat, delay : Int, last : Errors \union {"none"},
   answer : Errors \union {"none", "ok", "panic", "exhausted", "cancelled"},
   asked : Nat, to : Names \union {Nobody}, strikes : Nat]

AttemptsTypeOK == TypeOK /\ exec \in [Calls -> Frames]

Fresh(node, policy) ==
  [pc |-> "idle", node |-> node, policy |-> policy, attempt |-> 1, delay |-> 0,
   last |-> "none", answer |-> "none", asked |-> 0, to |-> Nobody, strikes |-> 0]

NoFrame == Fresh(CHOOSE node \in Nodes : TRUE, DefaultPolicy)

AttemptsInit == Init /\ exec = [c \in Calls |-> NoFrame]

----
(* calculateDelay, in milliseconds; the delay is capped, then jittered *)

Wrapped(n) == ((n + Half) % (2 * Half)) - Half

Uncapped(p, k) ==
  Wrapped(CASE p.strategy = "exponential" -> p.initial * 2 ^ (k - 1)
            [] p.strategy = "linear" -> p.initial * k
            [] p.strategy = "fixed" -> p.initial)

Jitters(p) == IF p.jitter THEN {0, 999} ELSE {0}     \* rand.Intn(1000)

calculateDelay(p, k) ==
  {(IF Uncapped(p, k) > p.cap THEN p.cap ELSE Uncapped(p, k)) + j : j \in Jitters(p)}

----
Frame(c, f) == exec' = [exec EXCEPT ![c] = f] /\ UNCHANGED vars

Answered(f, answer) == [f EXCEPT !.pc = "answered", !.answer = answer]

\* fn returned an error: the loop ends, or goes round and waits.
AfterErrorOnceMore(f, error) ==
  LET g == [f EXCEPT !.last = error]
  IN  CASE error \notin f.policy.retryOn -> {Answered(g, error)}
        [] error \in f.policy.retryOn /\ f.attempt > f.policy.max -> {Answered(g, "exhausted")}
        [] OTHER -> {[g EXCEPT !.pc = "wait", !.attempt = @ + 1, !.delay = d] :
                       d \in calculateDelay(f.policy, f.attempt)}
AfterError(f, error) ==
  LET g == [f EXCEPT !.last = error]
  IN  CASE error \notin f.policy.retryOn -> {Answered(g, error)}
        [] error \in f.policy.retryOn /\ f.attempt = f.policy.max -> {Answered(g, "exhausted")}
        [] OTHER -> {[g EXCEPT !.pc = "wait", !.attempt = @ + 1, !.delay = d] :
                       d \in calculateDelay(f.policy, f.attempt)}

StartExecute(c, node, policy) ==
  /\ exec[c].pc = "idle"
  /\ LET f == Fresh(node, policy)
     IN  Frame(c, IF policy.max = 0 THEN Answered(f, "exhausted") ELSE [f EXCEPT !.pc = "attempt"])

\* A timer whose delay is not positive fires at once.
EndWait(c) ==
  /\ exec[c].pc = "wait"
  /\ \/ Frame(c, [exec[c] EXCEPT !.pc = "attempt", !.delay = 0])
     \/ Frame(c, Answered(exec[c], "cancelled"))

\* The definition is read again for each attempt.
Allowed(node) == node.llmAllowed /\ node.canUseLLM

GetDefinition(c) ==
  /\ exec[c].pc = "attempt"
  /\ \/ \E f \in AfterError(exec[c], "definition") : Frame(c, f)
     \/ Frame(c, IF Allowed(exec[c].node) THEN [exec[c] EXCEPT !.pc = "complete"]
                 ELSE Answered(exec[c], "ok"))

FindNoProvider(c) ==
  /\ exec[c].pc = "complete" /\ resolveProvider(Model) = {}
  /\ \E f \in AfterError(exec[c], "no provider") : Frame(c, f)

Request(c) ==
  /\ exec[c].pc = "complete" /\ Resolve(c, Model)
  /\ exec' = [exec EXCEPT ![c].pc = "asking", ![c].asked = @ + 1]

\* The frames after a success or a registration of n.
Forgiven(n) ==
  [c \in Calls |-> IF exec[c].to = n THEN [exec[c] EXCEPT !.to = Nobody, !.strikes = 0] ELSE exec[c]]

TakeRefusal(c) ==
  /\ call[c].pc = "record" /\ ~call[c].ok /\ RecordCall(c)
  /\ LET n == NameOf[call[c].at]
         g == [exec[c] EXCEPT !.to = n, !.strikes = IF exec[c].to = n THEN @ + 1 ELSE 1]
     IN  \E f \in AfterError(g, "refused") : exec' = [exec EXCEPT ![c] = f]

\* parseJSONObject: an object, or none; a text "null" makes a nil map of which
\* the next assignment panics.
TakeAnswer(c) ==
  /\ call[c].pc = "record" /\ call[c].ok /\ RecordCall(c)
  /\ LET frames == Forgiven(NameOf[call[c].at])
     IN  \E f \in {Answered(frames[c], "ok"), Answered(frames[c], "panic")}
                    \union AfterError(frames[c], "unparseable") :
           exec' = [frames EXCEPT ![c] = f]

Return(c) == exec[c].pc = "answered" /\ Frame(c, NoFrame)

Executing(c) ==
  \/ EndWait(c) \/ GetDefinition(c) \/ FindNoProvider(c) \/ Request(c)
  \/ CallEnds(c) /\ UNCHANGED exec
  \/ TakeRefusal(c) \/ TakeAnswer(c) \/ Return(c)

\* The services' outages are left to the answers: one that is up may refuse.
AttemptsNext ==
  \/ \E i \in Instances : Register(i) /\ exec' = Forgiven(NameOf[i])
  \/ RunHealthChecks /\ UNCHANGED exec
  \/ \E n \in Names, ok \in BOOLEAN : HealthCheck(n, ok) /\ UNCHANGED exec
  \/ \E n \in Names : RecordProbe(n) /\ exec' = IF probe[n].ok THEN Forgiven(n) ELSE exec
  \/ \E c \in Calls, node \in Nodes, policy \in Policies \union {DefaultPolicy} :
       StartExecute(c, node, policy)
  \/ \E c \in Calls : Executing(c)

AttemptsSpec == AttemptsInit /\ [][AttemptsNext]_attempting

----
\* However results of others and health checks interleave, an Execute is
\* refused three times in a row at most by a provider that does not do well or
\* register again meanwhile: the fourth request goes elsewhere, or nowhere
\* (router.go:111-137, 202; retry.go:81-88).
ThreeStrikes == \A c \in Calls : exec[c].strikes <= 3

\* What an Execute says is what it did: as many requests as attempts at most,
\* and none for a node or a definition without the model; "exhausted" only
\* after an error that the policy names in the last of its attempts, or when it
\* allows none; another error as soon as one is not named; and a wait only after
\* one that is, no longer than the cap and a jitter (executor.go:53, retry.go:64-110).
AttemptsAreAccounted ==
  \A c \in Calls :
    LET f == exec[c]
    IN  /\ f.asked <= IF Allowed(f.node) THEN f.attempt ELSE 0
        /\ f.attempt <= f.policy.max \/ f.policy.max = 0
        /\ f.answer = "exhausted" =>
             \/ f.attempt = f.policy.max /\ f.last \in f.policy.retryOn
             \/ f.policy.max = 0 /\ f.last = "none" /\ f.asked = 0
        /\ f.answer \in Errors <=> f.pc = "answered" /\ f.last \notin f.policy.retryOn /\ f.answer = f.last
        /\ f.pc = "wait" => f.delay <= f.policy.cap + 999 /\ f.last \in f.policy.retryOn
====
