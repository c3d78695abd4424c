---- MODULE ModelRouter ----
(***************************************************************************)
(* services/modelrouter: one Router shared by every goroutine that calls a *)
(* language model.  The mutex covers the choice of a provider and, later,  *)
(* the recording of the result, but not the HTTP call between the two; a   *)
(* result may be recorded long after the health it was chosen by is gone.  *)
(*                                                                         *)
(* An operator with the name of the one after it and a suffix (Register-   *)
(* Blank, Register) is a faulty variant, for testing the properties.       *)
(***************************************************************************)
EXTENDS Naturals

CONSTANTS
  Instances,    \* the Provider values an application registers
  Names,        \* what their Name() returns
  Models,
  NameOf,       \* Instances -> Names
  Serves,       \* Instances -> SUBSET Models, their Models()
  Calls,        \* goroutines that call Complete, again and again
  MaxFailures   \* bound: ConsecutiveFailures is not counted beyond it

Nobody == "nobody"    \* an absent entry of a map of providers

ASSUME RouterAssumption ==
  /\ Nobody \notin Instances
  /\ NameOf \in [Instances -> Names]
  /\ Serves \in [Instances -> SUBSET Models]
  /\ MaxFailures \in Nat /\ MaxFailures >= 3

VARIABLES
  providers,   \* name -> the instance registered under it
  modelMap,    \* model -> the instance registered for it last
  health,      \* name -> [status, failures]; "none" before it is registered
  call,        \* Calls -> [pc, at, ok], the local state of Complete
  probe,       \* Names -> [pc, at, ok], the goroutines of RunHealthChecks
  up           \* the instances whose service answers

router == <<providers, modelMap, health>>
vars   == <<router, call, probe, up>>

TypeOK ==
  /\ providers \in [Names -> Instances \union {Nobody}]
  /\ modelMap \in [Models -> Instances \union {Nobody}]
  /\ health \in [Names -> [status : {"none", "unknown", "healthy", "degraded", "offline"},
                           failures : 0 .. MaxFailures]]
  /\ call \in [Calls -> [pc : {"idle", "waiting", "record"},
                         at : Instances \union {Nobody}, ok : BOOLEAN]]
  /\ probe \in [Names -> [pc : {"idle", "waiting", "record"},
                          at : Instances \union {Nobody}, ok : BOOLEAN]]
  /\ up \subseteq Instances

Idle      == [pc |-> "idle", at |-> Nobody, ok |-> FALSE]
Asking(i) == [pc |-> "waiting", at |-> i, ok |-> FALSE]

Init ==
  /\ providers = [n \in Names |-> Nobody]
  /\ modelMap = [m \in Models |-> Nobody]
  /\ health = [n \in Names |-> [status |-> "none", failures |-> 0]]
  /\ call = [c \in Calls |-> Idle]
  /\ probe = [n \in Names |-> Idle]
  /\ up = Instances

RegisterBlank(i) ==
  /\ providers' = [providers EXCEPT ![NameOf[i]] = i]
  /\ modelMap' = [m \in Models |-> IF m \in Serves[i] THEN i ELSE modelMap[m]]
  /\ health' = [health EXCEPT ![NameOf[i]] = [status |-> "", failures |-> 0]]
  /\ UNCHANGED <<call, probe, up>>
Register(i) ==
  /\ providers' = [providers EXCEPT ![NameOf[i]] = i]
  /\ modelMap' = [m \in Models |-> IF m \in Serves[i] THEN i ELSE modelMap[m]]
  /\ health' = [health EXCEPT ![NameOf[i]] = [status |-> "unknown", failures |-> 0]]
  /\ UNCHANGED <<call, probe, up>>

----
(* resolveProvider.  Go visits a map in any order, so the failover may     *)
(* choose any of the providers that suit it.                               *)

Offline(n) == health[n].status = "offline"

Registered == {providers[n] : n \in Names} \ {Nobody}
Eligible   == {i \in Registered : ~Offline(NameOf[i])}
Advertising(m) == {i \in Eligible : m \in Serves[i]}

PrimaryOk(m) == modelMap[m] # Nobody /\ ~Offline(NameOf[modelMap[m]])

ResolvedAnyHealthy(m) ==
  CASE PrimaryOk(m)  -> {modelMap[m]}
    [] ~PrimaryOk(m) -> Eligible
ResolvedPrimaryFirst(m) ==
  CASE modelMap[m] # Nobody -> {modelMap[m]}
    [] OTHER -> Eligible
resolveProvider(m) ==
  CASE PrimaryOk(m) -> {modelMap[m]}
    [] ~PrimaryOk(m) /\ Advertising(m) # {} -> Advertising(m)
    [] OTHER -> Eligible

\* With no provider to ask, Complete fails at once and changes nothing.
Resolve(c, m) ==
  /\ call[c].pc = "idle"
  /\ \E i \in resolveProvider(m) : call' = [call EXCEPT ![c] = Asking(i)]
  /\ UNCHANGED <<router, probe, up>>

\* An error comes from a service that is down, and also from one that is not:
\* a refused request, a deadline or a cancellation of the caller's context.
Answers(i) == IF i \in up THEN BOOLEAN ELSE {FALSE}

CallEnds(c) ==
  /\ call[c].pc = "waiting"
  /\ \E ok \in Answers(call[c].at) :
       call' = [call EXCEPT ![c].pc = "record", ![c].ok = ok]
  /\ UNCHANGED <<router, probe, up>>

----
(* recordFailure and recordSuccess, under the lock *)

Capped(k) == IF k > MaxFailures THEN MaxFailures ELSE k

recordFailureLowestFirst(h) ==
  LET k == Capped(h.failures + 1)
  IN  [failures |-> k, status |-> IF k >= 1 THEN "degraded" ELSE "offline"]
recordFailure(h) ==
  LET k == Capped(h.failures + 1)
  IN  [failures |-> k, status |-> IF k >= 3 THEN "offline" ELSE "degraded"]

recordSuccessKeepingCount(h) == [failures |-> h.failures, status |-> "healthy"]
recordSuccessWhenDegraded(h) ==
  IF h.status = "offline" THEN h ELSE [failures |-> 0, status |-> "healthy"]
recordSuccess(h) == [failures |-> 0, status |-> "healthy"]

\* A result goes to the health of its provider's name, registered or replaced.
Record(n, ok) ==
  health' = [health EXCEPT ![n] = IF ok THEN recordSuccess(@) ELSE recordFailure(@)]

RecordCall(c) ==
  /\ call[c].pc = "record"
  /\ Record(NameOf[call[c].at], call[c].ok)
  /\ call' = [call EXCEPT ![c] = Idle]
  /\ UNCHANGED <<providers, modelMap, probe, up>>

----
(* RunHealthChecks: a goroutine for each provider, and a wait for all of   *)
(* them.  Rounds follow each other; who starts them is the application.    *)

RunHealthChecks ==
  /\ \A n \in Names : probe[n] = Idle
  /\ Registered # {}
  /\ probe' = [n \in Names |-> IF providers[n] = Nobody THEN Idle ELSE Asking(providers[n])]
  /\ UNCHANGED <<router, call, up>>

HealthCheck(n, ok) ==
  /\ probe[n].pc = "waiting" /\ ok \in Answers(probe[n].at)
  /\ probe' = [probe EXCEPT ![n].pc = "record", ![n].ok = ok]
  /\ UNCHANGED <<router, call, up>>

RecordProbe(n) ==
  /\ probe[n].pc = "record"
  /\ Record(n, probe[n].ok)
  /\ probe' = [probe EXCEPT ![n] = Idle]
  /\ UNCHANGED <<providers, modelMap, call, up>>

----
\* The services come and go.
GoDown(i) == i \in up /\ up' = up \ {i} /\ UNCHANGED <<router, call, probe>>
ComeBack(i) == i \notin up /\ up' = up \union {i} /\ UNCHANGED <<router, call, probe>>

Calling(c)  == CallEnds(c) \/ RecordCall(c)
Checking(n) == RecordProbe(n) \/ \E ok \in BOOLEAN : HealthCheck(n, ok)

Next ==
  \/ \E i \in Instances : Register(i) \/ GoDown(i) \/ ComeBack(i)
  \/ \E c \in Calls, m \in Models : Resolve(c, m)
  \/ \E c \in Calls : Calling(c)
  \/ RunHealthChecks
  \/ \E n \in Names : Checking(n)

Spec == Init /\ [][Next]_vars

\* The HTTP clients of the providers have timeouts and nothing holds the lock
\* while it waits, so a request that is out is answered and recorded.
Fairness ==
  /\ \A c \in Calls : WF_vars(Calling(c))
  /\ \A n \in Names : WF_vars(Checking(n))

FairSpec == Spec /\ Fairness

----
\* The status shown is always the one the failures in a row stand for, however
\* results of calls, probes and registrations interleave (router.go:192-220).
StatusFollowsFailures ==
  \A n \in Names :
    LET h == health[n]
    IN  /\ Offline(n) <=> h.failures >= 3
        /\ h.status = "degraded" <=> h.failures \in 1 .. 2

\* "We don't route, say, llama3.1 to a remote whose model set doesn't include
\* it" (router.go:118): a request goes to a provider that is not offline, and
\* to one without its model only while all that have it are offline.
RoutedSoundly ==
  \A c \in Calls, m \in Models : Resolve(c, m) =>
    LET i == call'[c].at
    IN  /\ ~Offline(NameOf[i])
        /\ m \in Serves[i] \/ \A j \in Registered : m \in Serves[j] => Offline(NameOf[j])
RoutingIsSound == [][RoutedSoundly]_vars

\* An outage is contained: once every instance of a name is down for good, and
\* no more is registered, the calls come to leave that provider alone, late
\* successes of before and stale entries of the model map notwithstanding.
OutageIsContained ==
  \A n \in Names :
    /\ <>[](\A i \in up : NameOf[i] # n)
    /\ <>[][\A i \in Instances : ~Register(i)]_vars
    => <>[](\A c \in Calls : call[c].at # Nobody => NameOf[call[c].at] # n)

\* A provider whose checks succeed again and again is not given up for ever:
\* late failures may hide a success, but not all of them (router.go:184).
ChecksBringBack ==
  \A n \in Names :
    []<><<HealthCheck(n, TRUE)>>_vars => []<>(health[n].status = "healthy")
====
