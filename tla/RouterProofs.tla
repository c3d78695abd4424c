---- MODULE RouterProofs ----
(***************************************************************************)
(* The router for any number of providers, models and calling goroutines,  *)
(* and Executes over it: what the router promises holds of them too, an    *)
(* Execute answers what it did, and a provider refuses it three times in a *)
(* row at most.                                                            *)
(***************************************************************************)
EXTENDS NodeAttempts, TLAPS

\* The maps hold what Register put there: an instance under its own name, and
\* for a model an instance that advertises it, replaced or not.
MapsOK ==
  /\ \A n \in Names : providers[n] # Nobody => NameOf[providers[n]] = n
  /\ \A m \in Models : modelMap[m] # Nobody => m \in Serves[modelMap[m]]

\* A process that is not idle works for a provider.
WorkersOK ==
  /\ \A c \in Calls : call[c].pc # "idle" => call[c].at \in Instances
  /\ \A n \in Names : probe[n].pc # "idle" => probe[n].at \in Instances

Inv == TypeOK /\ MapsOK /\ WorkersOK /\ StatusFollowsFailures

CallFrames == [pc : {"idle", "waiting", "record"},
               at : Instances \union {Nobody}, ok : BOOLEAN]

\* A request that has ended, with either answer, is a frame still.
Ended(f, ok) == [f EXCEPT !.pc = "record", !.ok = ok]

LEMMA EndedFrame ==
  ASSUME NEW f \in CallFrames, NEW ok \in BOOLEAN
  PROVE  Ended(f, ok) \in CallFrames
  BY DEF CallFrames, Ended

HealthRecords == [status : {"none", "unknown", "healthy", "degraded", "offline"},
                  failures : 0 .. MaxFailures]

\* What StatusFollowsFailures asks of one record.
Consistent(h) ==
  /\ h.status = "offline" <=> h.failures >= 3
  /\ h.status = "degraded" <=> h.failures \in 1 .. 2

\* A recorded result leaves a record with a status that its count stands for.
LEMMA RecordedIsConsistent ==
  ASSUME NEW h \in HealthRecords
  PROVE  /\ recordFailure(h) \in HealthRecords /\ Consistent(recordFailure(h))
         /\ recordSuccess(h) \in HealthRecords /\ Consistent(recordSuccess(h))
<1>1. h.failures \in 0 .. MaxFailures /\ MaxFailures \in Nat /\ MaxFailures >= 3
  BY RouterAssumption DEF HealthRecords
<1>2. /\ Capped(h.failures + 1) \in 0 .. MaxFailures
      /\ Capped(h.failures + 1) >= 1
  BY <1>1 DEF Capped
<1>3. recordFailure(h) \in HealthRecords
  BY <1>2 DEF recordFailure, HealthRecords
<1>4. Consistent(recordFailure(h))
  BY <1>2 DEF recordFailure, Consistent
<1>5. recordSuccess(h) \in HealthRecords /\ Consistent(recordSuccess(h))
  BY <1>1 DEF recordSuccess, Consistent, HealthRecords
<1>. QED
  BY <1>3, <1>4, <1>5

\* So the whole map stays typed and consistent, whichever result is recorded.
LEMMA RecordKeepsHealth ==
  ASSUME health \in [Names -> HealthRecords], \A n \in Names : Consistent(health[n]),
         NEW x \in Names, NEW ok \in BOOLEAN, Record(x, ok)
  PROVE  health' \in [Names -> HealthRecords] /\ \A n \in Names : Consistent(health'[n])
<1>1. health[x] \in HealthRecords
  OBVIOUS
<1>2. PICK h \in HealthRecords : Consistent(h) /\ health' = [health EXCEPT ![x] = h]
  BY <1>1, RecordedIsConsistent DEF Record
<1>. QED
  BY <1>2

\* The invariant holds of a router that has routed nothing,
LEMMA InvInit == Init => Inv
<1>. SUFFICES ASSUME Init PROVE Inv
  OBVIOUS
<1>1. TypeOK
  BY RouterAssumption DEF Init, TypeOK, Idle
<1>2. MapsOK /\ WorkersOK
  BY DEF Init, MapsOK, WorkersOK, Idle
<1>3. StatusFollowsFailures
  BY DEF Init, StatusFollowsFailures, Offline
<1>. QED
  BY <1>1, <1>2, <1>3 DEF Inv

\* and every step keeps it.
LEMMA InvNext == Inv /\ [Next]_vars => Inv'
<1>. SUFFICES ASSUME Inv, [Next]_vars PROVE Inv'
  OBVIOUS
<1>. USE DEF Inv
<1>0. health \in [Names -> HealthRecords] /\ \A n \in Names : Consistent(health[n])
  BY DEF TypeOK, HealthRecords, StatusFollowsFailures, Offline, Consistent
<1>. DEFINE HealthOK == health' \in [Names -> HealthRecords] /\ \A n \in Names : Consistent(health'[n])
<1>1. ASSUME HealthOK PROVE StatusFollowsFailures'
  BY <1>1 DEF StatusFollowsFailures, Offline, Consistent
<1>2. ASSUME NEW i \in Instances, Register(i) PROVE Inv'
  <2>1. NameOf[i] \in Names /\ Serves[i] \subseteq Models
    BY RouterAssumption
  <2>2. HealthOK
    <3>1. [status |-> "unknown", failures |-> 0] \in HealthRecords
      BY RouterAssumption DEF HealthRecords
    <3>2. Consistent([status |-> "unknown", failures |-> 0])
      BY DEF Consistent
    <3>. QED
      BY <1>0, <1>2, <3>1, <3>2 DEF Register
  <2>3. TypeOK'
    BY <1>2, <2>2, <2>1 DEF Register, TypeOK, HealthRecords
  <2>4. MapsOK'
    BY <1>2, <2>1 DEF Register, MapsOK, TypeOK
  <2>5. WorkersOK'
    BY <1>2 DEF Register, WorkersOK
  <2>. QED
    BY <2>2, <2>3, <2>4, <2>5, <1>1
<1>3. ASSUME NEW i \in Instances, GoDown(i) \/ ComeBack(i) PROVE Inv'
  BY <1>3 DEF GoDown, ComeBack, router, TypeOK, MapsOK, WorkersOK, StatusFollowsFailures, Offline
<1>4. ASSUME NEW c \in Calls, NEW m \in Models, Resolve(c, m) PROVE Inv'
  <2>1. resolveProvider(m) \subseteq Instances
    BY DEF resolveProvider, PrimaryOk, Advertising, Eligible, Registered, TypeOK
  <2>2. PICK i \in Instances : call' = [call EXCEPT ![c] = Asking(i)]
    BY <1>4, <2>1 DEF Resolve
  <2>3. TypeOK'
    BY <1>4, <2>2 DEF Resolve, Asking, TypeOK, router
  <2>4. MapsOK' /\ StatusFollowsFailures'
    BY <1>4 DEF Resolve, router, MapsOK, StatusFollowsFailures, Offline
  <2>5. WorkersOK'
    BY <1>4, <2>2 DEF Resolve, Asking, WorkersOK, TypeOK
  <2>. QED
    BY <2>3, <2>4, <2>5
<1>5. ASSUME NEW c \in Calls, CallEnds(c) PROVE Inv'
  <2>1. PICK ok \in BOOLEAN : call' = [call EXCEPT ![c].pc = "record", ![c].ok = ok]
    BY <1>5 DEF CallEnds, Answers
  <2>2. TypeOK'
    <3>1. call' \in [Calls -> CallFrames]
      <4>1. call \in [Calls -> CallFrames]
        BY DEF TypeOK, CallFrames
      <4>2. PICK f \in CallFrames : f = Ended(call[c], ok)
        BY <4>1, EndedFrame
      <4>3. call' = [call EXCEPT ![c] = f]
        BY <2>1, <4>2 DEF Ended
      <4>. QED
        BY <4>1, <4>3
    <3>2. UNCHANGED <<providers, modelMap, health, probe, up>>
      BY <1>5 DEF CallEnds, router
    <3>. QED
      BY <3>1, <3>2 DEF TypeOK, CallFrames
  <2>3. MapsOK' /\ StatusFollowsFailures'
    BY <1>5 DEF CallEnds, router, MapsOK, StatusFollowsFailures, Offline
  <2>4. WorkersOK'
    BY <1>5, <2>1 DEF CallEnds, WorkersOK, TypeOK
  <2>. QED
    BY <2>2, <2>3, <2>4
<1>6. ASSUME NEW c \in Calls, RecordCall(c) PROVE Inv'
  <2>1. NameOf[call[c].at] \in Names /\ call[c].ok \in BOOLEAN
    BY <1>6, RouterAssumption DEF RecordCall, WorkersOK, TypeOK
  <2>2. HealthOK
    BY <1>0, <1>6, <2>1, RecordKeepsHealth DEF RecordCall
  <2>3. TypeOK'
    BY <1>6, <2>2 DEF RecordCall, TypeOK, Idle, HealthRecords
  <2>4. MapsOK' /\ WorkersOK'
    BY <1>6 DEF RecordCall, MapsOK, WorkersOK, Idle, TypeOK
  <2>. QED
    BY <2>2, <2>3, <2>4, <1>1
<1>7. CASE RunHealthChecks
  <2>1. \A n \in Names : providers[n] # Nobody => providers[n] \in Instances
    BY DEF TypeOK
  <2>2. TypeOK'
    BY <1>7, <2>1 DEF RunHealthChecks, TypeOK, Idle, Asking, router
  <2>3. MapsOK' /\ StatusFollowsFailures'
    BY <1>7 DEF RunHealthChecks, router, MapsOK, StatusFollowsFailures, Offline
  <2>4. WorkersOK'
    BY <1>7, <2>1 DEF RunHealthChecks, WorkersOK, Idle, Asking
  <2>. QED
    BY <2>2, <2>3, <2>4
<1>8. ASSUME NEW n \in Names, NEW ok \in BOOLEAN, HealthCheck(n, ok) PROVE Inv'
  <2>1. TypeOK'
    <3>1. probe' = [probe EXCEPT ![n] = Ended(probe[n], ok)]
      BY <1>8 DEF HealthCheck, TypeOK, Ended
    <3>2. probe' \in [Names -> CallFrames]
      BY <3>1, EndedFrame DEF TypeOK, CallFrames
    <3>. QED
      BY <1>8, <3>2 DEF HealthCheck, TypeOK, CallFrames, router
  <2>2. MapsOK' /\ StatusFollowsFailures'
    BY <1>8 DEF HealthCheck, router, MapsOK, StatusFollowsFailures, Offline
  <2>3. WorkersOK'
    BY <1>8 DEF HealthCheck, WorkersOK, TypeOK
  <2>. QED
    BY <2>1, <2>2, <2>3
<1>9. ASSUME NEW n \in Names, RecordProbe(n) PROVE Inv'
  <2>1. HealthOK
    BY <1>0, <1>9, RecordKeepsHealth DEF RecordProbe, TypeOK
  <2>2. TypeOK'
    BY <1>9, <2>1 DEF RecordProbe, TypeOK, Idle, HealthRecords
  <2>3. MapsOK' /\ WorkersOK'
    BY <1>9 DEF RecordProbe, MapsOK, WorkersOK, Idle, TypeOK
  <2>. QED
    BY <2>1, <2>2, <2>3, <1>1
<1>10. CASE UNCHANGED vars
  BY <1>10 DEF vars, router, TypeOK, MapsOK, WorkersOK, StatusFollowsFailures, Offline
<1>. QED
  BY <1>2, <1>3, <1>4, <1>5, <1>6, <1>7, <1>8, <1>9, <1>10 DEF Next, Calling, Checking

\* Every variable keeps its type.
THEOREM RouterTypeCorrect == Spec => []TypeOK
  BY InvInit, InvNext, PTL DEF Spec, Inv

\* The status of a provider is the one its failures in a row stand for.
THEOREM StatusIsFailures == Spec => []StatusFollowsFailures
  BY InvInit, InvNext, PTL DEF Spec, Inv

\* A request goes to a provider that is not offline, and to one without the
\* model only while every registered provider of the model is offline.
THEOREM RoutesAreSound == Spec => RoutingIsSound
<1>1. ASSUME Inv PROVE RoutedSoundly
  <2>. SUFFICES ASSUME NEW c \in Calls, NEW m \in Models, Resolve(c, m)
                PROVE  LET i == call'[c].at
                       IN  /\ ~Offline(NameOf[i])
                           /\ \/ m \in Serves[i]
                              \/ \A j \in Registered : m \in Serves[j] => Offline(NameOf[j])
    BY DEF RoutedSoundly
  <2>1. PICK i \in resolveProvider(m) : call'[c].at = i
    BY <1>1 DEF Resolve, Asking, Inv, TypeOK
  <2>2. CASE PrimaryOk(m)
    BY <2>1, <2>2, <1>1 DEF resolveProvider, PrimaryOk, Inv, MapsOK
  <2>3. CASE ~PrimaryOk(m) /\ Advertising(m) # {}
    BY <2>1, <2>3 DEF resolveProvider, Advertising, Eligible
  <2>4. CASE ~PrimaryOk(m) /\ Advertising(m) = {}
    BY <2>1, <2>4 DEF resolveProvider, Advertising, Eligible
  <2>. QED
    BY <2>2, <2>3, <2>4
<1>. QED
  BY <1>1, InvInit, InvNext, PTL DEF Spec, RoutingIsSound
----
(* Executes over the router *)

\* Every step of an Execute is a step of the router or leaves it alone.
LEMMA AttemptsAreSteps == [AttemptsNext]_attempting => [Next]_vars
<1>. SUFFICES ASSUME [AttemptsNext]_attempting PROVE [Next]_vars
  OBVIOUS
<1>1. ASSUME NEW i \in Instances, Register(i) PROVE Next
  BY <1>1 DEF Next
<1>2. ASSUME NEW n \in Names, NEW ok \in BOOLEAN, HealthCheck(n, ok) PROVE Next
  BY <1>2 DEF Next, Checking
<1>3. ASSUME NEW n \in Names, RecordProbe(n) PROVE Next
  BY <1>3 DEF Next, Checking
<1>4. ASSUME NEW c \in Calls, NEW node \in Nodes, NEW policy \in Policies \union {DefaultPolicy},
             StartExecute(c, node, policy)
      PROVE  UNCHANGED vars
  BY <1>4 DEF StartExecute, Frame
<1>5. ASSUME NEW c \in Calls, Executing(c) PROVE [Next]_vars
  <2>1. CASE EndWait(c) \/ GetDefinition(c) \/ FindNoProvider(c) \/ Return(c)
    BY <2>1 DEF EndWait, GetDefinition, FindNoProvider, Return, Frame
  <2>2. CASE Request(c)
    BY <2>2, AttemptsAssumption DEF Request, Next
  <2>3. CASE CallEnds(c) \/ RecordCall(c)
    BY <2>3 DEF Next, Calling
  <2>4. CASE TakeRefusal(c) \/ TakeAnswer(c)
    BY <2>3, <2>4 DEF TakeRefusal, TakeAnswer
  <2>. QED
    BY <1>5, <2>1, <2>2, <2>3, <2>4 DEF Executing
<1>6. CASE RunHealthChecks
  BY <1>6 DEF Next
<1>7. CASE UNCHANGED attempting
  BY <1>7 DEF attempting
<1>. QED
  BY <1>1, <1>2, <1>3, <1>4, <1>5, <1>6, <1>7 DEF AttemptsNext

LEMMA RouterInAttempts == AttemptsSpec => []Inv /\ Spec
<1>1. AttemptsInit => Init
  BY DEF AttemptsInit
<1>2. AttemptsSpec => Spec
  BY <1>1, AttemptsAreSteps, PTL DEF AttemptsSpec, Spec
<1>. QED
  BY <1>2, InvInit, InvNext, PTL DEF Spec

\* The status of a provider follows its failures, and requests are routed
\* soundly, whoever retries what.
THEOREM StatusIsFailuresWithRetries == AttemptsSpec => []StatusFollowsFailures
  BY RouterInAttempts, PTL DEF Inv

THEOREM RoutesAreSoundWithRetries == AttemptsSpec => RoutingIsSound
  BY RouterInAttempts, RoutesAreSound, PTL

----
(* Frames.  The part of a frame that says what was asked and answered is   *)
(* independent of the strikes, and of what others do.                      *)

\* The requests a frame may have made: one per attempt, the current one's from
\* "asking" on, and none for a node without the model.
Made(f) == CASE ~Allowed(f.node) -> 0
             [] Allowed(f.node) /\ f.pc \in {"asking", "answered"} -> f.attempt
             [] OTHER -> f.attempt - 1

Accounted(f) ==
  /\ f.attempt >= 1 /\ f.asked <= Made(f)
  /\ f.pc \in {"complete", "asking"} => Allowed(f.node)
  /\ f.attempt <= f.policy.max \/ (f.policy.max = 0 /\ f.pc = "answered")
  /\ f.pc # "answered" => f.answer = "none"
  /\ f.pc = "answered" =>
       \/ f.answer \in Errors /\ f.answer = f.last /\ f.last \notin f.policy.retryOn
       \/ f.answer = "exhausted" /\ f.attempt = f.policy.max /\ f.last \in f.policy.retryOn
       \/ f.answer = "exhausted" /\ f.policy.max = 0 /\ f.last = "none" /\ f.asked = 0
       \/ f.answer \in {"ok", "panic", "cancelled"}
  /\ f.pc = "wait" => f.delay <= f.policy.cap + 999 /\ f.last \in f.policy.retryOn

SoundFrames == {f \in Frames : Accounted(f)}

\* A call that is out is one of a frame that waits for it.
FramesInv ==
  /\ exec \in [Calls -> SoundFrames]
  /\ \A c \in Calls : call[c].pc # "idle" => exec[c].pc = "asking"

\* Every policy, the default one too, has the fields that the engine reads.
LEMMA PolicyIsTyped ==
  ASSUME NEW p \in Policies \union {DefaultPolicy} PROVE p \in PolicyFields
<1>1. Policies \subseteq PolicyFields
  BY AttemptsAssumption
<1>2. DefaultPolicy \in PolicyFields
  BY DEF DefaultPolicy, PolicyFields
<1>. QED
  BY <1>1, <1>2

\* A delay is a number within the cap and a jitter, though durations wrap.
LEMMA DelayIsBounded ==
  ASSUME NEW p \in PolicyFields, NEW k \in Nat \ {0}, NEW d \in calculateDelay(p, k)
  PROVE  d \in Int /\ d <= p.cap + 999
<1>1. Half \in Nat \ {0} /\ p.initial \in Nat /\ p.cap \in Nat
  BY AttemptsAssumption DEF PolicyFields
<1>2. Uncapped(p, k) \in Int
  <2>1. ASSUME NEW n \in Int PROVE Wrapped(n) \in Int
    <3>1. n + Half \in Int /\ 2 * Half \in Nat /\ 2 * Half > 0
      BY <1>1
    <3>2. ASSUME NEW a \in Int, NEW m \in Nat, m > 0 PROVE a % m \in Int
      BY <3>2
    <3>3. (n + Half) % (2 * Half) \in Int
      BY <3>1, <3>2
    <3>. QED
      BY <1>1, <3>3 DEF Wrapped
  <2>2. 2 ^ (k - 1) \in Int /\ p.initial * k \in Int
    <3>1. k - 1 \in Nat
      OBVIOUS
    <3>2. ASSUME NEW j \in Nat PROVE 2 ^ j \in Int
      OBVIOUS
    <3>. QED
      BY <1>1, <3>1, <3>2
  <2>3. p.initial * 2 ^ (k - 1) \in Int
    BY <1>1, <2>2
  <2>4. p.strategy \in {"exponential", "linear", "fixed"}
    BY DEF PolicyFields
  <2>. QED
    BY <1>1, <2>1, <2>2, <2>3, <2>4 DEF Uncapped
<1>3. \E j \in {0, 999} : d = (IF Uncapped(p, k) > p.cap THEN p.cap ELSE Uncapped(p, k)) + j
  BY DEF calculateDelay, Jitters
<1>. QED
  BY <1>1, <1>2, <1>3

\* After an error an accounted frame is accounted, and its strikes are as they were.
LEMMA AfterErrorKeeps ==
  ASSUME NEW f \in SoundFrames, f.pc \in {"attempt", "complete", "asking"},
         NEW e \in Errors, NEW g \in AfterError(f, e)
  PROVE  /\ g \in SoundFrames /\ g.to = f.to /\ g.strikes = f.strikes
         /\ g.pc \in {"answered", "wait"}
<1>1. /\ f \in Frames /\ Accounted(f) /\ f.policy \in PolicyFields
      /\ f.attempt \in Nat \ {0} /\ f.policy.max \in Nat /\ f.asked \in Nat
      /\ f.attempt <= f.policy.max
  <2>1. f \in Frames /\ Accounted(f)
    BY DEF SoundFrames
  <2>2. f.policy \in PolicyFields
    BY <2>1, PolicyIsTyped DEF Frames
  <2>. QED
    BY <2>1, <2>2 DEF Frames, PolicyFields, Accounted
<1>2. f.asked <= IF Allowed(f.node) THEN f.attempt ELSE 0
  BY <1>1 DEF Accounted, Made
<1>3. ASSUME NEW answer \in {e, "exhausted"},
             answer = e => e \notin f.policy.retryOn,
             answer = "exhausted" => f.attempt = f.policy.max /\ e \in f.policy.retryOn,
             g = Answered([f EXCEPT !.last = e], answer)
      PROVE  g \in SoundFrames /\ g.to = f.to /\ g.strikes = f.strikes /\ g.pc = "answered"
  <2>1. g = [f EXCEPT !.last = e, !.pc = "answered", !.answer = answer]
    BY <1>1, <1>3 DEF Answered, Frames
  <2>2. g \in Frames
    BY <1>1, <2>1 DEF Frames, Errors
  <2>3. /\ g.last = e /\ g.pc = "answered" /\ g.answer = answer /\ g.node = f.node
        /\ g.policy = f.policy /\ g.attempt = f.attempt /\ g.asked = f.asked
        /\ g.to = f.to /\ g.strikes = f.strikes
    BY <1>1, <2>1 DEF Frames
  <2>4. Accounted(g)
    BY <1>1, <1>2, <1>3, <2>3 DEF Accounted, Made
  <2>. QED
    BY <2>2, <2>3, <2>4 DEF SoundFrames
<1>4. ASSUME NEW d \in calculateDelay(f.policy, f.attempt), e \in f.policy.retryOn,
             f.attempt # f.policy.max,
             g = [[f EXCEPT !.last = e] EXCEPT !.pc = "wait", !.attempt = @ + 1, !.delay = d]
      PROVE  g \in SoundFrames /\ g.to = f.to /\ g.strikes = f.strikes /\ g.pc = "wait"
  <2>1. d \in Int /\ d <= f.policy.cap + 999
    BY <1>1, DelayIsBounded
  <2>2. PICK k \in Nat : k = f.attempt + 1
    BY <1>1
  <2>3. g = [f EXCEPT !.last = e, !.pc = "wait", !.attempt = k, !.delay = d]
    BY <1>1, <1>4, <2>2 DEF Frames
  <2>4. g \in Frames
    BY <1>1, <2>1, <2>3 DEF Frames
  <2>5. /\ g.last = e /\ g.pc = "wait" /\ g.answer = f.answer /\ g.node = f.node
        /\ g.policy = f.policy /\ g.attempt = k /\ g.asked = f.asked /\ g.delay = d
        /\ g.to = f.to /\ g.strikes = f.strikes
    BY <1>1, <2>3 DEF Frames
  <2>6. Accounted(g)
    BY <1>1, <1>2, <1>4, <2>1, <2>2, <2>5 DEF Accounted, Made
  <2>. QED
    BY <2>4, <2>5, <2>6 DEF SoundFrames
<1>5. CASE e \notin f.policy.retryOn
  BY <1>3, <1>5 DEF AfterError, Errors
<1>6. CASE e \in f.policy.retryOn /\ f.attempt = f.policy.max
  BY <1>3, <1>6 DEF AfterError, Errors
<1>7. CASE e \in f.policy.retryOn /\ f.attempt # f.policy.max
  BY <1>4, <1>7 DEF AfterError
<1>. QED
  BY <1>5, <1>6, <1>7

\* So is a frame whose strikes alone have changed,
WithStrikes(f, n, s) == [f EXCEPT !.to = n, !.strikes = s]

LEMMA StruckFrame ==
  ASSUME NEW f \in SoundFrames, NEW n \in Names \union {Nobody}, NEW s \in Nat
  PROVE  /\ WithStrikes(f, n, s) \in SoundFrames
         /\ WithStrikes(f, n, s).pc = f.pc
         /\ WithStrikes(f, n, s).to = n /\ WithStrikes(f, n, s).strikes = s
<1>. PICK g : g = WithStrikes(f, n, s)
  OBVIOUS
<1>0. g = [f EXCEPT !.to = n, !.strikes = s]
  BY DEF WithStrikes
<1>1. f \in Frames /\ Accounted(f)
  BY DEF SoundFrames
<1>2. g \in Frames
  BY <1>0, <1>1 DEF Frames
<1>3. /\ g.pc = f.pc /\ g.last = f.last /\ g.answer = f.answer /\ g.node = f.node
      /\ g.policy = f.policy /\ g.attempt = f.attempt /\ g.asked = f.asked
      /\ g.delay = f.delay /\ g.to = n /\ g.strikes = s
  BY <1>0, <1>1 DEF Frames
<1>4. Accounted(g)
  BY <1>1, <1>3 DEF Accounted, Made
<1>. QED
  BY <1>2, <1>3, <1>4 DEF SoundFrames

\* and one that ends with what is no error.
LEMMA AnsweredFrame ==
  ASSUME NEW f \in SoundFrames, f.pc # "answered",
         NEW answer \in {"ok", "panic", "cancelled"}, NEW g, g = Answered(f, answer)
  PROVE  g \in SoundFrames /\ g.to = f.to /\ g.strikes = f.strikes
<1>1. f \in Frames /\ Accounted(f) /\ f.attempt \in Nat /\ f.asked \in Nat
  BY DEF SoundFrames, Frames
<1>2. g \in Frames
  BY <1>1 DEF Answered, Frames
<1>3. /\ g.pc = "answered" /\ g.answer = answer /\ g.node = f.node
      /\ g.policy = f.policy /\ g.attempt = f.attempt /\ g.asked = f.asked
      /\ g.to = f.to /\ g.strikes = f.strikes
  BY <1>1 DEF Answered, Frames
<1>4. g.asked <= Made(g)
  BY <1>1, <1>3 DEF Accounted, Made
<1>5. Accounted(g)
  BY <1>1, <1>3, <1>4 DEF Accounted
<1>. QED
  BY <1>2, <1>3, <1>5 DEF SoundFrames

\* A frame that has just begun is accounted.
LEMMA FreshFrame ==
  ASSUME NEW node \in Nodes, NEW p \in Policies \union {DefaultPolicy}
  PROVE  /\ p.max # 0 => Fresh(node, p) \in SoundFrames
         /\ p.max # 0 => [Fresh(node, p) EXCEPT !.pc = "attempt"] \in SoundFrames
         /\ p.max = 0 => Answered(Fresh(node, p), "exhausted") \in SoundFrames
<1>1. p.max \in Nat
  BY PolicyIsTyped DEF PolicyFields
<1>2. ASSUME NEW pc \in {"idle", "attempt", "answered"}, NEW answer \in {"none", "exhausted"},
             pc = "answered" => answer = "exhausted" /\ p.max = 0,
             pc # "answered" => answer = "none" /\ p.max # 0,
             NEW f, f = [pc |-> pc, node |-> node, policy |-> p, attempt |-> 1, delay |-> 0,
                         last |-> "none", answer |-> answer, asked |-> 0, to |-> Nobody,
                         strikes |-> 0]
      PROVE  f \in SoundFrames
  <2>1. f \in Frames
    BY <1>2 DEF Frames
  <2>2. Made(f) >= 0
    BY <1>2 DEF Made
  <2>3. Accounted(f)
    BY <1>1, <1>2, <2>2 DEF Accounted
  <2>. QED
    BY <2>1, <2>3 DEF SoundFrames
<1>3. p.max # 0 => Fresh(node, p) \in SoundFrames
  BY <1>2 DEF Fresh
<1>4. p.max # 0 => [Fresh(node, p) EXCEPT !.pc = "attempt"] \in SoundFrames
  BY <1>2 DEF Fresh
<1>5. ASSUME p.max = 0 PROVE Answered(Fresh(node, p), "exhausted") \in SoundFrames
  <2>1. PICK f : f = [Fresh(node, p) EXCEPT !.pc = "answered"]
    OBVIOUS
  <2>2. f = [pc |-> "answered", node |-> node, policy |-> p, attempt |-> 1, delay |-> 0,
             last |-> "none", answer |-> "none", asked |-> 0, to |-> Nobody, strikes |-> 0]
    BY <2>1 DEF Fresh
  <2>3. PICK g : g = [f EXCEPT !.answer = "exhausted"]
    OBVIOUS
  <2>4. g = Answered(Fresh(node, p), "exhausted")
    BY <2>1, <2>3 DEF Fresh, Answered
  <2>5. g \in SoundFrames
    BY <1>2, <1>5, <2>2, <2>3
  <2>. QED
    BY <2>4, <2>5
<1>. QED
  BY <1>3, <1>4, <1>5

LEMMA NoFrameIsSound == NoFrame \in SoundFrames /\ NoFrame.strikes = 0 /\ NoFrame.pc = "idle"
<1>1. (CHOOSE node \in Nodes : TRUE) \in Nodes
  BY AttemptsAssumption
<1>2. DefaultPolicy.max # 0
  BY DEF DefaultPolicy
<1>3. NoFrame \in SoundFrames
  BY <1>1, <1>2, FreshFrame DEF NoFrame
<1>. QED
  BY <1>3 DEF NoFrame, Fresh

\* Forgiving a provider changes strikes alone.
LEMMA ForgivenFrames ==
  ASSUME exec \in [Calls -> SoundFrames], NEW n, NEW d \in Calls
  PROVE  /\ Forgiven(n)[d] \in SoundFrames /\ Forgiven(n)[d].pc = exec[d].pc
         /\ \/ Forgiven(n)[d].strikes = 0
            \/ Forgiven(n)[d] = exec[d] /\ exec[d].to # n
<1>1. CASE exec[d].to = n
  <2>1. Forgiven(n)[d] = WithStrikes(exec[d], Nobody, 0)
    BY <1>1 DEF Forgiven, WithStrikes
  <2>. QED
    BY <2>1, StruckFrame
<1>2. CASE exec[d].to # n
  BY <1>2 DEF Forgiven
<1>. QED
  BY <1>1, <1>2

\* The frames stay accounted while one of them makes a sound step,
LEMMA FrameReplaced ==
  ASSUME FramesInv, NEW c \in Calls, NEW g \in SoundFrames, exec' = [exec EXCEPT ![c] = g],
         \A d \in Calls \ {c} : call'[d].pc # "idle" => call[d].pc # "idle",
         call'[c].pc # "idle" => g.pc = "asking"
  PROVE  FramesInv'
  BY DEF FramesInv

\* and while a provider is forgiven.
LEMMA FramesForgiven ==
  ASSUME FramesInv, NEW n, exec' = Forgiven(n), call' = call
  PROVE  FramesInv'
<1>1. \A d \in Calls : exec'[d] \in SoundFrames /\ exec'[d].pc = exec[d].pc
  BY ForgivenFrames DEF FramesInv
<1>2. exec' \in [Calls -> SoundFrames]
  BY <1>1 DEF Forgiven
<1>. QED
  BY <1>1, <1>2 DEF FramesInv

LEMMA FramesInit == AttemptsInit => FramesInv
  BY NoFrameIsSound DEF AttemptsInit, Init, Idle, FramesInv

LEMMA FramesNext == Inv /\ FramesInv /\ [AttemptsNext]_attempting => FramesInv'
<1>. SUFFICES ASSUME Inv, FramesInv, [AttemptsNext]_attempting PROVE FramesInv'
  OBVIOUS
<1>0. TypeOK /\ exec \in [Calls -> SoundFrames]
  BY DEF Inv, FramesInv
<1>1. ASSUME NEW n, exec' = Forgiven(n), call' = call PROVE FramesInv'
  BY <1>1, FramesForgiven
<1>2. ASSUME exec' = exec, call' = call PROVE FramesInv'
  BY <1>2 DEF FramesInv
\* A frame that waits for no call, and its successor, without the router.
<1>3. ASSUME NEW c \in Calls, NEW g \in SoundFrames, Frame(c, g), exec[c].pc # "asking"
      PROVE  FramesInv'
  <2>1. call' = call /\ exec' = [exec EXCEPT ![c] = g]
    BY <1>3 DEF Frame, vars
  <2>2. call[c].pc = "idle"
    BY <1>3 DEF FramesInv
  <2>. QED
    BY <2>1, <2>2, FrameReplaced
<1>4. ASSUME NEW c \in Calls, NEW node \in Nodes, NEW policy \in Policies \union {DefaultPolicy},
             StartExecute(c, node, policy)
      PROVE  FramesInv'
  <2>1. PICK g : /\ Frame(c, g)
                 /\ g = IF policy.max = 0 THEN Answered(Fresh(node, policy), "exhausted")
                        ELSE [Fresh(node, policy) EXCEPT !.pc = "attempt"]
    BY <1>4 DEF StartExecute
  <2>2. g \in SoundFrames
    BY <2>1, FreshFrame
  <2>. QED
    BY <1>3, <1>4, <2>1, <2>2 DEF StartExecute
<1>5. ASSUME NEW c \in Calls, EndWait(c) PROVE FramesInv'
  <2>1. PICK f \in SoundFrames : f = exec[c] /\ f.pc = "wait"
    BY <1>0, <1>5 DEF EndWait
  <2>2. PICK g : Frame(c, g) /\ g \in {[f EXCEPT !.pc = "attempt", !.delay = 0], Answered(f, "cancelled")}
    BY <1>5, <2>1 DEF EndWait
  <2>3. ASSUME g = [f EXCEPT !.pc = "attempt", !.delay = 0] PROVE g \in SoundFrames
    <3>1. f \in Frames /\ Accounted(f)
      BY DEF SoundFrames
    <3>2. g \in Frames
      <4>1. PICK d \in Int : d = 0
        OBVIOUS
      <4>2. g = [f EXCEPT !.pc = "attempt", !.delay = d]
        BY <2>3, <4>1
      <4>. QED
        BY <3>1, <4>2 DEF Frames
    <3>3. /\ g.pc = "attempt" /\ g.answer = f.answer /\ g.node = f.node
          /\ g.policy = f.policy /\ g.attempt = f.attempt /\ g.asked = f.asked
      BY <2>3, <3>1 DEF Frames
    <3>4. Accounted(g)
      BY <2>1, <3>1, <3>3 DEF Accounted, Made
    <3>. QED
      BY <3>2, <3>4 DEF SoundFrames
  <2>4. g = Answered(f, "cancelled") => g \in SoundFrames
    BY <2>1, AnsweredFrame
  <2>. QED
    BY <1>3, <2>1, <2>2, <2>3, <2>4
<1>6. ASSUME NEW c \in Calls, GetDefinition(c) PROVE FramesInv'
  <2>1. PICK f \in SoundFrames : f = exec[c] /\ f.pc = "attempt"
    BY <1>0, <1>6 DEF GetDefinition
  <2>2. PICK g : /\ Frame(c, g)
                 /\ \/ g \in AfterError(f, "definition")
                    \/ Allowed(f.node) /\ g = [f EXCEPT !.pc = "complete"]
                    \/ g = Answered(f, "ok")
    BY <1>6, <2>1 DEF GetDefinition
  <2>3. ASSUME Allowed(f.node), g = [f EXCEPT !.pc = "complete"] PROVE g \in SoundFrames
    <3>1. f \in Frames /\ Accounted(f)
      BY DEF SoundFrames
    <3>2. g \in Frames
      BY <2>3, <3>1 DEF Frames
    <3>3. /\ g.pc = "complete" /\ g.answer = f.answer /\ g.node = f.node
          /\ g.policy = f.policy /\ g.attempt = f.attempt /\ g.asked = f.asked
      BY <2>3, <3>1 DEF Frames
    <3>4. Accounted(g)
      BY <2>1, <2>3, <3>1, <3>3 DEF Accounted, Made
    <3>. QED
      BY <3>2, <3>4 DEF SoundFrames
  <2>4. g \in SoundFrames
    BY <2>1, <2>2, <2>3, AfterErrorKeeps, AnsweredFrame DEF Errors
  <2>. QED
    BY <1>3, <2>1, <2>2, <2>4
<1>7. ASSUME NEW c \in Calls, FindNoProvider(c) PROVE FramesInv'
  <2>1. exec[c] \in SoundFrames /\ exec[c].pc = "complete"
    BY <1>0, <1>7 DEF FindNoProvider
  <2>2. PICK g \in AfterError(exec[c], "no provider") : Frame(c, g)
    BY <1>7 DEF FindNoProvider
  <2>. QED
    BY <1>3, <2>1, <2>2, AfterErrorKeeps DEF Errors
<1>8. ASSUME NEW c \in Calls, Return(c) PROVE FramesInv'
  BY <1>3, <1>8, NoFrameIsSound DEF Return
<1>9. ASSUME NEW c \in Calls, Request(c) PROVE FramesInv'
  <2>1. PICK f \in SoundFrames : f = exec[c] /\ f.pc = "complete"
    BY <1>0, <1>9 DEF Request
  <2>2. f \in Frames /\ Accounted(f) /\ f.asked \in Nat /\ f.attempt \in Nat
    BY DEF SoundFrames, Frames
  <2>3. PICK k \in Nat : k = f.asked + 1
    BY <2>2
  <2>4. PICK g : exec' = [exec EXCEPT ![c] = g] /\ g = [f EXCEPT !.pc = "asking", !.asked = k]
    BY <1>0, <1>9, <2>1, <2>2, <2>3 DEF Request
  <2>5. g \in Frames
    BY <2>2, <2>4 DEF Frames
  <2>6. /\ g.pc = "asking" /\ g.answer = f.answer /\ g.node = f.node
        /\ g.policy = f.policy /\ g.attempt = f.attempt /\ g.asked = k
    BY <2>2, <2>4 DEF Frames
  <2>7. Accounted(g)
    BY <2>1, <2>2, <2>3, <2>6 DEF Accounted, Made
  <2>8. g \in SoundFrames
    BY <2>5, <2>7 DEF SoundFrames
  <2>9. \A d \in Calls \ {c} : call'[d] = call[d]
    BY <1>0, <1>9 DEF Request, Resolve, TypeOK
  <2>. QED
    BY <2>4, <2>6, <2>8, <2>9, FrameReplaced
<1>10. ASSUME NEW c \in Calls, CallEnds(c), UNCHANGED exec PROVE FramesInv'
  <2>1. \A d \in Calls : call'[d].pc # "idle" => call[d].pc # "idle"
    BY <1>0, <1>10 DEF CallEnds, TypeOK
  <2>. QED
    BY <1>10, <2>1 DEF FramesInv
<1>11. ASSUME NEW c \in Calls, call[c].pc = "record", RecordCall(c)
       PROVE  /\ \A d \in Calls : call'[d] = IF d = c THEN Idle ELSE call[d]
              /\ exec[c] \in SoundFrames /\ exec[c].pc = "asking"
              /\ NameOf[call[c].at] \in Names
  BY <1>0, <1>11, RouterAssumption DEF RecordCall, TypeOK, FramesInv, Inv, WorkersOK
<1>12. ASSUME NEW c \in Calls, TakeRefusal(c) PROVE FramesInv'
  <2>1. call[c].pc = "record" /\ RecordCall(c)
    BY <1>12 DEF TakeRefusal
  <2>2. PICK f \in SoundFrames : f = exec[c] /\ f.pc = "asking" /\ f.strikes \in Nat
    BY <1>11, <2>1 DEF SoundFrames, Frames
  <2>3. PICK n \in Names, s \in Nat : /\ n = NameOf[call[c].at]
                                        /\ s = IF f.to = n THEN f.strikes + 1 ELSE 1
    BY <1>11, <2>1, <2>2
  <2>4. PICK h : h = WithStrikes(f, n, s)
    OBVIOUS
  <2>5. h \in SoundFrames /\ h.pc = "asking"
    BY <2>2, <2>4, StruckFrame
  <2>6. f \in Frames
    BY DEF SoundFrames
  <2>7. h = [exec[c] EXCEPT !.to = NameOf[call[c].at],
                            !.strikes = IF exec[c].to = NameOf[call[c].at] THEN @ + 1 ELSE 1]
    BY <2>2, <2>3, <2>4, <2>6 DEF Frames, WithStrikes
  <2>8. PICK g \in AfterError(h, "refused") : exec' = [exec EXCEPT ![c] = g]
    BY <1>12, <2>7 DEF TakeRefusal
  <2>9. g \in SoundFrames
    BY <2>5, <2>8, AfterErrorKeeps DEF Errors
  <2>10. /\ \A d \in Calls \ {c} : call'[d].pc # "idle" => call[d].pc # "idle"
         /\ call'[c].pc = "idle"
    BY <1>11, <2>1 DEF Idle
  <2>. QED
    BY <2>8, <2>9, <2>10, FrameReplaced
<1>13. ASSUME NEW c \in Calls, TakeAnswer(c) PROVE FramesInv'
  <2>1. call[c].pc = "record" /\ RecordCall(c)
    BY <1>13 DEF TakeAnswer
  <2>2. PICK frames : frames = Forgiven(NameOf[call[c].at])
    OBVIOUS
  <2>3. frames \in [Calls -> SoundFrames] /\ \A d \in Calls : frames[d].pc = exec[d].pc
    <3>1. \A d \in Calls : frames[d] \in SoundFrames /\ frames[d].pc = exec[d].pc
      BY <1>0, <2>2, ForgivenFrames
    <3>. QED
      BY <2>2, <3>1 DEF Forgiven
  <2>4. PICK f \in SoundFrames : f = frames[c] /\ f.pc = "asking"
    BY <1>11, <2>1, <2>3
  <2>5. PICK g : /\ exec' = [frames EXCEPT ![c] = g]
                 /\ g \in {Answered(f, "ok"), Answered(f, "panic")} \union AfterError(f, "unparseable")
    BY <1>13, <2>2, <2>4 DEF TakeAnswer
  <2>6. g \in SoundFrames
    BY <2>4, <2>5, AfterErrorKeeps, AnsweredFrame DEF Errors
  <2>7. exec' \in [Calls -> SoundFrames] /\ \A d \in Calls \ {c} : exec'[d].pc = exec[d].pc
    BY <2>3, <2>5, <2>6
  <2>. QED
    BY <1>11, <2>1, <2>7 DEF FramesInv, Idle
<1>14. CASE UNCHANGED attempting
  BY <1>2, <1>14 DEF attempting, vars
<1>15. ASSUME NEW c \in Calls, Executing(c) PROVE FramesInv'
  BY <1>5, <1>6, <1>7, <1>8, <1>9, <1>10, <1>12, <1>13, <1>15 DEF Executing
<1>16. CASE \E i \in Instances : Register(i) /\ exec' = Forgiven(NameOf[i])
  BY <1>1, <1>16 DEF Register
<1>17. CASE RunHealthChecks /\ UNCHANGED exec
  BY <1>2, <1>17 DEF RunHealthChecks
<1>18. CASE \E n \in Names, ok \in BOOLEAN : HealthCheck(n, ok) /\ UNCHANGED exec
  BY <1>2, <1>18 DEF HealthCheck
<1>19. CASE \E n \in Names : RecordProbe(n) /\ exec' = IF probe[n].ok THEN Forgiven(n) ELSE exec
  BY <1>1, <1>2, <1>19 DEF RecordProbe
<1>. QED
  BY <1>4, <1>14, <1>15, <1>16, <1>17, <1>18, <1>19 DEF AttemptsNext

\* Frames and delays keep their types, durations that wrap included,
THEOREM AttemptsTypeCorrect == AttemptsSpec => []AttemptsTypeOK
<1>1. Inv /\ FramesInv => AttemptsTypeOK
  BY DEF Inv, FramesInv, SoundFrames, AttemptsTypeOK
<1>. QED
  BY <1>1, FramesInit, FramesNext, RouterInAttempts, PTL DEF AttemptsSpec

\* and an Execute answers what it did: no more requests than attempts, none for
\* rules, "exhausted" only after the last attempt and an error the policy names,
\* or when it allows no attempt, no wait beyond the cap and a jitter.
THEOREM AttemptsAreAllAccounted == AttemptsSpec => []AttemptsAreAccounted
<1>1. ASSUME Inv, FramesInv PROVE AttemptsAreAccounted
  <2>. SUFFICES ASSUME NEW c \in Calls, NEW f \in SoundFrames, f = exec[c]
                PROVE  /\ f.asked <= IF Allowed(f.node) THEN f.attempt ELSE 0
                       /\ f.attempt <= f.policy.max \/ f.policy.max = 0
                       /\ f.answer = "exhausted" =>
                            \/ f.attempt = f.policy.max /\ f.last \in f.policy.retryOn
                            \/ f.policy.max = 0 /\ f.last = "none" /\ f.asked = 0
                       /\ f.answer \in Errors <=>
                            f.pc = "answered" /\ f.last \notin f.policy.retryOn /\ f.answer = f.last
                       /\ f.pc = "wait" => f.delay <= f.policy.cap + 999 /\ f.last \in f.policy.retryOn
    BY <1>1 DEF FramesInv, AttemptsAreAccounted
  <2>1. /\ f \in Frames /\ Accounted(f) /\ f.attempt \in Nat /\ f.asked \in Nat
        /\ f.last \in Errors \union {"none"}
    BY DEF SoundFrames, Frames
  <2>2. f.asked <= IF Allowed(f.node) THEN f.attempt ELSE 0
    BY <2>1 DEF Accounted, Made
  <2>. QED
    BY <2>1, <2>2 DEF Accounted, Errors
<1>. QED
  BY <1>1, FramesInit, FramesNext, RouterInAttempts, PTL DEF AttemptsSpec
----
(* Strikes *)

\* The refusals an Execute has seen in a row are failures in a row of the
\* provider, and one it is asking has room for another.
Struck(c) ==
  /\ exec[c].strikes <= 3
  /\ exec[c].strikes > 0 =>
       exec[c].to \in Names /\ exec[c].strikes <= health[exec[c].to].failures

Room(c) ==
  call[c].pc # "idle" /\ exec[c].to = NameOf[call[c].at] => exec[c].strikes <= 2

StrikesInv == \A c \in Calls : Struck(c) /\ Room(c)

\* What the other invariants say of a state, for the steps of this one.
Typed == Inv /\ FramesInv

LEMMA TypedFacts ==
  ASSUME Typed
  PROVE  /\ TypeOK /\ exec \in [Calls -> SoundFrames]
         /\ \A c \in Calls : exec[c] \in Frames /\ exec[c].strikes \in Nat
         /\ \A k \in Names : health[k].failures \in Nat
<1>1. TypeOK /\ exec \in [Calls -> SoundFrames]
  BY DEF Typed, Inv, FramesInv
<1>2. \A f \in SoundFrames : f \in Frames /\ f.strikes \in Nat
  BY DEF SoundFrames, Frames
<1>3. \A k \in Names : health[k].failures \in Nat
  BY <1>1 DEF TypeOK
<1>. QED
  BY <1>1, <1>2, <1>3

LEMMA FailuresStayNumbers ==
  ASSUME Typed' PROVE \A k \in Names : health'[k].failures \in Nat
  BY DEF Typed, Inv, TypeOK

\* No record but the one of the name changes, a success or a failure.
LEMMA RecordEffect ==
  ASSUME TypeOK, NEW n \in Names, NEW ok \in BOOLEAN, Record(n, ok)
  PROVE  /\ \A k \in Names : k # n => health'[k] = health[k]
         /\ ~ok => \/ health'[n].failures = health[n].failures + 1
                   \/ health'[n].failures >= 3 /\ health'[n].failures >= health[n].failures
<1>1. health[n] \in HealthRecords /\ \A k \in Names : k # n => health'[k] = health[k]
  BY DEF TypeOK, HealthRecords, Record
<1>2. ASSUME ~ok
      PROVE  health'[n].failures = Capped(health[n].failures + 1)
  BY <1>2 DEF TypeOK, Record, recordFailure
<1>3. MaxFailures \in Nat /\ MaxFailures >= 3 /\ health[n].failures \in 0 .. MaxFailures
  BY <1>1, RouterAssumption DEF HealthRecords
<1>. QED
  BY <1>1, <1>2, <1>3 DEF Capped

\* A frame stays sound while its strikes do not grow nor the failures drop
\* that they are counted among, and while no call begins.
LEMMA StrikesStay ==
  ASSUME Typed, Typed', StrikesInv, NEW c \in Calls,
         \/ exec'[c].strikes = 0
         \/ /\ exec'[c].to = exec[c].to /\ exec'[c].strikes = exec[c].strikes
            /\ \A k \in Names : k = exec[c].to => health'[k].failures >= health[k].failures,
         call'[c].pc # "idle" => call[c].pc # "idle" /\ call'[c].at = call[c].at
  PROVE  Struck(c)' /\ Room(c)'
<1>1. Struck(c) /\ Room(c) /\ exec[c].strikes \in Nat
  BY TypedFacts DEF StrikesInv
<1>2. CASE exec'[c].strikes = 0
  BY <1>2 DEF Struck, Room
<1>3. CASE exec'[c].strikes # 0
  <2>1. /\ exec'[c].to = exec[c].to /\ exec'[c].strikes = exec[c].strikes
        /\ \A k \in Names : k = exec[c].to => health'[k].failures >= health[k].failures
    BY <1>3
  <2>2. exec[c].strikes > 0
    BY <1>1, <1>3, <2>1
  <2>3. exec[c].to \in Names /\ exec[c].strikes <= health[exec[c].to].failures
    BY <1>1, <2>2 DEF Struck
  <2>4. health'[exec[c].to].failures >= health[exec[c].to].failures
    BY <2>1, <2>3
  <2>5. health[exec[c].to].failures \in Nat /\ health'[exec[c].to].failures \in Nat
    BY <2>3, TypedFacts, FailuresStayNumbers
  <2>6. exec[c].strikes <= health'[exec[c].to].failures
    BY <1>1, <2>3, <2>4, <2>5
  <2>7. Struck(c)'
    BY <1>1, <2>1, <2>3, <2>6 DEF Struck
  <2>8. Room(c)'
    BY <1>1, <2>1 DEF Room
  <2>. QED
    BY <2>7, <2>8
<1>. QED
  BY <1>2, <1>3

\* No frame has been struck at first,
LEMMA StrikesInit == AttemptsInit => StrikesInv
  BY NoFrameIsSound DEF AttemptsInit, StrikesInv, Struck, Room

\* a step of the frame alone keeps the strikes,
LEMMA FrameKeeps ==
  ASSUME Typed, Typed', StrikesInv, NEW c \in Calls, NEW g, Frame(c, g),
         g.strikes = 0 \/ (g.to = exec[c].to /\ g.strikes = exec[c].strikes)
  PROVE  StrikesInv'
<1>1. exec' = [exec EXCEPT ![c] = g] /\ health' = health /\ call' = call
  BY DEF Frame, vars, router
<1>2. ASSUME NEW d \in Calls PROVE Struck(d)' /\ Room(d)'
  <2>1. \/ exec'[d].strikes = 0
        \/ exec'[d].to = exec[d].to /\ exec'[d].strikes = exec[d].strikes
    BY <1>1, TypedFacts
  <2>2. \A k \in Names : health'[k].failures >= health[k].failures
    BY <1>1, TypedFacts
  <2>. QED
    BY <1>1, <2>1, <2>2, StrikesStay
<1>. QED
  BY <1>2 DEF StrikesInv

\* so does one of the router alone that records nothing and begins no call,
LEMMA RouterKeeps ==
  ASSUME Typed, Typed', StrikesInv, exec' = exec, health' = health,
         \A d \in Calls : call'[d].pc # "idle" => call[d].pc # "idle" /\ call'[d].at = call[d].at
  PROVE  StrikesInv'
<1>1. ASSUME NEW d \in Calls PROVE Struck(d)' /\ Room(d)'
  <2>1. \A k \in Names : health'[k].failures >= health[k].failures
    BY TypedFacts
  <2>. QED
    BY <2>1, StrikesStay
<1>. QED
  BY <1>1 DEF StrikesInv

\* one that forgives a provider, and may end an Execute's request,
LEMMA ForgivingKeeps ==
  ASSUME Typed, Typed', StrikesInv, NEW n \in Names,
         \A k \in Names : k # n => health'[k] = health[k],
         \A d \in Calls : \/ exec'[d].strikes = 0
                          \/ /\ exec'[d].to = exec[d].to /\ exec'[d].strikes = exec[d].strikes
                             /\ exec[d].to # n,
         \A d \in Calls : call'[d].pc # "idle" => call[d].pc # "idle" /\ call'[d].at = call[d].at
  PROVE  StrikesInv'
<1>1. ASSUME NEW d \in Calls PROVE Struck(d)' /\ Room(d)'
  <2>1. \A k \in Names : k # n => health'[k].failures >= health[k].failures
    BY TypedFacts
  <2>. QED
    BY <2>1, StrikesStay
<1>. QED
  BY <1>1 DEF StrikesInv

LEMMA OnlyForgivingKeeps ==
  ASSUME Typed, Typed', StrikesInv, NEW n \in Names, exec' = Forgiven(n), call' = call,
         \A k \in Names : k # n => health'[k] = health[k]
  PROVE  StrikesInv'
<1>1. ASSUME NEW d \in Calls
      PROVE  \/ exec'[d].strikes = 0
             \/ /\ exec'[d].to = exec[d].to /\ exec'[d].strikes = exec[d].strikes
                /\ exec[d].to # n
  BY TypedFacts, ForgivenFrames
<1>. QED
  BY <1>1, ForgivingKeeps

\* a failed probe, which only adds to the failures,
LEMMA ProbeKeepsStrikes ==
  ASSUME Typed, Typed', StrikesInv, NEW n \in Names, RecordProbe(n),
         exec' = IF probe[n].ok THEN Forgiven(n) ELSE exec
  PROVE  StrikesInv'
<1>1. probe[n].ok \in BOOLEAN /\ Record(n, probe[n].ok) /\ call' = call
  BY TypedFacts DEF RecordProbe, TypeOK
<1>2. \A k \in Names : k # n => health'[k] = health[k]
  BY <1>1, TypedFacts, RecordEffect
<1>3. CASE probe[n].ok
  BY <1>1, <1>2, <1>3, OnlyForgivingKeeps
<1>4. CASE ~probe[n].ok
  <2>1. /\ health[n].failures \in Nat
        /\ \/ health'[n].failures = health[n].failures + 1
           \/ health'[n].failures >= 3 /\ health'[n].failures >= health[n].failures
    BY <1>1, <1>4, TypedFacts, RecordEffect
  <2>2. ASSUME NEW k \in Names PROVE health'[k].failures >= health[k].failures
    BY <1>2, <2>1, TypedFacts
  <2>3. ASSUME NEW d \in Calls PROVE Struck(d)' /\ Room(d)'
    BY <1>1, <1>4, <2>2, StrikesStay
  <2>. QED
    BY <2>3 DEF StrikesInv
<1>. QED
  BY <1>3, <1>4

\* a request, which goes to a provider that is not offline,
LEMMA RequestKeepsStrikes ==
  ASSUME Typed, Typed', StrikesInv, NEW c \in Calls, Request(c)
  PROVE  StrikesInv'
<1>1. call[c].pc = "idle" /\ health' = health
  BY DEF Request, Resolve, router
<1>2. PICK i \in resolveProvider(Model) : call' = [call EXCEPT ![c] = Asking(i)]
  BY DEF Request, Resolve
<1>3. i \in Instances /\ NameOf[i] \in Names /\ ~Offline(NameOf[i])
  <2>1. Registered \subseteq Instances /\ (PrimaryOk(Model) => modelMap[Model] \in Instances)
    BY AttemptsAssumption, TypedFacts DEF Registered, PrimaryOk, TypeOK
  <2>2. i \in Eligible \/ (PrimaryOk(Model) /\ i = modelMap[Model])
    <3>1. CASE PrimaryOk(Model)
      BY <1>2, <3>1 DEF resolveProvider
    <3>2. CASE ~PrimaryOk(Model) /\ Advertising(Model) # {}
      BY <1>2, <3>2 DEF resolveProvider, Advertising
    <3>3. CASE ~PrimaryOk(Model) /\ Advertising(Model) = {}
      BY <1>2, <3>3 DEF resolveProvider
    <3>. QED
      BY <3>1, <3>2, <3>3
  <2>3. i \in Instances /\ ~Offline(NameOf[i])
    BY <2>1, <2>2 DEF Eligible, PrimaryOk
  <2>. QED
    BY <2>3, RouterAssumption
<1>4. health[NameOf[i]].failures <= 2
  BY <1>3, TypedFacts DEF Typed, Inv, StatusFollowsFailures
<1>5. PICK f \in Frames : f = exec[c] /\ f.strikes \in Nat
  BY TypedFacts
<1>6. /\ \A d \in Calls \ {c} : exec'[d] = exec[d] /\ call'[d] = call[d]
      /\ exec'[c].to = f.to /\ exec'[c].strikes = f.strikes
  <2>1. exec' = [exec EXCEPT ![c] = [f EXCEPT !.pc = "asking", !.asked = f.asked + 1]]
    BY <1>5, TypedFacts DEF Request
  <2>2. exec'[c] = [f EXCEPT !.pc = "asking", !.asked = f.asked + 1]
    BY <2>1, TypedFacts
  <2>3. exec'[c].to = f.to /\ exec'[c].strikes = f.strikes
    BY <2>2 DEF Frames
  <2>4. \A d \in Calls \ {c} : exec'[d] = exec[d] /\ call'[d] = call[d]
    BY <1>2, <2>1, TypedFacts DEF TypeOK
  <2>. QED
    BY <2>3, <2>4
<1>7. ASSUME NEW d \in Calls, d # c PROVE Struck(d)' /\ Room(d)'
  <2>1. \A k \in Names : health'[k].failures >= health[k].failures
    BY <1>1, TypedFacts
  <2>. QED
    BY <1>6, <1>7, <2>1, StrikesStay
<1>8. Struck(c)'
  BY <1>1, <1>5, <1>6 DEF StrikesInv, Struck
<1>9. Room(c)'
  <2>1. call'[c].at = i
    BY <1>2, TypedFacts DEF TypeOK, Asking
  <2>2. Struck(c) /\ health[NameOf[i]].failures \in Nat
    BY <1>3, TypedFacts DEF StrikesInv
  <2>3. f.to = NameOf[i] => f.strikes <= 2
    BY <1>4, <1>5, <2>2 DEF Struck
  <2>. QED
    BY <1>6, <2>1, <2>3 DEF Room
<1>. QED
  BY <1>7, <1>8, <1>9 DEF StrikesInv

\* What the end of a request does to the router.
LEMMA RecordCallEffect ==
  ASSUME Typed, NEW c \in Calls, RecordCall(c), NEW n, n = NameOf[call[c].at]
  PROVE  /\ n \in Names /\ call[c].ok \in BOOLEAN /\ Record(n, call[c].ok)
         /\ \A d \in Calls \ {c} : call'[d] = call[d]
         /\ call'[c].pc = "idle"
         /\ exec[c].pc = "asking" /\ call[c].pc # "idle"
<1>1. TypeOK /\ call[c].pc = "record" /\ exec[c].pc = "asking"
  BY TypedFacts DEF RecordCall, Typed, FramesInv
<1>2. call[c].at \in Instances
  BY <1>1 DEF Typed, Inv, WorkersOK
<1>3. call' = [call EXCEPT ![c] = Idle] /\ Record(n, call[c].ok)
  BY DEF RecordCall
<1>. QED
  BY <1>1, <1>2, <1>3, RouterAssumption DEF TypeOK, Idle

\* a refusal, for which there was room,
LEMMA RefusalKeepsStrikes ==
  ASSUME Typed, Typed', StrikesInv, NEW c \in Calls, TakeRefusal(c)
  PROVE  StrikesInv'
<1>1. PICK n : n = NameOf[call[c].at]
  OBVIOUS
<1>2. /\ n \in Names /\ Record(n, FALSE) /\ call[c].pc # "idle" /\ exec[c].pc = "asking"
      /\ \A d \in Calls \ {c} : call'[d] = call[d]
      /\ call'[c].pc = "idle"
  BY <1>1, RecordCallEffect DEF TakeRefusal, Record
<1>3. /\ \A k \in Names : k # n => health'[k] = health[k]
      /\ \/ health'[n].failures = health[n].failures + 1
         \/ health'[n].failures >= 3 /\ health'[n].failures >= health[n].failures
  BY <1>2, TypedFacts, RecordEffect
<1>4. \A k \in Names : health[k].failures \in Nat /\ health'[k].failures \in Nat
  BY TypedFacts, FailuresStayNumbers
<1>5. PICK f \in SoundFrames : f = exec[c] /\ f \in Frames /\ f.strikes \in Nat
  BY TypedFacts
<1>6. PICK s \in Nat : s = IF f.to = n THEN f.strikes + 1 ELSE 1
  BY <1>5
<1>7. s <= 3 /\ s <= health'[n].failures
  <2>1. Struck(c) /\ Room(c)
    BY DEF StrikesInv
  <2>2. f.to = n => f.strikes <= 2
    BY <1>1, <1>2, <1>5, <2>1 DEF Room
  <2>3. f.to = n => f.strikes = 0 \/ f.strikes <= health[n].failures
    BY <1>5, <2>1 DEF Struck
  <2>4. health[n].failures \in Nat /\ health'[n].failures \in Nat
    BY <1>2, <1>4
  <2>. QED
    BY <1>3, <1>5, <1>6, <2>2, <2>3, <2>4
<1>8. PICK h : h = WithStrikes(f, n, s)
  OBVIOUS
<1>9. h \in SoundFrames /\ h.pc = "asking" /\ h.to = n /\ h.strikes = s
  BY <1>2, <1>5, <1>8, StruckFrame
<1>10. PICK g \in AfterError(h, "refused") : exec' = [exec EXCEPT ![c] = g]
  <2>1. h = [exec[c] EXCEPT !.to = n, !.strikes = IF exec[c].to = n THEN @ + 1 ELSE 1]
    BY <1>5, <1>6, <1>8 DEF Frames, WithStrikes
  <2>. QED
    BY <1>1, <2>1 DEF TakeRefusal
<1>11. g.to = n /\ g.strikes = s
  BY <1>9, <1>10, AfterErrorKeeps DEF Errors
<1>12. exec'[c] = g /\ \A d \in Calls \ {c} : exec'[d] = exec[d]
  BY <1>10, TypedFacts
<1>13. ASSUME NEW d \in Calls, d # c PROVE Struck(d)' /\ Room(d)'
  <2>1. ASSUME NEW k \in Names PROVE health'[k].failures >= health[k].failures
    BY <1>3, <1>4
  <2>. QED
    BY <1>2, <1>12, <1>13, <2>1, StrikesStay
<1>14. Struck(c)' /\ Room(c)'
  BY <1>2, <1>7, <1>11, <1>12 DEF Struck, Room
<1>. QED
  BY <1>13, <1>14 DEF StrikesInv

\* and an answer, which forgives.
LEMMA AnswerKeepsStrikes ==
  ASSUME Typed, Typed', StrikesInv, NEW c \in Calls, TakeAnswer(c)
  PROVE  StrikesInv'
<1>1. PICK n : n = NameOf[call[c].at]
  OBVIOUS
<1>2. /\ n \in Names /\ Record(n, TRUE) /\ exec[c].pc = "asking"
      /\ \A d \in Calls \ {c} : call'[d] = call[d]
      /\ call'[c].pc = "idle"
  BY <1>1, RecordCallEffect DEF TakeAnswer, Record
<1>3. \A k \in Names : k # n => health'[k] = health[k]
  BY <1>2, TypedFacts, RecordEffect
<1>4. \A d \in Calls :
        /\ Forgiven(n)[d] \in SoundFrames /\ Forgiven(n)[d].pc = exec[d].pc
        /\ \/ Forgiven(n)[d].strikes = 0
           \/ Forgiven(n)[d] = exec[d] /\ exec[d].to # n
  BY TypedFacts, ForgivenFrames
<1>5. PICK f \in SoundFrames : f = Forgiven(n)[c] /\ f.pc = "asking"
  BY <1>2, <1>4
<1>6. PICK g : /\ exec' = [Forgiven(n) EXCEPT ![c] = g]
               /\ g \in {Answered(f, "ok"), Answered(f, "panic")} \union AfterError(f, "unparseable")
  BY <1>1, <1>5 DEF TakeAnswer
<1>7. g.to = f.to /\ g.strikes = f.strikes
  <2>1. "unparseable" \in Errors
    BY DEF Errors
  <2>2. CASE g \in AfterError(f, "unparseable")
    BY <1>5, <2>1, <2>2, AfterErrorKeeps
  <2>3. CASE g = Answered(f, "ok") \/ g = Answered(f, "panic")
    BY <1>5, <2>3, AnsweredFrame
  <2>. QED
    BY <1>6, <2>2, <2>3
<1>8. \A d \in Calls : exec'[d] = IF d = c THEN g ELSE Forgiven(n)[d]
  BY <1>6 DEF Forgiven
<1>9. ASSUME NEW d \in Calls
      PROVE  \/ exec'[d].strikes = 0
             \/ /\ exec'[d].to = exec[d].to /\ exec'[d].strikes = exec[d].strikes
                /\ exec[d].to # n
  BY <1>4, <1>5, <1>7, <1>8
<1>10. \A d \in Calls : call'[d].pc # "idle" => call[d].pc # "idle" /\ call'[d].at = call[d].at
  BY <1>2
<1>. QED
  BY <1>2, <1>3, <1>9, <1>10, ForgivingKeeps

LEMMA StrikesNext == Typed /\ Typed' /\ StrikesInv /\ [AttemptsNext]_attempting => StrikesInv'
<1>. SUFFICES ASSUME Typed, Typed', StrikesInv, [AttemptsNext]_attempting PROVE StrikesInv'
  OBVIOUS
<1>0. TypeOK /\ \A c \in Calls : exec[c] \in SoundFrames /\ exec[c] \in Frames
  BY TypedFacts
<1>1. ASSUME NEW i \in Instances, Register(i), exec' = Forgiven(NameOf[i]) PROVE StrikesInv'
  <2>1. NameOf[i] \in Names
    BY RouterAssumption
  <2>2. \A k \in Names : k # NameOf[i] => health'[k] = health[k]
    BY <1>0, <1>1 DEF Register, TypeOK
  <2>. QED
    BY <1>1, <2>1, <2>2, OnlyForgivingKeeps DEF Register
<1>2. ASSUME RunHealthChecks \/ \E n \in Names, ok \in BOOLEAN : HealthCheck(n, ok), UNCHANGED exec
      PROVE  StrikesInv'
  BY <1>2, RouterKeeps DEF RunHealthChecks, HealthCheck, router
<1>3. ASSUME NEW c \in Calls, NEW node \in Nodes, NEW policy \in Policies \union {DefaultPolicy},
             StartExecute(c, node, policy)
      PROVE  StrikesInv'
  <2>1. PICK g : /\ Frame(c, g)
                 /\ g \in {Answered(Fresh(node, policy), "exhausted"),
                           [Fresh(node, policy) EXCEPT !.pc = "attempt"]}
    BY <1>3 DEF StartExecute
  <2>2. g.strikes = 0
    BY <2>1 DEF Answered, Fresh
  <2>. QED
    BY <2>1, <2>2, FrameKeeps
<1>4. ASSUME NEW c \in Calls, EndWait(c) PROVE StrikesInv'
  <2>1. PICK f \in Frames : f = exec[c]
    BY <1>0
  <2>2. PICK g : Frame(c, g) /\ g \in {[f EXCEPT !.pc = "attempt", !.delay = 0], Answered(f, "cancelled")}
    BY <1>4, <2>1 DEF EndWait
  <2>3. g.to = f.to /\ g.strikes = f.strikes
    BY <2>2 DEF Answered, Frames
  <2>. QED
    BY <2>1, <2>2, <2>3, FrameKeeps
<1>5. ASSUME NEW c \in Calls, GetDefinition(c) \/ FindNoProvider(c) PROVE StrikesInv'
  <2>1. PICK f \in SoundFrames : f = exec[c] /\ f \in Frames /\ f.pc \in {"attempt", "complete"}
    BY <1>0, <1>5 DEF GetDefinition, FindNoProvider
  <2>2. PICK g : /\ Frame(c, g)
                 /\ \/ \E e \in Errors : g \in AfterError(f, e)
                    \/ g \in {[f EXCEPT !.pc = "complete"], Answered(f, "ok")}
    BY <1>5, <2>1 DEF GetDefinition, FindNoProvider, Errors
  <2>3. g.to = f.to /\ g.strikes = f.strikes
    <3>1. CASE \E e \in Errors : g \in AfterError(f, e)
      BY <2>1, <3>1, AfterErrorKeeps
    <3>2. CASE g \in {[f EXCEPT !.pc = "complete"], Answered(f, "ok")}
      BY <2>1, <3>2 DEF Answered, Frames
    <3>. QED
      BY <2>2, <3>1, <3>2
  <2>. QED
    BY <2>1, <2>2, <2>3, FrameKeeps
<1>6. ASSUME NEW c \in Calls, CallEnds(c), UNCHANGED exec PROVE StrikesInv'
  <2>1. \A d \in Calls : call'[d].pc # "idle" => call[d].pc # "idle" /\ call'[d].at = call[d].at
    BY <1>0, <1>6 DEF CallEnds, TypeOK
  <2>. QED
    BY <1>6, <2>1, RouterKeeps DEF CallEnds, router
<1>7. ASSUME NEW c \in Calls, Return(c) PROVE StrikesInv'
  BY <1>7, NoFrameIsSound, FrameKeeps DEF Return
<1>8. CASE UNCHANGED attempting
  BY <1>8, RouterKeeps DEF attempting, vars, router
<1>. QED
  BY <1>1, <1>2, <1>3, <1>4, <1>5, <1>6, <1>7, <1>8, ProbeKeepsStrikes, RequestKeepsStrikes,
     RefusalKeepsStrikes, AnswerKeepsStrikes DEF AttemptsNext, Executing

\* A provider refuses an Execute three times in a row at most, whatever others
\* record of it meanwhile, for any policy and any number of goroutines.
THEOREM ThreeStrikesHold == AttemptsSpec => []ThreeStrikes
<1>1. StrikesInv => ThreeStrikes
  BY DEF StrikesInv, Struck, ThreeStrikes
<1>2. Inv /\ FramesInv <=> Typed
  BY DEF Typed
<1>3. AttemptsSpec => []Typed
  BY <1>2, FramesInit, FramesNext, RouterInAttempts, PTL DEF AttemptsSpec
<1>. QED
  BY <1>1, <1>3, StrikesInit, StrikesNext, PTL DEF AttemptsSpec
====
