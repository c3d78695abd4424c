---- MODULE EmbeddingSources ----
(***************************************************************************)
(* services/embeddings, MultiOllama: a local and a remote Ollama behind a  *)
(* field "primary" that every caller reads and writes without a lock.  A   *)
(* source answers a request or does not: its service, the network, the     *)
(* client's timeout.                                                       *)
(*                                                                         *)
(* An operator with the name of the one after it and a suffix is a faulty  *)
(* variant, for testing the properties.                                    *)
(***************************************************************************)
EXTENDS Naturals

CONSTANTS Callers     \* goroutines that call Generate or HealthCheck

Sources == {"local", "remote"}

VARIABLES
  primary,    \* the field; "nil" before the first health check
  gen         \* Callers -> the frame of Generate, with in "asked" the history
              \* of the sources it asked and in "raced" whether another call
              \* moved primary meanwhile

sources == <<primary, gen>>

GenPcs == {"idle", "begin", "health local", "health remote", "pick", "ask",
           "fall back", "again", "retry", "ok", "failed"}

SourcesTypeOK ==
  /\ primary \in Sources \union {"nil"}
  /\ gen \in [Callers -> [pc : GenPcs, at : Sources \union {"nil"}, probing : BOOLEAN,
                          asked : SUBSET Sources, raced : BOOLEAN]]

Resting == [pc |-> "idle", at |-> "nil", probing |-> FALSE, asked |-> {}, raced |-> FALSE]

SourcesInit == primary = "nil" /\ gen = [c \in Callers |-> Resting]

\* A caller starts a call, and takes its result.
Calls(c)  == gen[c] = Resting /\ gen' = [gen EXCEPT ![c].pc = "begin"]
Probes(c) == gen[c] = Resting /\ gen' = [gen EXCEPT ![c].pc = "health local", ![c].probing = TRUE]
Returns(c) == gen' = [gen EXCEPT ![c] = Resting]

GoesOn(c, pc) == gen' = [gen EXCEPT ![c].pc = pc] /\ UNCHANGED primary

\* primary = s, and c goes on at pc; the others have been raced.
Moves(c, s, pc) ==
  /\ primary' = s
  /\ gen' = [d \in Callers |->
               IF d = c THEN [gen[c] EXCEPT !.pc = pc]
               ELSE [gen[d] EXCEPT !.raced = @ \/ (gen[d].pc # "idle" /\ primary # s)]]

----
BeginGenerate(c) ==
  /\ gen[c].pc = "begin"
  /\ GoesOn(c, IF primary = "nil" THEN "health local" ELSE "pick")

\* HealthCheck, for a call of Generate or for itself.
Healthy(c, s) == Moves(c, s, IF gen[c].probing THEN "ok" ELSE "pick")

CheckLocal(c) ==
  /\ gen[c].pc = "health local"
  /\ \E ok \in BOOLEAN : IF ok THEN Healthy(c, "local") ELSE GoesOn(c, "health remote")

CheckRemote(c) ==
  /\ gen[c].pc = "health remote"
  /\ \E ok \in BOOLEAN : IF ok THEN Healthy(c, "remote") ELSE GoesOn(c, "failed")

\* The field is read for the first request, and read again for the second.
PickPrimary(c) ==
  /\ gen[c].pc \in {"pick", "again"}
  /\ gen' = [gen EXCEPT ![c].pc = IF @ = "pick" THEN "ask" ELSE "retry",
                        ![c].at = primary, ![c].asked = @ \union {primary}]
  /\ UNCHANGED primary

\* One request per text; the first that is refused ends it.
Ask(c) ==
  /\ gen[c].pc \in {"ask", "retry"}
  /\ \/ gen' = [gen EXCEPT ![c] = [Resting EXCEPT !.pc = "ok"]]
     \/ gen' = [gen EXCEPT ![c].pc = IF @ = "ask" THEN "fall back" ELSE "failed"]
  /\ UNCHANGED primary

\* primary is read again after the request: another call may have moved it.
FallBackToPrimary(c) ==
  /\ gen[c].pc = "fall back"
  /\ GoesOn(c, "failed")
FallBack(c) ==
  /\ gen[c].pc = "fall back"
  /\ \/ primary = "local" /\ Moves(c, "remote", "again")
     \/ primary # "local" /\ GoesOn(c, "failed")

Generating(c) ==
  \/ BeginGenerate(c) \/ CheckLocal(c) \/ CheckRemote(c)
  \/ PickPrimary(c) \/ Ask(c) \/ FallBack(c)

----
\* "MultiOllama tries local then remote" (ollama.go:91): a call that the local
\* source refused asks the remote one before it fails, unless another call
\* moved primary between its request and its look at the field (ollama.go:129).
FailsOver ==
  \A c \in Callers :
    gen[c].pc = "failed" /\ gen[c].asked = {"local"} => gen[c].raced
====
