---- MODULE Clock ----
(***************************************************************************)
(* The time the stores read, from Postgres and from the process alike.     *)
(***************************************************************************)
EXTENDS Naturals

CONSTANTS MaxTime     \* bound: where the clock stops

ASSUME ClockAssumption == MaxTime \in Nat

VARIABLES now

Never == 0     \* a time that is NULL; the clock starts after it

ClockInit == now = 1

Tick == now < MaxTime /\ now' = now + 1

Past(t) == t # Never /\ t <= now     \* for expires_at, where NULL never passes
====
