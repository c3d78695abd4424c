---- MODULE Snapshots ----
(***************************************************************************)
(* agentic/sessions, compress.go: snapshots of the state of a session, by  *)
(* savers that make the id from the second of their clock and then insert, *)
(* and LoadLatestCompressedState.  A snapshot is its place among all.      *)
(***************************************************************************)
EXTENDS Clock, Statements, Sequences, Integers

CONSTANTS
  Savers,         \* goroutines that save, one snapshot after the other
  Second,         \* how many units of the clock are in one second
  MaxSnapshots    \* bound: snapshots inserted

ASSUME SnapshotAssumption == Second \in Nat \ {0} /\ MaxSnapshots \in Nat

VARIABLES
  snapshots,   \* state_snapshots: a sequence of [second, at], the number in the
               \* id and created_at
  save,        \* Savers -> the snapshot about to be inserted, [second, made], with
               \* the time at which its id was made
  asOf         \* history: the latest time at which a snapshot was made whose saver
               \* was told that it is stored, or that its id is

saving == <<snapshots, save, asOf>>

NotSaving == [second |-> -1, made |-> Never]

SnapshotsInit == snapshots = <<>> /\ save = [s \in Savers |-> NotSaving] /\ asOf = Never

SnapshotsTypeOK ==
  /\ snapshots \in Seq([second : Nat, at : Nat])
  /\ save \in [Savers -> [second : Nat, made : Nat] \union {NotSaving}]
  /\ asOf \in Nat

\* The number of the id is time.Now().Unix().
MakeIdCoarse(s) ==
  /\ save[s] = NotSaving /\ Len(snapshots) < MaxSnapshots
  /\ save' = [save EXCEPT ![s] = [second |-> now \div (2 * Second), made |-> now]]
  /\ UNCHANGED <<snapshots, asOf>>
MakeId(s) ==
  /\ save[s] = NotSaving /\ Len(snapshots) < MaxSnapshots
  /\ save' = [save EXCEPT ![s] = [second |-> now \div Second, made |-> now]]
  /\ UNCHANGED <<snapshots, asOf>>

IdIsTaken(s) == \E i \in DOMAIN snapshots : snapshots[i].second = save[s].second

InsertSnapshot(s) ==
  /\ save[s] # NotSaving
  /\ \E o \in OutcomesIf(~IdIsTaken(s)) :    \* the primary key
       /\ snapshots' = IF o.applied
                       THEN Append(snapshots, [second |-> save[s].second, at |-> now])
                       ELSE snapshots
       /\ asOf' = IF (o.ok \/ IdIsTaken(s)) /\ save[s].made > asOf THEN save[s].made ELSE asOf
  /\ save' = [save EXCEPT ![s] = NotSaving]

\* ORDER BY created_at DESC LIMIT 1
LoadLatest == {i \in DOMAIN snapshots : \A j \in DOMAIN snapshots : snapshots[j].at <= snapshots[i].at}

SnapshotsNext == \E s \in Savers : MakeId(s) \/ InsertSnapshot(s)

\* The table by itself, and time.
SnapshotsSpec ==
  /\ ClockInit /\ SnapshotsInit
  /\ [][(SnapshotsNext /\ UNCHANGED now) \/ (Tick /\ UNCHANGED saving)]_<<now, saving>>

----
\* A save within the second of another is refused by the primary key, and savers
\* may insert in another order than they made their ids in.  Even so, once a save
\* was acknowledged or refused for its id, what is loaded was inserted after that
\* snapshot was made or less than a second before (compress.go:14, 20, 34).
LoadedIsRecent ==
  asOf # Never =>
    /\ snapshots # <<>>
    /\ \A i \in LoadLatest : snapshots[i].at + Second > asOf
====
