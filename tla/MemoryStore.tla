---- MODULE MemoryStore ----
(***************************************************************************)
(* agentic/memory: the items of one session under one type and key, which  *)
(* several goroutines Put, each with an UPDATE that supersedes and an      *)
(* INSERT, while the key is invalidated and items expire.  An item is its  *)
(* place among all that were inserted.                                     *)
(***************************************************************************)
EXTENDS Clock, Statements, Sequences, FiniteSets

CONSTANTS
  Writers,     \* goroutines that call Put, one call after the other
  Ttls,        \* the ttl arguments; 0 for none
  MaxItems     \* bound: items inserted

ASSUME MemoryAssumption == IsFiniteSet(Writers) /\ Ttls \subseteq Nat /\ MaxItems \in Nat

VARIABLES
  items,     \* agent_memory_items: a sequence of [current, at, until]
  put,       \* Writers -> [pc, until], the frames of Put
  raced,     \* history: a Put began during another, and none had the key for
             \* itself since to supersede what they left
  acked      \* history: the item of the last Put acknowledged, 0 once another
             \* has superseded it or it was invalidated

memory == <<items, put, raced, acked>>

NotPutting == [pc |-> "idle", until |-> Never]

MemoryTypeOK ==
  /\ items \in Seq([current : BOOLEAN, at : Nat, until : Nat])
  /\ put \in [Writers -> [pc : {"idle", "supersede", "insert"}, until : Nat]]
  /\ raced \in BOOLEAN /\ acked \in 0 .. Len(items)

MemoryInit ==
  /\ items = <<>> /\ raced = FALSE /\ acked = 0
  /\ put = [w \in Writers |-> NotPutting]

Putting == {w \in Writers : put[w].pc # "idle"}
Current == {i \in DOMAIN items : items[i].current}
Visible == {i \in Current : ~Past(items[i].until)}

\* The time of the expiry is taken before the statements.
StartPut(w, ttl) ==
  /\ put[w] = NotPutting /\ Len(items) < MaxItems
  /\ put' = [put EXCEPT ![w] = [pc |-> "supersede", until |-> IF ttl = 0 THEN Never ELSE now + ttl]]
  /\ raced' = (raced \/ Putting # {})
  /\ UNCHANGED <<items, acked>>

NoneUnexpired == [i \in DOMAIN items |-> [items[i] EXCEPT !.current = i \notin Visible /\ @]]
NoneCurrent == [i \in DOMAIN items |-> [items[i] EXCEPT !.current = FALSE]]

Supersede(w) ==
  /\ put[w].pc = "supersede"
  /\ \E o \in Outcomes :
       /\ IF o.applied
          THEN items' = NoneCurrent /\ acked' = 0 /\ raced' = (raced /\ Putting # {w})
          ELSE UNCHANGED <<items, acked, raced>>
       /\ put' = [put EXCEPT ![w] = IF o.ok THEN [@ EXCEPT !.pc = "insert"] ELSE NotPutting]

InsertItem(w) ==
  /\ put[w].pc = "insert"
  /\ \E o \in Outcomes :
       /\ items' = IF o.applied
                   THEN Append(items, [current |-> TRUE, at |-> now, until |-> put[w].until])
                   ELSE items
       /\ acked' = IF o.ok THEN Len(items) + 1 ELSE acked
  /\ put' = [put EXCEPT ![w] = NotPutting]
  /\ UNCHANGED raced

Invalidate == items' = NoneCurrent /\ acked' = 0 /\ UNCHANGED <<put, raced>>

\* ORDER BY created_at DESC LIMIT 1
GetOldest == {i \in Visible : \A j \in Visible : items[j].at >= items[i].at}
Get == {i \in Visible : \A j \in Visible : items[j].at <= items[i].at}

MemoryNext ==
  \/ \E w \in Writers : Supersede(w) \/ InsertItem(w) \/ \E ttl \in Ttls : StartPut(w, ttl)
  \/ Invalidate

\* The store by itself, and time.
MemorySpec ==
  /\ ClockInit /\ MemoryInit
  /\ [][(MemoryNext /\ UNCHANGED now) \/ (Tick /\ UNCHANGED memory)]_<<now, memory>>

----
\* "is_current then points only at the latest write" (memory.go:50), unless
\* Puts of the key overlap; the first one after them that has the key for
\* itself restores it, and a failed one breaks nothing.
LatestIsCurrent == ~raced => Current \subseteq {Len(items)}

\* However Puts overlap and whatever fails of them, no more items of the key are
\* current than there are goroutines that may put, expired ones included, and
\* one that is about to insert counts for the item to come (memory.go:52-63).
CurrentAreFew ==
  Cardinality(Current) + Cardinality({w \in Writers : put[w].pc = "insert"})
    <= Cardinality(Writers)

\* A value whose Put succeeded is what Get finds until it expires, is
\* superseded or is invalidated; one that another Put of the moment left
\* beside it can be found in its place only when it is not older.
AckedIsFound ==
  acked # 0 /\ ~Past(items[acked].until) =>
    /\ acked \in Visible
    /\ \A i \in Get : items[i].at >= items[acked].at
====
