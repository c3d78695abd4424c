---- MODULE StoreProofs ----
(***************************************************************************)
(* Memory, snapshots, the semantic cache and the reviews, each by itself,  *)
(* for any number of goroutines and of rows, any times to live and any     *)
(* failures of the statements; and that together, with the scan of the     *)
(* findings, they behave as each.                                          *)
(***************************************************************************)
EXTENDS MCStores, FindingsScanProofs, FiniteSetTheorems, TLAPS

----
(* Memory *)

Items == [current : BOOLEAN, at : Nat, until : Nat]
Puts  == [pc : {"idle", "supersede", "insert"}, until : Nat]

MemoryStep == (MemoryNext /\ UNCHANGED now) \/ (Tick /\ UNCHANGED memory)

Typed == MemoryTypeOK /\ now \in Nat

\* While no Puts race there is one at most, it has superseded everything when
\* it is about to insert, and otherwise the last item alone may be current.
Orderly ==
  ~raced =>
    /\ \A v, w \in Putting : v = w
    /\ Current \subseteq {Len(items)}
    /\ \A w \in Writers : put[w].pc = "insert" => Current = {}

\* Nothing has superseded what is held to be there.
AckedIsCurrent == acked # 0 => acked \in Current

MemoryInv == Typed /\ Orderly /\ AckedIsCurrent

\* What an UPDATE that supersedes leaves.
LEMMA NoneCurrentEmpties ==
  ASSUME MemoryTypeOK, items' = NoneCurrent
  PROVE  items' \in Seq(Items) /\ Len(items') = Len(items) /\ Current' = {}
<1>1. items \in Seq(Items)
  BY DEF MemoryTypeOK, Items
<1>2. DOMAIN items = 1 .. Len(items) /\ \A i \in DOMAIN items : items[i] \in Items
  BY <1>1
<1>3. /\ DOMAIN items' = 1 .. Len(items)
      /\ \A i \in 1 .. Len(items) : items'[i] \in Items /\ ~items'[i].current
  BY <1>2 DEF NoneCurrent, Items
<1>4. Len(items) \in Nat
  BY <1>1
<1>5. items' \in [1 .. Len(items) -> Items]
  BY <1>2, <1>3 DEF NoneCurrent
<1>6. items' \in Seq(Items) /\ Len(items') = Len(items)
  BY <1>4, <1>5
<1>7. Current' = {}
  BY <1>3 DEF Current
<1>. QED
  BY <1>6, <1>7

\* What an INSERT leaves: the current items of before and the new one.
LEMMA InsertAppends ==
  ASSUME MemoryTypeOK, NEW x \in Items, x.current, items' = Append(items, x)
  PROVE  /\ items' \in Seq(Items) /\ Len(items') = Len(items) + 1
         /\ Current' = Current \union {Len(items) + 1}
<1>1. items \in Seq(Items) /\ Len(items) \in Nat /\ DOMAIN items = 1 .. Len(items)
  BY DEF MemoryTypeOK, Items
<1>2. /\ items' \in Seq(Items) /\ Len(items') = Len(items) + 1
      /\ DOMAIN items' = 1 .. Len(items) + 1
      /\ \A i \in 1 .. Len(items) : items'[i] = items[i]
      /\ items'[Len(items) + 1] = x
  BY <1>1
<1>. QED
  BY <1>1, <1>2 DEF Current

\* The invariant holds of a key that has no item,
LEMMA MemoryInvInit == ClockInit /\ MemoryInit => MemoryInv
<1>. SUFFICES ASSUME ClockInit, MemoryInit PROVE MemoryInv
  OBVIOUS
<1>1. Typed
  <2>1. items = <<>> /\ raced = FALSE /\ acked = 0 /\ now = 1
        /\ put \in [Writers -> Puts]
    BY DEF MemoryInit, ClockInit, NotPutting, Never, Puts
  <2>2. items \in Seq(Items) /\ Len(items) = 0
    BY <2>1
  <2>3. acked \in 0 .. Len(items) /\ now \in Nat
    BY <2>1, <2>2
  <2>4. raced \in BOOLEAN
    BY <2>1
  <2>. QED
    BY <2>1, <2>2, <2>3, <2>4 DEF Typed, MemoryTypeOK, Items, Puts
<1>2. Orderly /\ AckedIsCurrent
  BY DEF Orderly, AckedIsCurrent, MemoryInit, Putting, Current, NotPutting
<1>. QED
  BY <1>1, <1>2 DEF MemoryInv

\* and every step keeps it.
LEMMA MemoryInvNext == MemoryInv /\ [MemoryStep]_<<now, memory>> => MemoryInv'
<1>. SUFFICES ASSUME MemoryInv, [MemoryStep]_<<now, memory>> PROVE MemoryInv'
  OBVIOUS
<1>. USE DEF MemoryInv
<1>1. ASSUME NEW w \in Writers, NEW ttl \in Ttls, StartPut(w, ttl), UNCHANGED now PROVE MemoryInv'
  <2>0. now \in Nat /\ (IF ttl = 0 THEN Never ELSE now + ttl) \in Nat
    BY MemoryAssumption DEF Never, Typed
  <2>1. PICK until \in Nat : put' = [put EXCEPT ![w] = [pc |-> "supersede", until |-> until]]
    BY <1>1, <2>0 DEF StartPut
  <2>2. Typed'
    BY <1>1, <2>1 DEF StartPut, Typed, MemoryTypeOK
  <2>3. Current' = Current /\ Putting' \subseteq Putting \union {w}
    BY <1>1, <2>1 DEF StartPut, Current, Putting, Typed, MemoryTypeOK
  <2>4. Orderly'
    <3>1. SUFFICES ASSUME ~raced' PROVE Orderly'
      BY DEF Orderly
    <3>2. ~raced /\ Putting = {} /\ items' = items
      BY <1>1, <3>1 DEF StartPut
    <3>3. \A v \in Writers : put'[v].pc # "insert"
      BY <2>1, <3>2 DEF Putting, Typed, MemoryTypeOK
    <3>. QED
      BY <2>3, <3>2, <3>3 DEF Orderly
  <2>5. AckedIsCurrent'
    BY <1>1, <2>3 DEF StartPut, AckedIsCurrent
  <2>. QED
    BY <2>2, <2>4, <2>5
<1>2. ASSUME NEW w \in Writers, Supersede(w), UNCHANGED now PROVE MemoryInv'
  <2>1. PICK o \in Outcomes :
          /\ IF o.applied
             THEN items' = NoneCurrent /\ acked' = 0 /\ raced' = (raced /\ Putting # {w})
             ELSE UNCHANGED <<items, acked, raced>>
          /\ put' = [put EXCEPT ![w] = IF o.ok THEN [@ EXCEPT !.pc = "insert"] ELSE NotPutting]
          /\ o.ok => o.applied
    BY <1>2 DEF Supersede, Outcomes, Done, Refused, Lost
  <2>2. w \in Putting /\ put[w].pc = "supersede"
    BY <1>2 DEF Supersede, Putting
  <2>3. /\ put' \in [Writers -> Puts]
        /\ Putting' \subseteq Putting /\ (~o.ok => w \notin Putting')
        /\ \A v \in Writers : put'[v].pc = "insert" => put[v].pc = "insert" \/ (v = w /\ o.ok)
    BY <2>1, <2>2 DEF Putting, NotPutting, Never, Puts, Typed, MemoryTypeOK
  <2>4. CASE o.applied
    <3>1. items' \in Seq(Items) /\ Len(items') = Len(items) /\ Current' = {}
      BY <2>1, <2>4, NoneCurrentEmpties DEF Typed
    <3>2. acked' = 0 /\ raced' \in BOOLEAN /\ (~raced' => ~raced \/ Putting = {w})
      BY <2>1, <2>4 DEF Typed, MemoryTypeOK
    <3>3. Typed'
      <4>1. Len(items') \in Nat
        BY <3>1
      <4>. QED
        BY <1>2, <2>3, <3>1, <3>2, <4>1 DEF Typed, MemoryTypeOK, Items, Puts
    <3>4. Orderly'
      BY <2>3, <3>1, <3>2 DEF Orderly
    <3>. QED
      BY <3>1, <3>2, <3>3, <3>4 DEF AckedIsCurrent
  <2>5. CASE ~o.applied
    <3>1. Current' = Current /\ UNCHANGED <<items, acked, raced>>
      BY <2>1, <2>5 DEF Current
    <3>2. \A v \in Writers : put'[v].pc = "insert" => put[v].pc = "insert"
      BY <2>1, <2>3, <2>5
    <3>. QED
      BY <1>2, <2>3, <3>1, <3>2 DEF Typed, MemoryTypeOK, Puts, Orderly, AckedIsCurrent
  <2>. QED
    BY <2>4, <2>5
<1>3. ASSUME NEW w \in Writers, InsertItem(w), UNCHANGED now PROVE MemoryInv'
  <2>1. PICK x \in Items : x = [current |-> TRUE, at |-> now, until |-> put[w].until]
    BY DEF Items, Typed, MemoryTypeOK
  <2>2. PICK o \in Outcomes :
          /\ items' = IF o.applied THEN Append(items, x) ELSE items
          /\ acked' = IF o.ok THEN Len(items) + 1 ELSE acked
          /\ o.ok => o.applied
    BY <1>3, <2>1 DEF InsertItem, Outcomes, Done, Refused, Lost
  <2>3. /\ raced' = raced /\ put[w].pc = "insert" /\ w \in Putting
        /\ put' \in [Writers -> Puts] /\ Putting' = Putting \ {w}
        /\ \A v \in Writers : put'[v].pc = "insert" => put[v].pc = "insert" /\ v # w
    BY <1>3 DEF InsertItem, Putting, NotPutting, Never, Puts, Typed, MemoryTypeOK
  <2>4. Len(items) \in Nat /\ acked \in 0 .. Len(items) /\ raced \in BOOLEAN
    BY DEF Typed, MemoryTypeOK
  <2>5. \/ /\ items' \in Seq(Items) /\ Len(items') = Len(items) + 1
           /\ Current' = Current \union {Len(items) + 1}
           /\ acked' \in {acked, Len(items) + 1}
        \/ items' = items /\ Current' = Current /\ acked' = acked
    <3>1. CASE o.applied
      BY <2>1, <2>2, <3>1, InsertAppends DEF Typed
    <3>2. CASE ~o.applied
      BY <2>2, <3>2 DEF Current
    <3>. QED
      BY <3>1, <3>2
  <2>6. Typed'
    BY <1>3, <2>3, <2>4, <2>5 DEF Typed, MemoryTypeOK, Items, Puts
  <2>7. Orderly'
    <3>1. SUFFICES ASSUME ~raced PROVE Orderly'
      BY <2>3 DEF Orderly
    <3>2. Putting = {w} /\ Current = {}
      BY <2>3, <3>1 DEF Orderly
    <3>3. Putting' = {} /\ \A v \in Writers : put'[v].pc # "insert"
      BY <2>3, <3>2 DEF Putting
    <3>. QED
      BY <2>5, <3>2, <3>3 DEF Orderly
  <2>8. AckedIsCurrent'
    BY <2>5 DEF AckedIsCurrent
  <2>. QED
    BY <2>6, <2>7, <2>8
<1>4. ASSUME Invalidate, UNCHANGED now PROVE MemoryInv'
  <2>1. items' \in Seq(Items) /\ Len(items') = Len(items) /\ Current' = {}
    BY <1>4, NoneCurrentEmpties DEF Invalidate, Typed
  <2>2. acked' = 0 /\ UNCHANGED <<put, raced>> /\ Putting' = Putting
    BY <1>4 DEF Invalidate, Putting
  <2>3. Typed'
    BY <1>4, <2>1, <2>2 DEF Typed, MemoryTypeOK, Items
  <2>. QED
    BY <2>1, <2>2, <2>3 DEF Orderly, AckedIsCurrent
<1>5. ASSUME Tick, UNCHANGED memory PROVE MemoryInv'
  BY <1>5 DEF Tick, memory, Typed, MemoryTypeOK, Orderly, AckedIsCurrent, Putting, Current
<1>6. CASE UNCHANGED <<now, memory>>
  BY <1>6 DEF memory, Typed, MemoryTypeOK, Orderly, AckedIsCurrent, Putting, Current
<1>. QED
  BY <1>1, <1>2, <1>3, <1>4, <1>5, <1>6 DEF MemoryStep, MemoryNext

\* Every state of the store satisfies the invariant.
LEMMA MemoryInvHolds == MemorySpec => []MemoryInv
  BY MemoryInvInit, MemoryInvNext, PTL DEF MemorySpec, MemoryStep

\* The latest item alone is current, unless Puts of the key have overlapped.
THEOREM LatestAloneIsCurrent == MemorySpec => []LatestIsCurrent
<1>1. MemoryInv => LatestIsCurrent
  BY DEF MemoryInv, Orderly, LatestIsCurrent
<1>. QED
  BY <1>1, MemoryInvHolds, PTL

\* What was acknowledged is found, or something that is not older.
THEOREM WhatIsAckedIsFound == MemorySpec => []AckedIsFound
<1>1. MemoryInv => AckedIsFound
  BY DEF MemoryInv, AckedIsCurrent, AckedIsFound, Visible, Get
<1>. QED
  BY <1>1, MemoryInvHolds, PTL

Inserting == {w \in Writers : put[w].pc = "insert"}

LEMMA InsertingIsFinite ==
  /\ IsFiniteSet(Inserting) /\ Cardinality(Inserting) \in Nat
  /\ Cardinality(Inserting) <= Cardinality(Writers) /\ Cardinality(Writers) \in Nat
<1>1. IsFiniteSet(Writers)
  BY MemoryAssumption
<1>2. Inserting \subseteq Writers
  BY DEF Inserting
<1>3. IsFiniteSet(Inserting) /\ Cardinality(Inserting) <= Cardinality(Writers)
  BY <1>1, <1>2, FS_Subset
<1>. QED
  BY <1>1, <1>3, FS_CardinalityType

LEMMA InsertingIsFiniteNext ==
  ASSUME put' \in [Writers -> Puts]
  PROVE  /\ IsFiniteSet(Inserting') /\ Cardinality(Inserting') \in Nat
         /\ Cardinality(Inserting') <= Cardinality(Writers)
<1>1. IsFiniteSet(Writers)
  BY MemoryAssumption
<1>2. Inserting' \subseteq Writers
  BY DEF Inserting
<1>3. IsFiniteSet(Inserting') /\ Cardinality(Inserting') <= Cardinality(Writers)
  BY <1>1, <1>2, FS_Subset
<1>. QED
  BY <1>1, <1>3, FS_CardinalityType

LEMMA CurrentIsFinite ==
  ASSUME MemoryTypeOK PROVE IsFiniteSet(Current) /\ Cardinality(Current) \in Nat
<1>1. Len(items) \in Nat /\ DOMAIN items = 1 .. Len(items)
  BY DEF MemoryTypeOK
<1>2. IsFiniteSet(1 .. Len(items)) /\ Current \subseteq 1 .. Len(items)
  BY <1>1, FS_Interval DEF Current
<1>3. IsFiniteSet(Current)
  BY <1>2, FS_Subset
<1>. QED
  BY <1>3, FS_CardinalityType

Few == Cardinality(Current) + Cardinality(Inserting) <= Cardinality(Writers)

LEMMA FewInit == MemoryInit => Few
<1>. SUFFICES ASSUME MemoryInit PROVE Few
  OBVIOUS
<1>1. Current = {} /\ Inserting = {}
  BY DEF MemoryInit, Current, Inserting, NotPutting
<1>2. Cardinality(Current) = 0 /\ Cardinality(Inserting) = 0
  BY <1>1, FS_EmptySet
<1>. QED
  BY <1>2, InsertingIsFinite DEF Few

\* Whoever inserts has superseded everything, and gives up its place for the
\* item; an UPDATE makes room for all.
LEMMA FewNext ==
  ASSUME MemoryInv, MemoryInv', Few, [MemoryStep]_<<now, memory>> PROVE Few'
<1>0. MemoryTypeOK /\ put' \in [Writers -> Puts]
  BY DEF MemoryInv, Typed, MemoryTypeOK, Puts
<1>1. ASSUME Current' = {} PROVE Few'
  <2>1. Cardinality(Current') = 0
    BY <1>1, FS_EmptySet
  <2>. QED
    BY <1>0, <2>1, InsertingIsFiniteNext DEF Few
<1>2. ASSUME Current' = Current, Inserting' \subseteq Inserting PROVE Few'
  <2>1. Cardinality(Inserting') <= Cardinality(Inserting)
    BY <1>2, InsertingIsFinite, FS_Subset
  <2>2. Cardinality(Current') = Cardinality(Current)
    BY <1>2
  <2>. QED
    BY <1>0, <2>1, <2>2, InsertingIsFinite, InsertingIsFiniteNext, CurrentIsFinite DEF Few
<1>3. ASSUME NEW w \in Writers, NEW ttl \in Ttls, StartPut(w, ttl) PROVE Few'
  <2>1. Current' = Current
    BY <1>3 DEF StartPut, Current
  <2>2. PICK until : put' = [put EXCEPT ![w] = [pc |-> "supersede", until |-> until]]
    BY <1>3 DEF StartPut
  <2>3. Inserting' \subseteq Inserting
    BY <1>0, <2>2 DEF Inserting, MemoryTypeOK
  <2>. QED
    BY <1>2, <2>1, <2>3
<1>4. ASSUME NEW w \in Writers, Supersede(w) PROVE Few'
  <2>1. PICK o \in Outcomes :
          /\ IF o.applied THEN items' = NoneCurrent ELSE items' = items
          /\ put' = [put EXCEPT ![w] = IF o.ok THEN [@ EXCEPT !.pc = "insert"] ELSE NotPutting]
          /\ o.ok => o.applied
    BY <1>4 DEF Supersede, Outcomes, Done, Refused, Lost
  <2>2. CASE o.applied
    BY <1>0, <1>1, <2>1, <2>2, NoneCurrentEmpties
  <2>3. CASE ~o.applied
    <3>1. Current' = Current
      BY <2>1, <2>3 DEF Current
    <3>2. put' = [put EXCEPT ![w] = NotPutting]
      BY <2>1, <2>3
    <3>3. Inserting' \subseteq Inserting
      BY <1>0, <3>2 DEF Inserting, NotPutting, MemoryTypeOK
    <3>. QED
      BY <1>2, <3>1, <3>3
  <2>. QED
    BY <2>2, <2>3
<1>5. ASSUME NEW w \in Writers, InsertItem(w) PROVE Few'
  <2>1. PICK x \in Items : x = [current |-> TRUE, at |-> now, until |-> put[w].until]
    BY DEF Items, MemoryInv, Typed, MemoryTypeOK
  <2>2. /\ items' = Append(items, x) \/ items' = items
        /\ w \in Inserting /\ put' = [put EXCEPT ![w] = NotPutting]
    BY <1>5, <2>1 DEF InsertItem, Inserting
  <2>3. Inserting' = Inserting \ {w}
    BY <1>0, <2>2 DEF Inserting, NotPutting, MemoryTypeOK
  <2>4. CASE items' = items
    <3>1. Current' = Current
      BY <2>4 DEF Current
    <3>. QED
      BY <1>2, <2>3, <3>1
  <2>5. CASE items' = Append(items, x)
    <3>1. Current' = Current \union {Len(items) + 1}
      BY <1>0, <2>1, <2>5, InsertAppends
    <3>2. Cardinality(Current') <= Cardinality(Current) + 1
      <4>1. Cardinality(Current \union {Len(items) + 1})
              \in {Cardinality(Current), Cardinality(Current) + 1}
        BY <1>0, CurrentIsFinite, FS_AddElement
      <4>. QED
        BY <1>0, <3>1, <4>1, CurrentIsFinite
    <3>3. Cardinality(Inserting') = Cardinality(Inserting) - 1
      BY <2>2, <2>3, InsertingIsFinite, FS_RemoveElement
    <3>4. Cardinality(Current') \in Nat
      BY <1>0, <3>1, CurrentIsFinite, FS_AddElement, FS_CardinalityType
    <3>. QED
      BY <1>0, <3>2, <3>3, <3>4, InsertingIsFinite, CurrentIsFinite DEF Few
  <2>. QED
    BY <2>2, <2>4, <2>5
<1>6. CASE Invalidate
  BY <1>0, <1>1, <1>6, NoneCurrentEmpties DEF Invalidate
<1>7. CASE UNCHANGED memory
  BY <1>2, <1>7 DEF memory, Current, Inserting
<1>. QED
  BY <1>3, <1>4, <1>5, <1>6, <1>7 DEF MemoryStep, MemoryNext, memory

\* However Puts of the key overlap and whatever fails of them, no more items
\* than there are writers are current.
THEOREM NoPileOfCurrentItems == MemorySpec => []CurrentAreFew
<1>1. ClockInit /\ MemoryInit => MemoryInv /\ Few
  BY MemoryInvInit, FewInit
<1>2. (MemoryInv /\ Few) /\ [MemoryStep]_<<now, memory>> => (MemoryInv /\ Few)'
  BY MemoryInvNext, FewNext
<1>3. Few => CurrentAreFew
  BY DEF Few, Inserting, CurrentAreFew
<1>. QED
  BY <1>1, <1>2, <1>3, PTL DEF MemorySpec, MemoryStep

----
(* Snapshots *)

Snapshot == [second : Nat, at : Nat]
Save     == [second : Nat, made : Nat]

SnapshotsStep == (SnapshotsNext /\ UNCHANGED now) \/ (Tick /\ UNCHANGED saving)

\* The second of an id is that of a time before the snapshot was inserted,
IdsAreTimely ==
  /\ \A s \in Savers : save[s] # NotSaving =>
       save[s].second = save[s].made \div Second /\ save[s].made <= now
  /\ \A i \in 1 .. Len(snapshots) :
       \E m \in Nat : m <= snapshots[i].at /\ snapshots[i].second = m \div Second

\* and some snapshot is recent enough.
SomeIsRecent ==
  asOf # Never => \E i \in 1 .. Len(snapshots) : snapshots[i].at + Second > asOf

SnapshotsInv == SnapshotsTypeOK /\ now \in Nat /\ IdsAreTimely /\ SomeIsRecent

\* Two times in the same second are less than a second apart.
LEMMA SameSecond ==
  ASSUME NEW S \in Nat \ {0}, NEW m \in Nat, NEW n \in Nat, m \div S = n \div S
  PROVE  n < m + S
<1>1. PICK q \in Nat : q = m \div S
  OBVIOUS
<1>2. S * q <= m
  BY <1>1
<1>3. n < S * q + S
  BY <1>1
<1>. QED
  BY <1>1, <1>2, <1>3

LEMMA SnapshotTypes ==
  SnapshotsTypeOK <=> /\ snapshots \in Seq(Snapshot)
                      /\ save \in [Savers -> Save \union {NotSaving}]
                      /\ asOf \in Nat
  BY DEF SnapshotsTypeOK, Snapshot, Save

LEMMA SnapshotsInvInit == ClockInit /\ SnapshotsInit => SnapshotsInv
<1>. SUFFICES ASSUME ClockInit, SnapshotsInit PROVE SnapshotsInv
  OBVIOUS
<1>1. snapshots \in Seq(Snapshot) /\ Len(snapshots) = 0
  BY DEF SnapshotsInit
<1>2. SnapshotsTypeOK
  BY <1>1, SnapshotTypes DEF SnapshotsInit, Never
<1>3. IdsAreTimely /\ SomeIsRecent
  BY <1>1 DEF SnapshotsInit, IdsAreTimely, SomeIsRecent
<1>. QED
  BY <1>2, <1>3 DEF SnapshotsInv, ClockInit

\* A new id is of the present.
LEMMA MakeIdKeepsInv ==
  ASSUME SnapshotsInv, NEW s \in Savers, MakeId(s), UNCHANGED now PROVE SnapshotsInv'
<1>. USE DEF SnapshotsInv
<1>1. PICK x \in Save : x = [second |-> now \div Second, made |-> now]
  <2>1. now \div Second \in Nat
    BY SnapshotAssumption
  <2>. QED
    BY <2>1 DEF Save
<1>2. x.second = x.made \div Second /\ x.made = now
  BY <1>1
<1>3. save' = [save EXCEPT ![s] = x] /\ UNCHANGED <<snapshots, asOf>>
  BY <1>1 DEF MakeId
<1>4. SnapshotsTypeOK'
  <2>1. save' \in [Savers -> Save \union {NotSaving}]
    BY <1>3, SnapshotTypes
  <2>. QED
    BY <1>3, <2>1 DEF SnapshotsTypeOK, Save
<1>5. IdsAreTimely'
  <2>1. ASSUME NEW t \in Savers, save'[t] # NotSaving
        PROVE  save'[t].second = save'[t].made \div Second /\ save'[t].made <= now
    <3>1. save'[t] = IF t = s THEN x ELSE save[t]
      BY <1>3, SnapshotTypes
    <3>2. CASE t = s
      BY <1>2, <3>1, <3>2
    <3>3. CASE t # s
      BY <2>1, <3>1, <3>3 DEF IdsAreTimely
    <3>. QED
      BY <3>2, <3>3
  <2>. QED
    BY <1>3, <2>1 DEF IdsAreTimely
<1>. QED
  BY <1>3, <1>4, <1>5 DEF SomeIsRecent

\* A snapshot is inserted after its id was made, or another one of its second
\* was already there.
LEMMA InsertKeepsInv ==
  ASSUME SnapshotsInv, NEW s \in Savers, InsertSnapshot(s), UNCHANGED now PROVE SnapshotsInv'
<1>. USE DEF SnapshotsInv
<1>1. PICK x \in Save : x = save[s]
  BY SnapshotTypes DEF InsertSnapshot
<1>2. x.second = x.made \div Second /\ x.made <= now /\ x.second \in Nat /\ x.made \in Nat
  BY <1>1 DEF InsertSnapshot, IdsAreTimely, Save
<1>3. PICK y \in Snapshot : y = [second |-> x.second, at |-> now]
  BY <1>2 DEF Snapshot
<1>4. PICK o \in OutcomesIf(~IdIsTaken(s)) :
        /\ snapshots' = IF o.applied THEN Append(snapshots, y) ELSE snapshots
        /\ asOf' = IF (o.ok \/ IdIsTaken(s)) /\ x.made > asOf THEN x.made ELSE asOf
  BY <1>1, <1>3 DEF InsertSnapshot
<1>5. o.ok => o.applied
  BY DEF OutcomesIf, Outcomes, Done, Refused, Lost
<1>6. save' = [save EXCEPT ![s] = NotSaving]
  BY DEF InsertSnapshot
<1>7. /\ snapshots \in Seq(Snapshot) /\ Len(snapshots) \in Nat
      /\ DOMAIN snapshots = 1 .. Len(snapshots)
      /\ \A i \in 1 .. Len(snapshots) : snapshots[i] \in Snapshot
  BY SnapshotTypes
\* What there was is there, and perhaps the new one at the end.
<1>8. /\ snapshots' \in Seq(Snapshot) /\ Len(snapshots) <= Len(snapshots')
      /\ \A i \in 1 .. Len(snapshots) : snapshots'[i] = snapshots[i]
      /\ Len(snapshots') \in {Len(snapshots), Len(snapshots) + 1}
      /\ Len(snapshots') = Len(snapshots) + 1 => snapshots'[Len(snapshots')] = y
      /\ o.applied => Len(snapshots') = Len(snapshots) + 1
  <2>1. CASE o.applied
    BY <1>4, <1>7, <2>1
  <2>2. CASE ~o.applied
    <3>1. snapshots' = snapshots
      BY <1>4, <2>2
    <3>2. /\ Len(snapshots') = Len(snapshots)
          /\ snapshots' \in Seq(Snapshot)
          /\ \A i \in 1 .. Len(snapshots) : snapshots'[i] = snapshots[i]
      BY <1>7, <3>1, Zenon
    <3>3. ASSUME NEW n \in Nat PROVE n # n + 1 /\ n <= n
      OBVIOUS
    <3>4. Len(snapshots) <= Len(snapshots') /\ Len(snapshots') # Len(snapshots) + 1
      BY <1>7, <3>2, <3>3
    <3>. QED
      BY <2>2, <3>2, <3>4, Zenon
  <2>. QED
    BY <2>1, <2>2
<1>9. SnapshotsTypeOK'
  <2>1. save' \in [Savers -> Save \union {NotSaving}]
    BY <1>6, SnapshotTypes
  <2>2. asOf' \in Nat
    BY <1>2, <1>4, SnapshotTypes
  <2>. QED
    BY <1>8, <2>1, <2>2 DEF SnapshotsTypeOK, Snapshot, Save
<1>10. IdsAreTimely'
  <2>1. ASSUME NEW t \in Savers, save'[t] # NotSaving
        PROVE  save'[t].second = save'[t].made \div Second /\ save'[t].made <= now
    <3>1. save'[t] = save[t]
      BY <1>6, <2>1, SnapshotTypes
    <3>. QED
      BY <2>1, <3>1 DEF IdsAreTimely
  <2>2. ASSUME NEW i \in 1 .. Len(snapshots')
        PROVE  \E m \in Nat : m <= snapshots'[i].at /\ snapshots'[i].second = m \div Second
    <3>1. CASE i \in 1 .. Len(snapshots)
      BY <1>8, <3>1 DEF IdsAreTimely
    <3>2. CASE i \notin 1 .. Len(snapshots)
      <4>1. snapshots'[i] = y
        BY <1>7, <1>8, <2>2, <3>2
      <4>. QED
        BY <1>2, <1>3, <4>1
    <3>. QED
      BY <3>1, <3>2
  <2>. QED
    BY <2>1, <2>2 DEF IdsAreTimely
<1>11. SomeIsRecent'
  <2>1. CASE asOf' = asOf
    <3>. SUFFICES ASSUME asOf # Never
                  PROVE  \E i \in 1 .. Len(snapshots') : snapshots'[i].at + Second > asOf
      BY <2>1 DEF SomeIsRecent
    <3>1. PICK i \in 1 .. Len(snapshots) : snapshots[i].at + Second > asOf
      BY DEF SomeIsRecent
    <3>2. i \in 1 .. Len(snapshots') /\ snapshots'[i] = snapshots[i]
      BY <1>7, <1>8
    <3>. QED
      BY <3>1, <3>2
  <2>2. CASE asOf' = x.made /\ o.ok
    <3>1. Len(snapshots') \in 1 .. Len(snapshots') /\ snapshots'[Len(snapshots')] = y
      BY <1>5, <1>7, <1>8, <2>2
    <3>2. y.at + Second > x.made
      BY <1>2, <1>3, SnapshotAssumption
    <3>. QED
      BY <2>2, <3>1, <3>2 DEF SomeIsRecent
  <2>3. CASE asOf' = x.made /\ IdIsTaken(s)
    <3>1. PICK i \in 1 .. Len(snapshots) : snapshots[i].second = x.second
      BY <1>1, <1>7, <2>3 DEF IdIsTaken
    <3>2. PICK m \in Nat : m <= snapshots[i].at /\ snapshots[i].second = m \div Second
      BY DEF IdsAreTimely
    <3>3. x.made < m + Second
      BY <1>2, <3>1, <3>2, SameSecond, SnapshotAssumption
    <3>4. snapshots[i].at + Second > x.made
      <4>1. snapshots[i].at \in Nat
        BY <1>7 DEF Snapshot
      <4>. QED
        BY <1>2, <3>2, <3>3, <4>1, SnapshotAssumption
    <3>5. i \in 1 .. Len(snapshots') /\ snapshots'[i] = snapshots[i]
      BY <1>7, <1>8
    <3>. QED
      BY <2>3, <3>4, <3>5 DEF SomeIsRecent
  <2>. QED
    BY <1>4, <2>1, <2>2, <2>3
<1>. QED
  BY <1>9, <1>10, <1>11

LEMMA SnapshotsInvNext == SnapshotsInv /\ [SnapshotsStep]_<<now, saving>> => SnapshotsInv'
<1>. SUFFICES ASSUME SnapshotsInv, [SnapshotsStep]_<<now, saving>> PROVE SnapshotsInv'
  OBVIOUS
<1>1. ASSUME NEW s \in Savers, MakeId(s) \/ InsertSnapshot(s), UNCHANGED now PROVE SnapshotsInv'
  BY <1>1, MakeIdKeepsInv, InsertKeepsInv
<1>2. CASE UNCHANGED saving /\ (Tick \/ UNCHANGED now)
  <2>1. now' \in Nat /\ now <= now' /\ UNCHANGED <<snapshots, save, asOf>>
    BY <1>2 DEF Tick, SnapshotsInv, saving
  <2>2. SnapshotsTypeOK' /\ SomeIsRecent'
    BY <2>1 DEF SnapshotsInv, SnapshotsTypeOK, SomeIsRecent
  <2>3. IdsAreTimely'
    <3>1. ASSUME NEW s \in Savers, save[s] # NotSaving
          PROVE  save[s].second = save[s].made \div Second /\ save[s].made <= now'
      <4>1. /\ save[s].second = save[s].made \div Second /\ save[s].made <= now
            /\ save[s].made \in Nat
        BY <3>1, SnapshotTypes DEF SnapshotsInv, IdsAreTimely, Save
      <4>. QED
        BY <2>1, <4>1 DEF SnapshotsInv
    <3>. QED
      BY <2>1, <3>1 DEF SnapshotsInv, IdsAreTimely
  <2>. QED
    BY <2>1, <2>2, <2>3 DEF SnapshotsInv
<1>. QED
  BY <1>1, <1>2 DEF SnapshotsStep, SnapshotsNext, saving

LEMMA SnapshotsInvHolds == SnapshotsSpec => []SnapshotsInv
  BY SnapshotsInvInit, SnapshotsInvNext, PTL DEF SnapshotsSpec, SnapshotsStep

\* However many savers make ids and insert, in whatever order, and whatever
\* statements fail: once a snapshot was stored, or refused because its second has
\* one, a reader loads one that was inserted after the former was made, or less
\* than a second before.
THEOREM LoadsAreRecent == SnapshotsSpec => []LoadedIsRecent
<1>1. SnapshotsInv => LoadedIsRecent
  <2>. SUFFICES ASSUME SnapshotsInv, asOf # Never
                PROVE  /\ snapshots # <<>>
                       /\ \A i \in LoadLatest : snapshots[i].at + Second > asOf
    BY DEF LoadedIsRecent
  <2>1. /\ snapshots \in Seq(Snapshot) /\ DOMAIN snapshots = 1 .. Len(snapshots)
        /\ asOf \in Nat /\ Second \in Nat
        /\ \A j \in 1 .. Len(snapshots) : snapshots[j].at \in Nat
    <3>1. snapshots \in Seq(Snapshot) /\ asOf \in Nat
      BY SnapshotTypes DEF SnapshotsInv
    <3>2. \A j \in 1 .. Len(snapshots) : snapshots[j] \in Snapshot
      BY <3>1
    <3>. QED
      BY <3>1, <3>2, SnapshotAssumption DEF Snapshot
  <2>2. PICK j \in 1 .. Len(snapshots) : snapshots[j].at + Second > asOf
    BY DEF SnapshotsInv, SomeIsRecent
  <2>3. snapshots # <<>>
    BY <2>1, <2>2
  <2>4. ASSUME NEW i \in LoadLatest PROVE snapshots[i].at + Second > asOf
    <3>1. i \in 1 .. Len(snapshots) /\ snapshots[j].at <= snapshots[i].at
      BY <2>1, <2>2 DEF LoadLatest
    <3>. QED
      BY <2>1, <2>2, <3>1
  <2>. QED
    BY <2>3, <2>4
<1>. QED
  BY <1>1, SnapshotsInvHolds, PTL

----
(* The semantic cache *)

Tasks == TaskTypes \union {Unknown}
Row   == [task : Tasks, output : Tasks, until : Nat]
Frame == [pc : Looking, key : Entries \union {Nowhere}, task : Tasks, output : Tasks,
          similar : Entries \union {Nowhere}]

CacheStep == (CacheNext /\ UNCHANGED now) \/ (Tick /\ UNCHANGED caching)

CacheInv == CacheTypeOK /\ now \in Nat

LEMMA CacheTypes ==
  CacheTypeOK <=> /\ cache \in [Entries -> Row] /\ vectors \subseteq Entries
                  /\ look \in [Lookers -> Frame]
  BY DEF CacheTypeOK, Row, Frame, Tasks

LEMMA CacheInvInit == ClockInit /\ CacheInit => CacheInv
<1>. SUFFICES ASSUME ClockInit, CacheInit PROVE CacheInv
  OBVIOUS
<1>1. Absent \in Row /\ NotLooking \in Frame
  BY DEF Absent, NotLooking, Row, Frame, Tasks, Looking, Never
<1>. QED
  BY <1>1, CacheTypes DEF CacheInit, CacheInv, ClockInit

\* A step of a Lookup leaves the rows alone, and the other Lookups.
LEMMA LookupKeepsInv ==
  ASSUME CacheInv, NEW l \in Lookers, NEW f \in Frame,
         look' = [look EXCEPT ![l] = f], UNCHANGED <<now, cache, vectors>>
  PROVE  CacheInv'
<1>1. look' \in [Lookers -> Frame]
  BY CacheTypes DEF CacheInv
<1>. QED
  BY <1>1, CacheTypes DEF CacheInv, CacheTypeOK, Row, Frame, Tasks

LEMMA CacheInvNext == CacheInv /\ [CacheStep]_<<now, caching>> => CacheInv'
<1>. SUFFICES ASSUME CacheInv, [CacheStep]_<<now, caching>> PROVE CacheInv'
  OBVIOUS
<1>. USE DEF CacheInv
<1>1. ASSUME NEW l \in Lookers PROVE look[l] \in Frame
  BY <1>1, CacheTypes
<1>2. ASSUME NEW e \in Entries, NEW task \in TaskTypes, NEW ttl \in {0, 1},
             Store(e, task, ttl), UNCHANGED now
      PROVE  CacheInv'
  <2>1. PICK until \in Nat : until = IF ttl = 0 THEN Never ELSE now + ttl
    BY DEF Never
  <2>2. PICK of \in Tasks : of = IF cache[e] = Absent THEN task ELSE cache[e].task
    BY CacheTypes DEF Row, Tasks
  <2>3. PICK row \in Row : row = [task |-> of, output |-> task, until |-> until]
    BY DEF Row, Tasks
  <2>4. cache' = [cache EXCEPT ![e] = row] /\ UNCHANGED <<vectors, look>>
    BY <1>2, <2>1, <2>2, <2>3 DEF Store
  <2>5. cache' \in [Entries -> Row]
    BY <2>4, CacheTypes
  <2>. QED
    BY <1>2, <2>4, <2>5 DEF CacheTypeOK, Row, Tasks
<1>3. ASSUME NEW e \in Entries, Embed(e), UNCHANGED now PROVE CacheInv'
  BY <1>3 DEF Embed, CacheTypeOK
<1>4. ASSUME NEW l \in Lookers, NEW e \in Entries, NEW task \in TaskTypes,
             StartLookup(l, e, task), UNCHANGED now
      PROVE  CacheInv'
  <2>1. NotLooking \in Frame
    BY DEF NotLooking, Frame, Looking, Tasks
  <2>2. [NotLooking EXCEPT !.pc = "exact", !.key = e, !.task = task] \in Frame
    BY <2>1 DEF Frame, Looking, Tasks
  <2>. QED
    BY <1>4, <2>2, LookupKeepsInv DEF StartLookup
<1>5. ASSUME NEW l \in Lookers, NEW pc \in {"semantic", "missed"}, Goes(l, pc),
             UNCHANGED <<now, cache, vectors>>
      PROVE  CacheInv'
  <2>1. [look[l] EXCEPT !.pc = pc] \in Frame
    BY <1>1 DEF Frame, Looking
  <2>. QED
    BY <1>5, <2>1, LookupKeepsInv, CacheTypes DEF Goes
<1>6. ASSUME NEW l \in Lookers, NEW e \in Found(l), Answer(l, e),
             UNCHANGED <<now, cache, vectors>>
      PROVE  CacheInv'
  <2>1. cache[e].output \in Tasks
    BY CacheTypes DEF Found, Row
  <2>2. [look[l] EXCEPT !.pc = "matched", !.output = cache[e].output] \in Frame
    BY <1>1, <2>1 DEF Frame, Looking
  <2>3. look' = [look EXCEPT ![l] = [look[l] EXCEPT !.pc = "matched", !.output = cache[e].output]]
    BY <1>6, CacheTypes DEF Answer
  <2>. QED
    BY <1>6, <2>2, <2>3, LookupKeepsInv
<1>7. ASSUME NEW l \in Lookers, SelectExact(l) \/ SelectSimilar(l), UNCHANGED now PROVE CacheInv'
  BY <1>5, <1>6, <1>7 DEF SelectExact, SelectSimilar
<1>8. ASSUME NEW l \in Lookers, SearchSimilar(l), UNCHANGED now PROVE CacheInv'
  <2>1. CASE Goes(l, "missed")
    BY <1>5, <1>8, <2>1 DEF SearchSimilar
  <2>2. ASSUME NEW e \in Entries,
               look' = [look EXCEPT ![l].pc = "similar", ![l].similar = e]
        PROVE  CacheInv'
    <3>1. [look[l] EXCEPT !.pc = "similar", !.similar = e] \in Frame
      BY <1>1 DEF Frame, Looking
    <3>2. look' = [look EXCEPT ![l] = [look[l] EXCEPT !.pc = "similar", !.similar = e]]
      BY <2>2, CacheTypes
    <3>. QED
      BY <1>8, <3>1, <3>2, LookupKeepsInv DEF SearchSimilar
  <2>3. vectors \subseteq Entries
    BY CacheTypes
  <2>. QED
    BY <1>8, <2>1, <2>2, <2>3 DEF SearchSimilar
<1>9. ASSUME NEW l \in Lookers, EndLookup(l), UNCHANGED now PROVE CacheInv'
  <2>1. NotLooking \in Frame
    BY DEF NotLooking, Frame, Looking, Tasks
  <2>. QED
    BY <1>9, <2>1, LookupKeepsInv DEF EndLookup
<1>10. CASE UNCHANGED caching /\ (Tick \/ UNCHANGED now)
  <2>1. now' \in Nat
    BY <1>10 DEF Tick
  <2>. QED
    BY <1>10, <2>1 DEF caching, CacheTypeOK
<1>. QED
  BY <1>2, <1>3, <1>4, <1>7, <1>8, <1>9, <1>10 DEF CacheStep, CacheNext, caching

LEMMA CacheInvHolds == CacheSpec => []CacheInv
  BY CacheInvInit, CacheInvNext, PTL DEF CacheSpec, CacheStep

----
(* Reviews *)

Review == [status : ReviewStatuses, assigned_to : Reviewers \union {Null},
           resolved_by : Reviewers \union {Null}, settled : BOOLEAN]

LEMMA ReviewTypes == ReviewsTypeOK <=> reviews \in [ReviewIds -> Review]
  BY DEF ReviewsTypeOK, Review

LEMMA ReviewsTypeInit == ReviewsInit => ReviewsTypeOK
<1>1. NoReview \in Review
  BY DEF NoReview, Review, ReviewStatuses
<1>. QED
  BY <1>1, ReviewTypes DEF ReviewsInit

LEMMA ReviewsTypeNext == ReviewsTypeOK /\ [ReviewsNext]_reviews => ReviewsTypeOK'
<1>. SUFFICES ASSUME ReviewsTypeOK, [ReviewsNext]_reviews PROVE ReviewsTypeOK'
  OBVIOUS
<1>1. ASSUME NEW r \in ReviewIds, NEW row \in Review, Update(r, row) PROVE ReviewsTypeOK'
  <2>1. reviews' \in [ReviewIds -> Review]
    BY <1>1, ReviewTypes DEF Update
  <2>. QED
    BY <2>1 DEF ReviewsTypeOK, Review
<1>2. ASSUME NEW r \in ReviewIds PROVE reviews[r] \in Review
  BY ReviewTypes
<1>3. ASSUME NEW r \in ReviewIds, CreateReview(r) PROVE ReviewsTypeOK'
  <2>1. [NoReview EXCEPT !.status = "pending"] \in Review
    BY DEF NoReview, Review, ReviewStatuses
  <2>. QED
    BY <1>1, <1>3, <2>1 DEF CreateReview
<1>4. ASSUME NEW r \in ReviewIds, Dismiss(r) PROVE ReviewsTypeOK'
  <2>1. [reviews[r] EXCEPT !.status = "dismissed", !.settled = TRUE] \in Review
    BY <1>2 DEF Review, ReviewStatuses
  <2>. QED
    BY <1>1, <1>4, <2>1 DEF Dismiss
<1>5. ASSUME NEW r \in ReviewIds, NEW who \in Reviewers, Assign(r, who) PROVE ReviewsTypeOK'
  <2>1. [reviews[r] EXCEPT !.status = "assigned", !.assigned_to = who] \in Review
    BY <1>2 DEF Review, ReviewStatuses
  <2>. QED
    BY <1>1, <1>5, <2>1 DEF Assign
<1>6. ASSUME NEW r \in ReviewIds, NEW who \in Reviewers, Resolve(r, who) PROVE ReviewsTypeOK'
  <2>1. [reviews[r] EXCEPT !.status = "resolved", !.resolved_by = who, !.settled = TRUE] \in Review
    BY <1>2 DEF Review, ReviewStatuses
  <2>. QED
    BY <1>1, <1>6, <2>1 DEF Resolve
<1>7. CASE UNCHANGED reviews
  BY <1>7 DEF ReviewsTypeOK
<1>. QED
  BY <1>3, <1>4, <1>5, <1>6, <1>7 DEF ReviewsNext

LEMMA ReviewsTypeHolds == ReviewsSpec => []ReviewsTypeOK
  BY ReviewsTypeInit, ReviewsTypeNext, PTL DEF ReviewsSpec

----
(* The five of them *)

\* Together with the others each table, and the scan, behaves as it does by
\* itself, so that what is proved of it alone is true of it there.
THEOREM StoresAreIndependent ==
  Spec => MemorySpec /\ SnapshotsSpec /\ CacheSpec /\ ReviewsSpec /\ ScanSpec
<1>1. Init => ClockInit /\ MemoryInit /\ SnapshotsInit /\ CacheInit /\ ReviewsInit /\ ScanInit
  BY DEF Init
<1>2. [Next]_stores =>
        /\ [MemoryStep]_<<now, memory>> /\ [SnapshotsStep]_<<now, saving>>
        /\ [CacheStep]_<<now, caching>> /\ [ReviewsNext]_reviews /\ [ScanNext]_scanning
  BY DEF Next, stores, MemoryStep, SnapshotsStep, CacheStep, memory, saving, caching, scanning
<1>. QED
  BY <1>1, <1>2, PTL DEF Spec, MemorySpec, MemoryStep, SnapshotsSpec, SnapshotsStep, CacheSpec,
                        CacheStep, ReviewsSpec, ScanSpec

\* The state has its types throughout.
THEOREM StoresTypeCorrect == Spec => []TypeOK
<1>1. MemoryInv /\ SnapshotsInv /\ CacheInv /\ ReviewsTypeOK /\ ScanTypeOK => TypeOK
  BY DEF MemoryInv, Typed, SnapshotsInv, CacheInv, TypeOK
<1>. QED
  BY <1>1, StoresAreIndependent, MemoryInvHolds, SnapshotsInvHolds, CacheInvHolds,
     ReviewsTypeHolds, ScanTypeCorrect, PTL
====
