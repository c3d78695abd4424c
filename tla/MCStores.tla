---- MODULE MCStores ----
(* The tables of memory, snapshots, the semantic cache and the reviews, and *)
(* the scan of a findings array.  The tables share nothing but the clock,   *)
(* and the scan shares nothing: a behaviour moves one of the five.          *)
EXTENDS MemoryStore, Snapshots, SemanticCache, Reviews, FindingsScan

SomeEntries == {<<"ann", "text">>, <<"ann", "like">>, <<"bob", "text">>}

VARIABLES part     \* what this behaviour is about

stores == <<now, memory, saving, caching, reviews, scanning, part>>

TypeOK == MemoryTypeOK /\ SnapshotsTypeOK /\ CacheTypeOK /\ ReviewsTypeOK /\ ScanTypeOK

Init ==
  /\ part \in {"memory", "snapshots", "cache", "reviews", "findings"}
  /\ ClockInit /\ MemoryInit /\ SnapshotsInit /\ CacheInit /\ ReviewsInit
  /\ ScanInit /\ (part # "findings" => findings = <<>>)

Next ==
  \/ /\ Tick /\ part \notin {"reviews", "findings"}
     /\ UNCHANGED <<memory, saving, caching, reviews, scanning, part>>
  \/ /\ part = "memory" /\ MemoryNext
     /\ UNCHANGED <<now, saving, caching, reviews, scanning, part>>
  \/ /\ part = "snapshots" /\ SnapshotsNext
     /\ UNCHANGED <<now, memory, caching, reviews, scanning, part>>
  \/ /\ part = "cache" /\ CacheNext
     /\ UNCHANGED <<now, memory, saving, reviews, scanning, part>>
  \/ /\ part = "reviews" /\ ReviewsNext
     /\ UNCHANGED <<now, memory, saving, caching, scanning, part>>
  \/ /\ part = "findings" /\ ScanNext
     /\ UNCHANGED <<now, memory, saving, caching, reviews, part>>

Spec == Init /\ [][Next]_stores
====
