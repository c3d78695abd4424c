---- MODULE DocumentCatalogue ----
(***************************************************************************)
(* What services/rag promises of its documents: one appears once, takes    *)
(* chunks only while it is being processed, is then failed or indexed and  *)
(* keeps its chunks as they are until it is removed, for good.             *)
(***************************************************************************)
CONSTANTS Docs

VARIABLES
  status,      \* Docs -> the status of the document
  holds        \* Docs -> the numbers of the chunks stored for it

catalogue == <<status, holds>>

Init == status = [d \in Docs |-> "absent"] /\ holds = [d \in Docs |-> {}]

Becomes(d, from, to) ==
  status[d] = from /\ status' = [status EXCEPT ![d] = to] /\ UNCHANGED holds

Appear(d) == Becomes(d, "absent", "processing")
Fail(d)   == Becomes(d, "processing", "failed")
Index(d)  == Becomes(d, "processing", "indexed")

\* One chunk more, under a number that the document has none under.
Store(d) ==
  /\ status[d] = "processing"
  /\ \E i \in holds'[d] \ holds[d] : holds' = [holds EXCEPT ![d] = @ \union {i}]
  /\ UNCHANGED status

Remove(d) ==
  /\ status[d] \in {"processing", "failed", "indexed"}
  /\ status' = [status EXCEPT ![d] = "gone"]
  /\ holds' = [holds EXCEPT ![d] = {}]

Next ==
  \E d \in Docs : Appear(d) \/ Store(d) \/ Fail(d) \/ Index(d) \/ Remove(d)

Spec == Init /\ [][Next]_catalogue
====
