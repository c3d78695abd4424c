---- MODULE MCRag ----
(* A document of a tenant, which another tenant searches as well, chunks of *)
(* about ten runes with an overlap of three, and texts that make no, two    *)
(* and three of them.                                                       *)
EXTENDS RagService

Plain(n) == [len |-> n, sentences |-> <<n>>]
Long(s1, s2) == [len |-> s1 + s2 + 1, sentences |-> <<s1, s2>>]

SomeTexts == {<<>>, <<Plain(4), Plain(5), Plain(10)>>, <<Plain(2), Long(6, 12)>>}

SomeOwner == [d \in Docs |-> IF d = "d1" THEN "ann" ELSE "bob"]

SomeCallers == {"ingest", "client"}
====
