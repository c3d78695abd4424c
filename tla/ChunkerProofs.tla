---- MODULE ChunkerProofs ----
(***************************************************************************)
(* The chunks of a text of any length, for any size and overlap.           *)
(***************************************************************************)
EXTENDS Chunker, Integers, WellFoundedInduction, TLAPS

\* The text and what is left of it are made of paragraphs and sentences.
TextOK ==
  /\ given \in Seq(Paragraphs) /\ text \in Seq(Paragraphs)
  /\ sentences \in Seq(Nat \ {0})

\* A chunk holds something, its sentences and its runes alike.
Filled(b) == b \in Pieces /\ b.len > 0 /\ b.from < b.upto /\ Bounded(b)

\* The chunk in the making holds something or waits for its first sentence.
BufOK(b) == Filled(b) \/ (b \in Pieces /\ b.len = 0 /\ b.from = b.upto)

ChunksOK(o) ==
  /\ o.chunks \in Seq(Pieces)
  /\ \A i \in 1 .. Len(o.chunks) :
       /\ Filled(o.chunks[i])
       /\ o.chunks[i].from = IF i = 1 THEN 0 ELSE o.chunks[i - 1].upto
  /\ BufOK(o.buf)
  /\ o.buf.from = IF o.chunks = <<>> THEN 0 ELSE o.chunks[Len(o.chunks)].upto

Outs == [chunks : Seq(Pieces), buf : Pieces]

ChunkInv == TextOK /\ out \in Outs /\ ChunksOK(out)

\* A chunk that is closed goes to the end of the list, and the next one starts
\* with the sentence after its last.
LEMMA ClosedIsOK ==
  ASSUME NEW o \in Outs, ChunksOK(o), o.buf.len > 0,
         NEW b, BufOK(b), b.from = o.buf.upto
  PROVE  ChunksOK([chunks |-> Append(o.chunks, o.buf), buf |-> b])
<1>. DEFINE s == Append(o.chunks, o.buf)
<1>1. o.buf \in Pieces /\ o.chunks \in Seq(Pieces) /\ Filled(o.buf)
  BY DEF Outs, ChunksOK, BufOK
<1>2. s \in Seq(Pieces) /\ Len(s) = Len(o.chunks) + 1 /\ Len(o.chunks) \in Nat /\ s # <<>>
  BY <1>1
<1>3. \A i \in 1 .. Len(o.chunks) : s[i] = o.chunks[i]
  BY <1>1
<1>4. s[Len(s)] = o.buf
  BY <1>1, <1>2
<1>5. ASSUME NEW i \in 1 .. Len(s)
      PROVE  Filled(s[i]) /\ s[i].from = IF i = 1 THEN 0 ELSE s[i - 1].upto
  <2>1. CASE i = Len(s)
    <3>1. i = 1 <=> o.chunks = <<>>
      BY <2>1, <1>1, <1>2
    <3>2. CASE i = 1
      BY <3>1, <3>2, <2>1, <1>1, <1>4 DEF ChunksOK
    <3>3. CASE i # 1
      <4>1. s[i - 1] = o.chunks[Len(o.chunks)]
        BY <3>3, <2>1, <1>2, <1>3
      <4>. QED
        BY <4>1, <3>1, <3>3, <2>1, <1>1, <1>4 DEF ChunksOK
    <3>. QED
      BY <3>2, <3>3
  <2>2. CASE i # Len(s)
    <3>1. i \in 1 .. Len(o.chunks) /\ (i # 1 => i - 1 \in 1 .. Len(o.chunks))
      BY <2>2, <1>2
    <3>. QED
      BY <3>1, <1>3 DEF ChunksOK
  <2>. QED
    BY <2>1, <2>2
<1>. QED
  BY <1>2, <1>4, <1>5 DEF ChunksOK

\* A flush keeps what is there.
LEMMA FlushKeeps ==
  ASSUME NEW o \in Outs, ChunksOK(o)
  PROVE  Flush(o) \in Outs /\ ChunksOK(Flush(o))
<1>1. CASE o.buf.len = 0
  BY <1>1 DEF Flush
<1>2. CASE o.buf.len # 0
  <2>1. o.buf \in Pieces /\ o.buf.len > 0 /\ o.chunks \in Seq(Pieces)
    BY <1>2 DEF Outs, Pieces
  <2>2. Empty(o.buf.upto) \in Pieces /\ BufOK(Empty(o.buf.upto))
    BY <2>1 DEF Empty, BufOK, Pieces
  <2>3. Flush(o) = [chunks |-> Append(o.chunks, o.buf), buf |-> Empty(o.buf.upto)]
    BY <1>2 DEF Flush
  <2>4. ChunksOK(Flush(o))
    BY <2>1, <2>2, <2>3, ClosedIsOK DEF Empty
  <2>5. Flush(o) \in Outs
    BY <2>1, <2>2, <2>3 DEF Outs
  <2>. QED
    BY <2>4, <2>5
<1>. QED
  BY <1>1, <1>2

\* So does a piece that is joined to it: a paragraph that is not too long, with
\* two line feeds, or a sentence, with a blank.
LEMMA JoinKeeps ==
  ASSUME ChunkInv, NEW n \in Nat \ {0}, NEW k \in Nat \ {0}, NEW separator \in {1, 2},
         separator = 2 => n <= ChunkSize
  PROVE  Joined(n, k, separator) \in Outs /\ ChunksOK(Joined(n, k, separator))
<1>. DEFINE b == out.buf
<1>0. /\ ChunkSize \in Nat \ {0} /\ ChunkOverlap \in Nat /\ ChunkOverlap < ChunkSize
      /\ out \in Outs /\ ChunksOK(out) /\ BufOK(b)
      /\ b \in Pieces /\ out.chunks \in Seq(Pieces)
  BY ChunkerAssumption DEF ChunkInv, Outs, ChunksOK
<1>1. CASE Fits(n)
  <2>. DEFINE c == [len  |-> (IF b.len = 0 THEN 0 ELSE b.len + separator) + n,
                    from |-> b.from, upto |-> b.upto + k, last |-> n]
  <2>1. Joined(n, k, separator) = [chunks |-> out.chunks, buf |-> c]
    BY <1>1 DEF Joined
  <2>2. c \in Pieces
    <3>1. b.len \in Nat /\ b.from \in Nat /\ b.upto \in Nat
      BY <1>0 DEF Pieces
    <3>2. (IF b.len = 0 THEN 0 ELSE b.len + separator) + n \in Nat /\ b.upto + k \in Nat
      BY <3>1
    <3>. QED
      BY <3>1, <3>2 DEF Pieces
  <2>3. b.from <= b.upto /\ b.len \in Nat /\ b.from \in Nat /\ b.upto \in Nat
    BY <1>0 DEF BufOK, Filled, Pieces
  <2>4. b.len = 0 \/ b.len + n + 1 <= ChunkSize
    BY <1>1 DEF Fits
  <2>5. c.len > 0 /\ c.from < c.upto
    BY <2>2, <2>3
  <2>6. Bounded(c)
    BY <2>2, <2>3, <2>4, <1>0 DEF Bounded
  <2>7. BufOK(c)
    BY <2>2, <2>5, <2>6 DEF BufOK, Filled
  <2>8. [chunks |-> out.chunks, buf |-> c] \in Outs
    BY <2>2, <1>0 DEF Outs
  <2>9. ChunksOK([chunks |-> out.chunks, buf |-> c])
    BY <2>7, <1>0 DEF ChunksOK
  <2>. QED
    BY <2>1, <2>8, <2>9
<1>2. CASE ~Fits(n)
  <2>. DEFINE c == [len  |-> lastNRunes(b.len) + separator + n,
                    from |-> b.upto, upto |-> b.upto + k, last |-> n]
  <2>1. Joined(n, k, separator) = [chunks |-> Append(out.chunks, b), buf |-> c]
    BY <1>2 DEF Joined
  <2>2. b.len \in Nat /\ b.len > 0 /\ b.upto \in Nat
    BY <1>2, <1>0 DEF Fits, Pieces
  <2>3. lastNRunes(b.len) \in 0 .. ChunkOverlap
    BY <2>2, <1>0 DEF lastNRunes
  <2>4. c \in Pieces
    BY <2>2, <2>3, <1>0 DEF Pieces
  <2>5. Bounded(c)
    BY <2>3, <1>0 DEF Bounded
  <2>6. BufOK(c)
    BY <2>2, <2>3, <2>4, <2>5, <1>0 DEF BufOK, Filled
  <2>7. ChunksOK([chunks |-> Append(out.chunks, b), buf |-> c])
    BY <2>2, <2>6, <1>0, ClosedIsOK
  <2>8. [chunks |-> Append(out.chunks, b), buf |-> c] \in Outs
    BY <2>4, <1>0 DEF Outs
  <2>. QED
    BY <2>1, <2>7, <2>8
<1>. QED
  BY <1>1, <1>2

\* The invariant holds of a text not yet begun,
LEMMA UnbegunIsOK == Unbegun \in Outs /\ ChunksOK(Unbegun)
<1>1. Empty(0) \in Pieces /\ BufOK(Empty(0))
  BY DEF Empty, Pieces, BufOK
<1>. QED
  BY <1>1 DEF Unbegun, Outs, ChunksOK, Empty

LEMMA ChunkInvBegins == ASSUME NEW t \in Seq(Paragraphs), Takes(t) PROVE ChunkInv'
  BY UnbegunIsOK DEF Takes, ChunkInv, TextOK

LEMMA ChunkInvInit == ChunkInit => ChunkInv
  BY UnbegunIsOK, ChunkerAssumption DEF ChunkInit, ChunkInv, TextOK

\* and every step keeps it.
LEMMA ChunkInvNext == ChunkInv /\ [ChunkNext]_chunking => ChunkInv'
<1>. SUFFICES ASSUME ChunkInv, [ChunkNext]_chunking PROVE ChunkInv'
  OBVIOUS
<1>0. out \in Outs /\ ChunksOK(out) /\ TextOK
  BY DEF ChunkInv
<1>1. CASE TakeParagraph
  <2>. DEFINE p == Head(text)
  <2>1. p \in Paragraphs /\ Tail(text) \in Seq(Paragraphs)
    BY <1>0, <1>1 DEF TakeParagraph, TextOK
  <2>2. p.len \in Nat \ {0} /\ Len(p.sentences) \in Nat \ {0} /\ p.len <= ChunkSize
    BY <2>1, <1>1 DEF Paragraphs, TakeParagraph
  <2>3. out' \in Outs /\ ChunksOK(out')
    BY <2>2, <1>1, JoinKeeps DEF TakeParagraph
  <2>. QED
    BY <2>1, <2>3, <1>0, <1>1 DEF TakeParagraph, ChunkInv, TextOK
<1>2. CASE SplitParagraph
  <2>1. Head(text) \in Paragraphs /\ Tail(text) \in Seq(Paragraphs)
    BY <1>0, <1>2 DEF SplitParagraph, TextOK
  <2>2. Head(text).sentences \in Seq(Nat \ {0})
    BY <2>1 DEF Paragraphs
  <2>3. out' \in Outs /\ ChunksOK(out')
    BY <1>0, <1>2, FlushKeeps DEF SplitParagraph
  <2>. QED
    BY <2>1, <2>2, <2>3, <1>0, <1>2 DEF SplitParagraph, ChunkInv, TextOK
<1>3. CASE TakeSentence
  <2>. DEFINE o == Joined(Head(sentences), 1, 1)
  <2>1. Head(sentences) \in Nat \ {0} /\ Tail(sentences) \in Seq(Nat \ {0})
    BY <1>0, <1>3 DEF TakeSentence, TextOK
  <2>2. o \in Outs /\ ChunksOK(o)
    BY <2>1, JoinKeeps
  <2>3. Flush(o) \in Outs /\ ChunksOK(Flush(o))
    BY <2>2, FlushKeeps
  <2>4. out' = o \/ out' = Flush(o)
    BY <1>3 DEF TakeSentence
  <2>. QED
    BY <2>1, <2>2, <2>3, <2>4, <1>0, <1>3 DEF TakeSentence, ChunkInv, TextOK
<1>4. CASE FlushLast
  BY <1>0, <1>4, FlushKeeps DEF FlushLast, ChunkInv, TextOK
<1>5. CASE UNCHANGED chunking
  BY <1>5 DEF chunking, ChunkInv, TextOK
<1>. QED
  BY <1>1, <1>2, <1>3, <1>4, <1>5 DEF ChunkNext

\* The invariant says that chunks are bounded and follow each other.
LEMMA ChunkInvMeans == ChunkInv => ChunksBounded /\ Consecutive /\ ChunkerTypeOK
  BY DEF ChunkInv, ChunksOK, Filled, ChunksBounded, Consecutive, ChunkerTypeOK, TextOK, Outs

\* However long a text and however its paragraphs and sentences are, no chunk
\* exceeds its size by more than an overlap and a separator, unless it ends in
\* a sentence that is longer than a chunk.
THEOREM ChunksAreBounded == ChunkSpec => []ChunksBounded
  BY ChunkInvInit, ChunkInvNext, ChunkInvMeans, PTL DEF ChunkSpec

\* The chunks follow each other: each starts with the sentence after the last
\* one of the chunk before, and none is empty.
THEOREM ChunksAreConsecutive == ChunkSpec => []Consecutive
  BY ChunkInvInit, ChunkInvNext, ChunkInvMeans, PTL DEF ChunkSpec
----
(* Induction over the numbers, as a fact about sets of them. *)

LEMMA Least ==
  ASSUME NEW S, S \subseteq Nat, S # {}
  PROVE  \E m \in S : \A k \in S : m <= k
<1>1. IsWellFoundedOn(OpToRel(<, Nat), Nat)
  BY NatLessThanWellFounded
<1>2. PICK m \in S : \A k \in S : <<k, m>> \notin OpToRel(<, Nat)
  BY <1>1, WFMin
<1>3. ASSUME NEW k \in S PROVE m <= k
  <2>1. ~(k < m)
    BY <1>2 DEF OpToRel
  <2>. QED
    BY <2>1
<1>. QED
  BY <1>3

LEMMA SetInduction ==
  ASSUME NEW N, 0 \in N, \A n \in Nat : n \in N => n + 1 \in N
  PROVE  Nat \subseteq N
<1>. DEFINE T == Nat \ N
<1>. SUFFICES ASSUME T # {} PROVE FALSE
  OBVIOUS
<1>1. PICK m \in T : \A k \in T : m <= k
  <2>. HIDE DEF T
  <2>1. T \subseteq Nat
    BY DEF T
  <2>. QED
    BY <2>1, Least
<1>2. m # 0 /\ m - 1 \in Nat
  BY <1>1
<1>3. m - 1 \in N
  BY <1>1, <1>2
<1>. QED
  BY <1>1, <1>2, <1>3

----
(* The number of sentences of a text. *)

\* The sentences of paragraph i.
In(t, i) == Len(t[i].sentences)

\* f counts the sentences of the first paragraphs, up to n of them.
CountsTo(t, n, f) ==
  f \in [0 .. n -> Nat] /\ f[0] = 0 /\ \A i \in 1 .. n : f[i] = f[i - 1] + In(t, i)

LEMMA InIsNat ==
  ASSUME NEW t \in Seq(Paragraphs), NEW i \in 1 .. Len(t) PROVE In(t, i) \in Nat
<1>1. t[i] \in Paragraphs
  OBVIOUS
<1>2. t[i].sentences \in Seq(Nat \ {0})
  BY <1>1 DEF Paragraphs
<1>. QED
  BY <1>2 DEF In

LEMMA SomeCount ==
  ASSUME NEW t \in Seq(Paragraphs) PROVE \E f : CountsTo(t, Len(t), f)
<1>. DEFINE N == {n \in Nat : n <= Len(t) => \E f : CountsTo(t, n, f)}
<1>1. 0 \in N
  <2>1. CountsTo(t, 0, [i \in 0 .. 0 |-> 0])
    BY DEF CountsTo
  <2>. QED
    BY <2>1
<1>2. ASSUME NEW n \in Nat, n \in N PROVE n + 1 \in N
  <2>1. SUFFICES ASSUME n + 1 <= Len(t) PROVE \E f : CountsTo(t, n + 1, f)
    OBVIOUS
  <2>2. Len(t) \in Nat /\ n + 1 \in 1 .. Len(t)
    BY <2>1
  <2>3. PICK f : CountsTo(t, n, f)
    BY <1>2, <2>1, <2>2
  <2>4. In(t, n + 1) \in Nat
    BY <2>2, InIsNat
  <2>. DEFINE g == [i \in 0 .. n + 1 |-> IF i = n + 1 THEN f[n] + In(t, n + 1) ELSE f[i]]
  <2>5. g \in [0 .. n + 1 -> Nat]
    BY <2>3, <2>4 DEF CountsTo
  <2>6. g[0] = 0
    BY <2>3 DEF CountsTo
  <2>7. ASSUME NEW i \in 1 .. n + 1 PROVE g[i] = g[i - 1] + In(t, i)
    <3>1. CASE i = n + 1
      BY <3>1
    <3>2. CASE i # n + 1
      <4>1. i \in 1 .. n /\ g[i] = f[i] /\ g[i - 1] = f[i - 1]
        BY <3>2
      <4>. QED
        BY <2>3, <4>1 DEF CountsTo
    <3>. QED
      BY <3>1, <3>2
  <2>. HIDE DEF g
  <2>. QED
    BY <2>5, <2>6, <2>7 DEF CountsTo
<1>3. Nat \subseteq N
  <2>. HIDE DEF N
  <2>. QED
    BY <1>1, <1>2, SetInduction
<1>4. Len(t) \in Nat /\ Len(t) \in N
  BY <1>3
<1>. QED
  BY <1>4

\* What the recursive definition comes to.
LEMMA SentencesCount ==
  ASSUME NEW t \in Seq(Paragraphs)
  PROVE  \E f : CountsTo(t, Len(t), f) /\ SentencesOf(t) = f[Len(t)]
<1>. DEFINE Rec(f) == f = [i \in 0 .. Len(t) |-> IF i = 0 THEN 0 ELSE f[i - 1] + Len(t[i].sentences)]
            count == CHOOSE f : Rec(f)
<1>0. Len(t) \in Nat
  OBVIOUS
<1>1. SentencesOf(t) = count[Len(t)]
  BY DEF SentencesOf
<1>2. PICK f : CountsTo(t, Len(t), f)
  BY SomeCount
<1>3. Rec(f)
  <2>1. f = [i \in 0 .. Len(t) |-> f[i]]
    BY <1>2 DEF CountsTo
  <2>2. \A i \in 0 .. Len(t) : f[i] = IF i = 0 THEN 0 ELSE f[i - 1] + Len(t[i].sentences)
    BY <1>0, <1>2 DEF CountsTo, In
  <2>. QED
    BY <2>1, <2>2
<1>4. Rec(count)
  BY <1>3
<1>. HIDE DEF count
<1>5. \A i \in 0 .. Len(t) : count[i] = IF i = 0 THEN 0 ELSE count[i - 1] + Len(t[i].sentences)
  BY <1>4
<1>. DEFINE N == {n \in Nat : n <= Len(t) => count[n] = f[n]}
<1>6. 0 \in N
  BY <1>0, <1>2, <1>5 DEF CountsTo
<1>7. ASSUME NEW n \in Nat, n \in N PROVE n + 1 \in N
  <2>1. SUFFICES ASSUME n + 1 <= Len(t) PROVE count[n + 1] = f[n + 1]
    OBVIOUS
  <2>2. count[n] = f[n] /\ n + 1 \in 1 .. Len(t)
    BY <1>0, <1>7, <2>1
  <2>3. f[n + 1] = f[n] + Len(t[n + 1].sentences)
    BY <1>2, <2>2 DEF CountsTo, In
  <2>4. count[n + 1] = count[n] + Len(t[n + 1].sentences)
    BY <1>5, <2>2
  <2>. QED
    BY <2>2, <2>3, <2>4
<1>8. Nat \subseteq N
  <2>. HIDE DEF N
  <2>. QED
    BY <1>6, <1>7, SetInduction
<1>9. count[Len(t)] = f[Len(t)]
  BY <1>0, <1>8
<1>. QED
  BY <1>1, <1>2, <1>9

\* A text has the sentences of its first paragraph and those of the others.
LEMMA SentencesOfTail ==
  ASSUME NEW t \in Seq(Paragraphs), t # <<>>
  PROVE  /\ SentencesOf(t) = Len(Head(t).sentences) + SentencesOf(Tail(t))
         /\ SentencesOf(t) \in Nat /\ SentencesOf(Tail(t)) \in Nat
<1>. DEFINE u == Tail(t)
<1>0. /\ u \in Seq(Paragraphs) /\ Len(t) \in Nat /\ Len(u) = Len(t) - 1 /\ Len(u) \in Nat
      /\ Head(t) = t[1] /\ \A i \in 1 .. Len(u) : u[i] = t[i + 1]
  OBVIOUS
<1>. HIDE DEF u
<1>1. PICK f : CountsTo(t, Len(t), f) /\ SentencesOf(t) = f[Len(t)]
  BY SentencesCount
<1>2. PICK g : CountsTo(u, Len(u), g) /\ SentencesOf(u) = g[Len(u)]
  BY <1>0, SentencesCount
<1>. DEFINE N == {n \in Nat : n <= Len(u) => f[n + 1] = In(t, 1) + g[n]}
<1>3. In(t, 1) \in Nat
  BY <1>0, InIsNat
<1>4. 0 \in N
  <2>1. f[1] = f[0] + In(t, 1) /\ f[0] = 0 /\ g[0] = 0
    BY <1>0, <1>1, <1>2 DEF CountsTo
  <2>. QED
    BY <1>3, <2>1
<1>5. ASSUME NEW n \in Nat, n \in N PROVE n + 1 \in N
  <2>1. SUFFICES ASSUME n + 1 <= Len(u) PROVE f[n + 1 + 1] = In(t, 1) + g[n + 1]
    OBVIOUS
  <2>2. f[n + 1] = In(t, 1) + g[n] /\ n + 1 \in 1 .. Len(u) /\ n + 1 + 1 \in 1 .. Len(t)
    BY <1>0, <1>5, <2>1
  <2>3. f[n + 1 + 1] = f[n + 1] + In(t, n + 1 + 1)
    <3>1. n + 1 + 1 - 1 = n + 1
      OBVIOUS
    <3>. QED
      BY <1>1, <2>2, <3>1 DEF CountsTo
  <2>4. g[n + 1] = g[n] + In(u, n + 1)
    BY <1>2, <2>2 DEF CountsTo
  <2>5. In(u, n + 1) = In(t, n + 1 + 1) /\ In(u, n + 1) \in Nat
    BY <1>0, <2>2, InIsNat DEF In
  <2>6. g[n] \in Nat
    BY <1>2, <2>2 DEF CountsTo
  <2>. QED
    BY <1>3, <2>2, <2>3, <2>4, <2>5, <2>6
<1>6. Nat \subseteq N
  <2>. HIDE DEF N
  <2>. QED
    BY <1>4, <1>5, SetInduction
<1>7. f[Len(u) + 1] = In(t, 1) + g[Len(u)] /\ Len(u) + 1 = Len(t)
  BY <1>0, <1>6
<1>8. f[Len(t)] \in Nat /\ g[Len(u)] \in Nat
  <2>1. f \in [0 .. Len(t) -> Nat] /\ g \in [0 .. Len(u) -> Nat]
    BY <1>1, <1>2 DEF CountsTo
  <2>2. Len(t) \in 0 .. Len(t) /\ Len(u) \in 0 .. Len(u)
    BY <1>0
  <2>. QED
    BY <2>1, <2>2
<1>. QED
  BY <1>0, <1>1, <1>2, <1>7, <1>8 DEF In, u

LEMMA NoSentences == SentencesOf(<<>>) = 0
<1>1. <<>> \in Seq(Paragraphs) /\ Len(<<>>) = 0
  OBVIOUS
<1>2. PICK f : CountsTo(<<>>, 0, f) /\ SentencesOf(<<>>) = f[0]
  BY <1>1, SentencesCount
<1>. QED
  BY <1>2 DEF CountsTo

----
\* What is in the chunks and what is left to put in is the whole text.
Covered == out.buf.upto + Len(sentences) + SentencesOf(text) = SentencesOf(given)

LEMMA JoinedUpto ==
  ASSUME NEW n, NEW k, NEW separator
  PROVE  Joined(n, k, separator).buf.upto = out.buf.upto + k
  BY DEF Joined

LEMMA FlushUpto == ASSUME NEW o PROVE Flush(o).buf.upto = o.buf.upto
  BY DEF Flush, Empty

LEMMA CoveredBegins ==
  ASSUME NEW t \in Seq(Paragraphs), given' = t, text' = t, sentences' = <<>>, out' = Unbegun
  PROVE  Covered'
<1>1. SentencesOf(t) \in Nat
  <2>1. CASE t = <<>>
    BY <2>1, NoSentences
  <2>2. CASE t # <<>>
    BY <2>2, SentencesOfTail
  <2>. QED
    BY <2>1, <2>2
<1>2. out'.buf.upto = 0 /\ Len(sentences') = 0
  BY DEF Unbegun, Empty
<1>. QED
  BY <1>1, <1>2 DEF Covered

LEMMA CoveredNext ==
  ASSUME ChunkInv, Covered, ChunkNext PROVE Covered'
<1>0. /\ text \in Seq(Paragraphs) /\ sentences \in Seq(Nat \ {0}) /\ out.buf.upto \in Nat
  BY DEF ChunkInv, TextOK, Outs, Pieces
<1>1. CASE TakeParagraph
  <2>1. /\ out'.buf.upto = out.buf.upto + Len(Head(text).sentences)
        /\ text # <<>> /\ text' = Tail(text) /\ given' = given /\ sentences' = sentences
        /\ Len(sentences) = 0
    BY <1>1, JoinedUpto DEF TakeParagraph
  <2>2. Head(text).sentences \in Seq(Nat \ {0})
    <3>1. Head(text) \in Paragraphs
      BY <1>0, <2>1
    <3>. QED
      BY <3>1 DEF Paragraphs
  <2>3. Len(Head(text).sentences) \in Nat
    BY <2>2
  <2>4. /\ SentencesOf(text) = Len(Head(text).sentences) + SentencesOf(Tail(text))
        /\ SentencesOf(Tail(text)) \in Nat
    BY <1>0, <2>1, SentencesOfTail
  <2>. QED
    BY <1>0, <2>1, <2>3, <2>4 DEF Covered
<1>2. CASE SplitParagraph
  <2>1. /\ out'.buf.upto = out.buf.upto /\ sentences' = Head(text).sentences
        /\ text # <<>> /\ text' = Tail(text) /\ given' = given /\ Len(sentences) = 0
    BY <1>2, FlushUpto DEF SplitParagraph
  <2>2. Head(text).sentences \in Seq(Nat \ {0})
    <3>1. Head(text) \in Paragraphs
      BY <1>0, <2>1
    <3>. QED
      BY <3>1 DEF Paragraphs
  <2>3. Len(Head(text).sentences) \in Nat
    BY <2>2
  <2>4. /\ SentencesOf(text) = Len(Head(text).sentences) + SentencesOf(Tail(text))
        /\ SentencesOf(Tail(text)) \in Nat
    BY <1>0, <2>1, SentencesOfTail
  <2>. QED
    BY <1>0, <2>1, <2>3, <2>4 DEF Covered
<1>3. CASE TakeSentence
  <2>1. /\ out'.buf.upto = out.buf.upto + 1 /\ sentences # <<>> /\ sentences' = Tail(sentences)
        /\ text' = text /\ given' = given
    BY <1>3, JoinedUpto, FlushUpto DEF TakeSentence
  <2>2. Len(sentences) \in Nat /\ Len(sentences') = Len(sentences) - 1
    BY <1>0, <2>1
  <2>3. SentencesOf(text) \in Nat
    BY <1>0, NoSentences, SentencesOfTail
  <2>. QED
    BY <1>0, <2>1, <2>2, <2>3 DEF Covered
<1>4. CASE FlushLast
  BY <1>4, FlushUpto DEF FlushLast, Covered
<1>. QED
  BY <1>1, <1>2, <1>3, <1>4 DEF ChunkNext

\* The chunks and what is left of the text have every one of its sentences,
\* once and in order, however long the text is.
THEOREM EverySentenceIsKept == ChunkSpec => []TextIsCovered
<1>1. ASSUME ChunkInit PROVE Covered
  <2>1. text \in Seq(Paragraphs) /\ given = text /\ Len(sentences) = 0 /\ out.buf.upto = 0
    BY <1>1, ChunkerAssumption DEF ChunkInit, Unbegun, Empty
  <2>2. SentencesOf(text) \in Nat
    BY <2>1, NoSentences, SentencesOfTail
  <2>. QED
    BY <2>1, <2>2 DEF Covered
<1>2. ChunkInv /\ Covered /\ [ChunkNext]_chunking => Covered'
  BY CoveredNext DEF chunking, Covered
<1>3. ChunkInv /\ Covered => TextIsCovered
  BY ChunkInvMeans DEF Covered, TextIsCovered
<1>. QED
  BY <1>1, <1>2, <1>3, ChunkInvInit, ChunkInvNext, PTL DEF ChunkSpec
====
