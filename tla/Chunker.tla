---- MODULE Chunker ----
(***************************************************************************)
(* services/rag, Chunker.ChunkText: one pass over the paragraphs of a text *)
(* that packs them into chunks of about ChunkSize runes, a paragraph that  *)
(* is longer sentence by sentence, and that starts a chunk with the last   *)
(* ChunkOverlap runes of the one before.  Of the text only the lengths are *)
(* kept, with every sentence numbered; a chunk knows which ones it holds.  *)
(*                                                                         *)
(* An operator with the name of the one after it and a suffix is a faulty  *)
(* variant, for testing the properties.                                    *)
(***************************************************************************)
EXTENDS Naturals, Sequences

CONSTANTS
  ChunkSize, ChunkOverlap,  \* in runes
  Texts    \* the texts: sequences of paragraphs [len, sentences], trimmed and
           \* not blank; sentences is the sequence of their lengths

Paragraphs == [len : Nat \ {0}, sentences : Seq(Nat \ {0}) \ {<<>>}]

\* NewChunker replaces sizes that are not positive and too long an overlap.
ASSUME ChunkerAssumption ==
  /\ ChunkSize \in Nat \ {0} /\ ChunkOverlap \in Nat /\ ChunkOverlap < ChunkSize
  /\ Texts \subseteq Seq(Paragraphs)

VARIABLES
  given,       \* the text to cut
  text,        \* the paragraphs not yet looked at
  sentences,   \* the rest of the long paragraph in hand
  out          \* [chunks, buf]: the chunks made and the one in the making

chunking == <<given, text, sentences, out>>

\* A chunk: its runes (before its ends are trimmed), the sentences it holds,
\* without those of the overlap, from number "from" to before "upto", and the
\* length of the last piece added to it.  An empty one waits for sentence n.
Pieces   == [len : Nat, from : Nat, upto : Nat, last : Nat]
Empty(n) == [len |-> 0, from |-> n, upto |-> n, last |-> 0]

ChunkerTypeOK ==
  /\ given \in Seq(Paragraphs) /\ text \in Seq(Paragraphs)
  /\ sentences \in Seq(Nat \ {0})
  /\ out \in [chunks : Seq(Pieces), buf : Pieces]

Unbegun  == [chunks |-> <<>>, buf |-> Empty(0)]
Takes(t) == given' = t /\ text' = t /\ sentences' = <<>> /\ out' = Unbegun

ChunkInit == given \in Texts /\ text = given /\ sentences = <<>> /\ out = Unbegun

----
\* Whether n more runes fit; a chunk in the making that is empty takes anything.
FitsAfterwards(n) == out.buf.len <= ChunkSize
Fits(n) == out.buf.len = 0 \/ out.buf.len + n + 1 <= ChunkSize

lastNRunes(len) == IF len <= ChunkOverlap THEN len ELSE ChunkOverlap

FlushForgetting(o) == [chunks |-> o.chunks, buf |-> Empty(o.buf.upto)]
Flush(o) ==
  IF o.buf.len = 0 THEN o
  ELSE [chunks |-> Append(o.chunks, o.buf), buf |-> Empty(o.buf.upto)]

\* A piece of k sentences and n runes, joined to what is there by a separator.
Joined(n, k, separator) ==
  LET b == out.buf
  IN  IF Fits(n)
      THEN [chunks |-> out.chunks,
            buf |-> [len  |-> (IF b.len = 0 THEN 0 ELSE b.len + separator) + n,
                     from |-> b.from, upto |-> b.upto + k, last |-> n]]
      ELSE [chunks |-> Append(out.chunks, b),
            buf |-> [len  |-> lastNRunes(b.len) + separator + n,
                     from |-> b.upto, upto |-> b.upto + k, last |-> n]]

TakeParagraph ==
  /\ sentences = <<>> /\ text # <<>>
  /\ LET p == Head(text)
     IN  p.len <= ChunkSize /\ out' = Joined(p.len, Len(p.sentences), 2)
  /\ text' = Tail(text)
  /\ UNCHANGED <<given, sentences>>

SplitParagraph ==
  /\ sentences = <<>> /\ text # <<>> /\ Head(text).len > ChunkSize
  /\ out' = Flush(out)
  /\ sentences' = Head(text).sentences
  /\ text' = Tail(text)
  /\ UNCHANGED given

\* chunkBySentences; the last sentence of the paragraph ends its last chunk.
TakeSentence ==
  /\ sentences # <<>>
  /\ LET o == Joined(Head(sentences), 1, 1)
     IN  out' = IF Tail(sentences) = <<>> THEN Flush(o) ELSE o
  /\ sentences' = Tail(sentences)
  /\ UNCHANGED <<given, text>>

FlushLast ==
  /\ sentences = <<>> /\ text = <<>> /\ out.buf.len > 0
  /\ out' = Flush(out)
  /\ UNCHANGED <<given, text, sentences>>

Chunked == sentences = <<>> /\ text = <<>> /\ out.buf.len = 0

ChunkNext == TakeParagraph \/ SplitParagraph \/ TakeSentence \/ FlushLast

ChunkSpec == ChunkInit /\ [][ChunkNext]_chunking

----
\* The sentences of a text, one after the other.
SentencesOf(t) ==
  LET count[i \in 0 .. Len(t)] == IF i = 0 THEN 0 ELSE count[i - 1] + Len(t[i].sentences)
  IN  count[Len(t)]

\* Every sentence is in one chunk and in one only, in the order of the text:
\* a flush, an overlap or a paragraph cut up between two others loses none and
\* repeats none (chunker.go:44-86), and all have been put in when it is over.
Consecutive ==
  /\ \A i \in 1 .. Len(out.chunks) :
       /\ out.chunks[i].from < out.chunks[i].upto
       /\ out.chunks[i].from = IF i = 1 THEN 0 ELSE out.chunks[i - 1].upto
  /\ out.buf.from = IF out.chunks = <<>> THEN 0 ELSE out.chunks[Len(out.chunks)].upto
TextIsCovered ==
  /\ Consecutive
  /\ out.buf.upto + Len(sentences) + SentencesOf(text) = SentencesOf(given)

\* A chunk exceeds ChunkSize by an overlap and a separator at most, unless it
\* ends in a sentence that is too long by itself (chunker.go:65-81, 103-118).
Bounded(b) ==
  \/ b.len <= ChunkSize + ChunkOverlap + 2
  \/ b.last > ChunkSize /\ b.len <= ChunkOverlap + 1 + b.last
ChunksBounded == \A i \in 1 .. Len(out.chunks) : Bounded(out.chunks[i])
====
