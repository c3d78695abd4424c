---- MODULE FindingsScanProofs ----
(***************************************************************************)
(* The scan of the findings, for arrays of every length.                   *)
(***************************************************************************)
EXTENDS FindingsScan, TLAPS

\* What the flags and the counts say of the entries looked at so far.
Scanned ==
  /\ hasNonCompliant <=>
       \E j \in 1 .. seen : findings[j] # NotAnObject /\ IsNegative(findings[j])
  /\ allCompliant <=>
       \A j \in 1 .. seen : findings[j] # NotAnObject =>
                           ~IsNegative(findings[j]) /\ isExplicitlyCompliant(findings[j])
  /\ hasNonCompliant <=> nonCompliant > 0

\* The result once there is one.
Settled ==
  decision # "undecided" =>
    /\ seen = Len(findings)
    /\ decision = DecisionFromFindings(EntrySet)
    /\ decision = "noncomply" <=> hasNonCompliant

ScanInv == ScanTypeOK /\ Scanned /\ Settled

\* The flags over the whole array are conditions over its set.
LEMMA FlagsAreRule ==
  ASSUME ScanTypeOK, Scanned, seen = Len(findings)
  PROVE  /\ hasNonCompliant <=> \E f \in EntrySet \ {NotAnObject} : IsNegative(f)
         /\ allCompliant <=> \A f \in EntrySet \ {NotAnObject} :
                               ~IsNegative(f) /\ isExplicitlyCompliant(f)
         /\ EntrySet = {} <=> findings = <<>>
<1>1. EntrySet = {} <=> findings = <<>>
  <2>1. Len(findings) \in Nat /\ (Len(findings) = 0 <=> findings = <<>>)
    BY DEF ScanTypeOK
  <2>2. CASE findings = <<>>
    BY <2>2, <2>1 DEF EntrySet
  <2>3. CASE findings # <<>>
    <3>1. 1 \in 1 .. Len(findings)
      BY <2>1, <2>3
    <3>2. findings[1] \in EntrySet
      BY <3>1 DEF EntrySet
    <3>. QED
      BY <3>2, <2>3
  <2>. QED
    BY <2>2, <2>3
<1>2. \A f : f \in EntrySet <=> \E j \in 1 .. seen : f = findings[j]
  BY DEF EntrySet
<1>. QED
  BY <1>1, <1>2 DEF Scanned

\* What the substrings say of each word.
LEMMA WordsAreTold ==
  ASSUME NEW f \in Statuses
  PROVE  /\ IsNegative(f) <=> f \in {"non_compliant", "failed"}
         /\ isExplicitlyCompliant(f) <=> f \in {"compliant", "non_compliant", "incomplete"}
<1>1. f \in {"compliant", "non_compliant", "failed", "incomplete", "pending"}
  BY DEF Statuses, Markers
<1>2. CASE f = "compliant"
  BY <1>2 DEF IsNegative, isExplicitlyCompliant, Markers
<1>3. CASE f = "non_compliant"
  BY <1>3 DEF IsNegative, isExplicitlyCompliant, Markers
<1>4. CASE f = "failed"
  BY <1>4 DEF IsNegative, isExplicitlyCompliant, Markers
<1>5. CASE f = "incomplete"
  BY <1>5 DEF IsNegative, isExplicitlyCompliant, Markers
<1>6. CASE f = "pending"
  BY <1>6 DEF IsNegative, isExplicitlyCompliant, Markers
<1>. QED
  BY <1>1, <1>2, <1>3, <1>4, <1>5, <1>6

\* Where the array is not misread, what the substrings come to is the rule over
\* what the words mean.
LEMMA SubstringsFollowRule ==
  ASSUME EntrySet \subseteq FindingEntries, EntrySet = {} <=> findings = <<>>, ~Misread
  PROVE  DecisionFromFindings(EntrySet) = Rule
<1>. DEFINE objects == EntrySet \ {NotAnObject}
<1>1. /\ objects \subseteq Statuses
      /\ Statuses = {"compliant", "non_compliant", "failed", "incomplete", "pending"}
  BY DEF FindingEntries, Statuses, Markers
<1>2. /\ "negative" \in Said <=> \E f \in objects : f \in {"non_compliant", "failed"}
      /\ "ambiguous" \in Said <=> \E f \in objects : f \in {"incomplete", "pending"}
      /\ "compliant" \in Said <=> "compliant" \in objects
      /\ Said \subseteq {"compliant", "negative", "ambiguous"}
  BY <1>1 DEF Said, Meaning
<1>3. /\ (\E f \in objects : IsNegative(f)) <=> \E f \in objects : f \in {"non_compliant", "failed"}
      /\ (\A f \in objects : ~IsNegative(f) /\ isExplicitlyCompliant(f))
           <=> objects \subseteq {"compliant", "incomplete"}
  BY <1>1, WordsAreTold
<1>4. CASE \E f \in objects : IsNegative(f)
  BY <1>2, <1>3, <1>4 DEF Rule, DecisionFromFindings
<1>5. CASE ~ \E f \in objects : IsNegative(f)
  <2>1. "negative" \notin Said
    BY <1>2, <1>3, <1>5
  <2>2. CASE EntrySet # {} /\ objects \subseteq {"compliant", "incomplete"}
    <3>1. EntrySet \subseteq {"compliant", "incomplete", NotAnObject}
      BY <2>2
    <3>2. "incomplete" \notin EntrySet /\ "compliant" \in EntrySet
      BY <2>2, <3>1 DEF Misread
    <3>3. Said = {"compliant"}
      BY <1>2, <2>1, <2>2, <3>2 DEF NotAnObject
    <3>4. Rule = "comply"
      BY <2>1, <3>3 DEF Rule
    <3>5. DecisionFromFindings(EntrySet) = "comply"
      BY <1>3, <1>5, <2>2 DEF DecisionFromFindings
    <3>. QED
      BY <3>4, <3>5
  <2>3. CASE ~(EntrySet # {} /\ objects \subseteq {"compliant", "incomplete"})
    <3>1. Said # {"compliant"}
      BY <1>1, <1>2, <1>3, <1>5, <2>3
    <3>2. Rule = NoDecision
      BY <2>1, <3>1 DEF Rule
    <3>3. DecisionFromFindings(EntrySet) = NoDecision
      BY <1>3, <1>5, <2>3 DEF DecisionFromFindings
    <3>. QED
      BY <3>2, <3>3
  <2>. QED
    BY <2>2, <2>3
<1>. QED
  BY <1>4, <1>5

\* The invariant holds before the first finding is read,
LEMMA ScanInvInit == ScanInit => ScanInv
<1>. SUFFICES ASSUME ScanInit PROVE ScanInv
  OBVIOUS
<1>1. PICK n \in 0 .. MaxFindings : findings \in [1 .. n -> FindingEntries]
  BY DEF ScanInit
<1>2. findings \in Seq(FindingEntries) /\ Len(findings) = n
  BY <1>1, FindingsAssumption
<1>3. ScanTypeOK
  <2>1. seen \in 0 .. Len(findings)
    BY <1>2, FindingsAssumption DEF ScanInit
  <2>. QED
    BY <1>2, <2>1 DEF ScanInit, ScanTypeOK
<1>4. seen = 0 /\ hasNonCompliant = FALSE /\ allCompliant = TRUE /\ nonCompliant = 0
  BY DEF ScanInit
<1>5. \A j : j \notin 1 .. seen
  BY <1>4
<1>6. Scanned
  BY <1>4, <1>5 DEF Scanned
<1>7. Settled
  BY DEF ScanInit, Settled
<1>. QED
  BY <1>3, <1>6, <1>7 DEF ScanInv

\* and reading the next finding keeps it.
LEMMA ScanInvNext == ScanInv /\ [ScanNext]_scanning => ScanInv'
<1>. SUFFICES ASSUME ScanInv, [ScanNext]_scanning PROVE ScanInv'
  OBVIOUS
<1>. USE DEF ScanInv
<1>1. CASE Skip
  <2>1. ScanTypeOK' /\ Settled'
    BY <1>1 DEF Skip, ScanTypeOK, Settled, EntrySet
  <2>2. Scanned'
    BY <1>1 DEF Skip, ScanTypeOK, Scanned
  <2>. QED
    BY <2>1, <2>2
<1>2. CASE Look
  <2>1. ScanTypeOK' /\ Settled'
    BY <1>2 DEF Look, ScanTypeOK, Settled, EntrySet
  <2>. DEFINE f == findings[seen + 1]
  <2>2. /\ seen' = seen + 1 /\ findings' = findings /\ f # NotAnObject
        /\ hasNonCompliant' = (hasNonCompliant \/ IsNegative(f))
        /\ allCompliant' = (allCompliant /\ ~IsNegative(f) /\ isExplicitlyCompliant(f))
        /\ nonCompliant' = IF IsNegative(f) THEN nonCompliant + 1 ELSE nonCompliant
    BY <1>2 DEF Look
  <2>3. seen \in Nat /\ nonCompliant \in Nat
        /\ hasNonCompliant \in BOOLEAN /\ allCompliant \in BOOLEAN
    BY DEF ScanTypeOK
  <2>4. seen + 1 \in 1 .. (seen + 1) /\ \A j : j \in 1 .. (seen + 1) <=> j \in 1 .. seen \/ j = seen + 1
    BY <2>3
  <2>5. hasNonCompliant' <=>
          \E j \in 1 .. seen' : findings'[j] # NotAnObject /\ IsNegative(findings'[j])
    BY <2>2, <2>3, <2>4, Zenon DEF Scanned
  <2>6. allCompliant' <=>
          \A j \in 1 .. seen' : findings'[j] # NotAnObject =>
                               ~IsNegative(findings'[j]) /\ isExplicitlyCompliant(findings'[j])
    BY <2>2, <2>3, <2>4, Zenon DEF Scanned
  <2>7. hasNonCompliant' <=> nonCompliant' > 0
    <3>1. CASE IsNegative(f)
      <4>1. hasNonCompliant' /\ nonCompliant' = nonCompliant + 1
        BY <3>1, <2>2
      <4>. QED
        BY <4>1, <2>3
    <3>2. CASE ~IsNegative(f)
      <4>1. nonCompliant' = nonCompliant /\ (hasNonCompliant' <=> hasNonCompliant)
        BY <3>2, <2>2
      <4>. QED
        BY <4>1 DEF Scanned
    <3>. QED
      BY <3>1, <3>2
  <2>8. Scanned'
    BY <2>5, <2>6, <2>7 DEF Scanned, IsNegative, isExplicitlyCompliant
  <2>. QED
    BY <2>1, <2>8
<1>3. CASE Decide
  <2>1. Scanned'
    BY <1>3 DEF Decide, Scanned
  <2>2. seen = Len(findings)
    BY <1>3 DEF Decide
  <2>3. decision' = DecisionFromFindings(EntrySet) /\ (decision' = "noncomply" <=> hasNonCompliant)
    BY <1>3, <2>2, FlagsAreRule DEF Decide, DecisionFromFindings, NoDecision
  <2>4. ScanTypeOK'
    BY <1>3 DEF Decide, ScanTypeOK, NoDecision
  <2>5. Settled'
    BY <1>3, <2>2, <2>3 DEF Decide, Settled, EntrySet
  <2>. QED
    BY <2>1, <2>4, <2>5
<1>4. CASE UNCHANGED scanning
  BY <1>4 DEF scanning, ScanTypeOK, Scanned, Settled, EntrySet
<1>. QED
  BY <1>1, <1>2, <1>3, <1>4 DEF ScanNext

\* The scan looks at what there is and counts it, whatever the entries are.
THEOREM ScanTypeCorrect == ScanSpec => []ScanTypeOK
<1>1. ScanInv => ScanTypeOK
  BY DEF ScanInv
<1>. QED
  BY <1>1, ScanInvInit, ScanInvNext, PTL DEF ScanSpec

\* For an array of any length, in any order, the scan comes to the rule its
\* comments state over what the status words mean, unless the array is one that
\* the substrings misread.
THEOREM ScanIsCorrect == ScanSpec => []ScanFollowsRule
<1>1. ScanInv => ScanFollowsRule
  <2>. SUFFICES ASSUME ScanInv, decision # "undecided", ~Misread PROVE decision = Rule
    BY DEF ScanFollowsRule
  <2>1. EntrySet \subseteq FindingEntries
    BY DEF ScanInv, ScanTypeOK, EntrySet
  <2>2. seen = Len(findings) /\ decision = DecisionFromFindings(EntrySet)
    BY DEF ScanInv, Settled
  <2>3. EntrySet = {} <=> findings = <<>>
    BY <2>2, FlagsAreRule DEF ScanInv
  <2>. QED
    BY <2>1, <2>2, <2>3, SubstringsFollowRule
<1>. QED
  BY <1>1, ScanInvInit, ScanInvNext, PTL DEF ScanSpec

\* The verdict and the counts of the summary agree, for every array.
THEOREM SummaryAgrees == ScanSpec => []VerdictMatchesSummary
<1>1. ScanInv => VerdictMatchesSummary
  BY DEF ScanInv, Settled, Scanned, VerdictMatchesSummary
<1>. QED
  BY <1>1, ScanInvInit, ScanInvNext, PTL DEF ScanSpec
====
