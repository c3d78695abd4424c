---- MODULE FindingsScan ----
(***************************************************************************)
(* The two loops of loop.go over an evaluator's findings array, entry by   *)
(* entry: the flags deriveDecisionFromEnv keeps and the counts             *)
(* deriveSummaryFromEnv prints.  LookResetting and LookAffirmativeFirst    *)
(* are faulty variants of Look, for testing the properties.                *)
(***************************************************************************)
EXTENDS Naturals, Sequences, Decisions

CONSTANTS MaxFindings    \* bound: the length of a findings array TLC tries

ASSUME FindingsAssumption == MaxFindings \in Nat

FindingEntries == Statuses \union {NotAnObject}

VARIABLES
  findings,         \* the array
  seen,             \* entries looked at
  hasNonCompliant, allCompliant,   \* the flags of the decision
  compliant, nonCompliant,         \* the counts of the summary
  decision          \* the result; "undecided" until the scan is over

scanning == <<findings, seen, hasNonCompliant, allCompliant, compliant, nonCompliant, decision>>

ScanTypeOK ==
  /\ findings \in Seq(FindingEntries)
  /\ seen \in 0 .. Len(findings)
  /\ hasNonCompliant \in BOOLEAN /\ allCompliant \in BOOLEAN
  /\ compliant \in Nat /\ nonCompliant \in Nat
  /\ decision \in {"undecided", "comply", "noncomply", NoDecision}

ScanInit ==
  /\ findings \in UNION {[1 .. n -> FindingEntries] : n \in 0 .. MaxFindings}
  /\ seen = 0
  /\ hasNonCompliant = FALSE /\ allCompliant = TRUE
  /\ compliant = 0 /\ nonCompliant = 0
  /\ decision = "undecided"

\* An entry that is no object is passed over, in both loops.
Skip ==
  /\ seen < Len(findings) /\ findings[seen + 1] = NotAnObject
  /\ seen' = seen + 1
  /\ UNCHANGED <<findings, hasNonCompliant, allCompliant, compliant, nonCompliant, decision>>

\* The status is tested for "non" and "fail" first, then for the affirmative
\* markers; the summary counts whatever is not negative as compliant.
LookResetting ==
  LET f == findings[seen + 1]
  IN  /\ seen < Len(findings) /\ f # NotAnObject
      /\ seen' = seen + 1
      /\ hasNonCompliant' = (hasNonCompliant \/ IsNegative(f))
      /\ allCompliant' = (~IsNegative(f) /\ isExplicitlyCompliant(f))
      /\ compliant' = IF IsNegative(f) THEN compliant ELSE compliant + 1
      /\ nonCompliant' = IF IsNegative(f) THEN nonCompliant + 1 ELSE nonCompliant
      /\ UNCHANGED <<findings, decision>>
LookAffirmativeFirst ==
  LET f == findings[seen + 1]
  IN  /\ seen < Len(findings) /\ f # NotAnObject
      /\ seen' = seen + 1
      /\ hasNonCompliant' = (hasNonCompliant \/ ~isExplicitlyCompliant(f))
      /\ allCompliant' = (allCompliant /\ isExplicitlyCompliant(f))
      /\ compliant' = IF IsNegative(f) THEN compliant ELSE compliant + 1
      /\ nonCompliant' = IF IsNegative(f) THEN nonCompliant + 1 ELSE nonCompliant
      /\ UNCHANGED <<findings, decision>>
Look ==
  LET f == findings[seen + 1]
  IN  /\ seen < Len(findings) /\ f # NotAnObject
      /\ seen' = seen + 1
      /\ hasNonCompliant' = (hasNonCompliant \/ IsNegative(f))
      /\ allCompliant' = (allCompliant /\ ~IsNegative(f) /\ isExplicitlyCompliant(f))
      /\ compliant' = IF IsNegative(f) THEN compliant ELSE compliant + 1
      /\ nonCompliant' = IF IsNegative(f) THEN nonCompliant + 1 ELSE nonCompliant
      /\ UNCHANGED <<findings, decision>>

\* An empty array was turned away before the scan.
Decide ==
  /\ seen = Len(findings) /\ decision = "undecided"
  /\ decision' = CASE findings = <<>> -> NoDecision
                   [] findings # <<>> /\ hasNonCompliant -> "noncomply"
                   [] findings # <<>> /\ ~hasNonCompliant /\ allCompliant -> "comply"
                   [] OTHER -> NoDecision
  /\ UNCHANGED <<findings, seen, hasNonCompliant, allCompliant, compliant, nonCompliant>>

ScanNext == Skip \/ Look \/ Decide

ScanSpec == ScanInit /\ [][ScanNext]_scanning

----
(* The mapping rule of loop.go:553-556, and the notes to it at 587-588, 599 *)
(* and 603-604, over what the status words mean: "Compliant", "Non-         *)
(* Compliant" or a failure, and anything else, which is ambiguous.          *)

Meaning == [compliant     |-> "compliant",
            non_compliant |-> "negative",
            failed        |-> "negative",
            incomplete    |-> "ambiguous",
            pending       |-> "ambiguous"]

EntrySet == {findings[j] : j \in 1 .. Len(findings)}

Said == {Meaning[f] : f \in EntrySet \ {NotAnObject}}

Rule == CASE "negative" \in Said -> "noncomply"
          [] Said = {"compliant"} -> "comply"
          [] OTHER -> NoDecision

\* The arrays for which the code departs from its comments: nothing in them is
\* negative or pending, and what would make them compliant is that "incomplete"
\* contains "complete", or that no entry at all is an object.
Misread ==
  /\ findings # <<>> /\ EntrySet \subseteq {"compliant", "incomplete", NotAnObject}
  /\ "incomplete" \in EntrySet \/ "compliant" \notin EntrySet

\* Whatever the order and the number of the entries, the scan's two flags come
\* to the rule of the comments, except for the arrays it misreads.
ScanFollowsRule ==
  decision # "undecided" /\ ~Misread => decision = Rule

\* The verdict and the summary shown beside it agree on what is non-compliant:
\* "noncomply" from findings exactly when the summary counts one (loop.go:627-643).
VerdictMatchesSummary ==
  decision # "undecided" => (decision = "noncomply" <=> nonCompliant > 0)

\* loop.go:587-588, "Ambiguous status (e.g. "INCOMPLETE", "PENDING", "UNKNOWN") -
\* don't claim compliance", and 556, "anything else (...) -> "" (no fabrication)":
\* the verdict is "comply" only if some finding says compliant and each one does.
ComplianceIsStated ==
  decision = "comply" => Said = {"compliant"}
====
