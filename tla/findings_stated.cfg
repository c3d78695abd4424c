\* Every findings array of up to two entries, against the comments on statuses
\* that are ambiguous and on what is no finding.
CONSTANTS
  Answers = {"", "comply", "noncomply"}
  MaxFindings = 2
SPECIFICATION ScanSpec
INVARIANT ComplianceIsStated
CHECK_DEADLOCK FALSE
