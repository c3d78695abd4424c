\* Each table by itself, with two or three goroutines and failing statements,
\* and the scan of every findings array of up to three entries.
CONSTANTS
  MaxTime = 3
  Faulty = TRUE
  Writers = {"w1", "w2", "w3"}
  Ttls = {0, 1}
  MaxItems = 3
  Savers = {"s1", "s2"}
  Second = 2
  MaxSnapshots = 3
  TaskTypes = {"review", "draft"}
  Entries <- SomeEntries
  Lookers = {"l1"}
  ReviewIds = {"r1", "r2"}
  Reviewers = {"u1", "u2"}
  Answers = {"", "comply", "noncomply"}
  MaxFindings = 3
SPECIFICATION Spec
INVARIANTS
  TypeOK
  LatestIsCurrent
  CurrentAreFew
  AckedIsFound
  LoadedIsRecent
  ScanFollowsRule
  VerdictMatchesSummary
CHECK_DEADLOCK FALSE
