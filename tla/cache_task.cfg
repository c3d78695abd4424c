\* Two kinds of task that store the same text, and no failure.
CONSTANTS
  MaxTime = 2
  Faulty = FALSE
  Entries <- SomeEntries
  TaskTypes = {"review", "draft"}
  Lookers = {"l1"}
  Writers = {"w1"}
  Ttls = {0}
  MaxItems = 1
  Savers = {"s1"}
  Second = 2
  MaxSnapshots = 1
  ReviewIds = {"r1"}
  Reviewers = {"u1"}
  Answers = {"", "comply", "noncomply"}
  MaxFindings = 1
SPECIFICATION Spec
INVARIANT OutputIsOfTheTask
CHECK_DEADLOCK FALSE
