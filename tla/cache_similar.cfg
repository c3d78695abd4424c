\* Two similar texts of a tenant, one of them embedded, and no failure.
CONSTANTS
  MaxTime = 2
  Faulty = FALSE
  Entries <- SomeEntries
  TaskTypes = {"review"}
  Lookers = {"l1"}
  Writers = {"w1"}
  Ttls = {0}
  MaxItems = 1
  Savers = {"s1"}
  Second = 2
  MaxSnapshots = 1
  ReviewIds = {"r1"}
  Reviewers = {"u1"}
  Answers = {"", "comply", "noncomply"}
  MaxFindings = 1
SPECIFICATION Spec
PROPERTY SimilarTextIsServed
CHECK_DEADLOCK FALSE
