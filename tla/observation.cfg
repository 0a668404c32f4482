\* Four commits and four seconds, an Application that keeps one rollout and
\* may roll out a comparison one second old.
SPECIFICATION Spec
CONSTANTS
  Timeout = 2
  HistoryLimit = 1
  Staleness = 1
  Starts = {TRUE}
  MaxCommits = 4
  MaxTime = 4
INVARIANTS
  TypeOK
PROPERTIES
  ObservedIsReached
  AbandonedIsUnseen
CHECK_DEADLOCK FALSE
