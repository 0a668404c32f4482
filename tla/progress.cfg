\* Two updaters of one worker, one with a git source and an interval that is
\* edited; windows of 3 ticks (the floor, no more than
\* an interval and the longest wait) and 6 (twice the longer interval).
SPECIFICATION Spec
CONSTANTS
  u1 = u1
  u2 = u2
  Updaters = {u1, u2}
  Git = {u1}
  Failing = {u1}
  Intervals <- MCIntervals
  Multiplier = 2
  Floor = 3
  RevStaleAfter = 1
  Poll = 1
  MaxBackoff = 1
  MaxReconcile = 1
  Cap = 7
INVARIANTS
  TypeOK
  TracksExisting
  StaleMeansFailing
PROPERTIES
  HungIsRestarted
  OutageIsRestarted
