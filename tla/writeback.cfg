\* Two writers of one branch, three calls, two pushes by others, every failure,
\* and push conflicts both recognised and not.
SPECIFICATION Spec
CONSTANTS
  w1 = w1
  w2 = w2
  v1 = v1
  v2 = v2
  Writers <- TwoWriters
  Values <- TwoValues
  Blank = blank
  Foreign = foreign
  ConflictErrors <- AnyConflictError
  Failures <- AnyFailure
  MaxCalls = 3
  MaxForeign = 1
INVARIANTS
  TypeOK
  NoLostUpdate
  AnswerHolds
  AtMostOneCommit
PROPERTIES
  KeepsPromise
CHECK_DEADLOCK FALSE
