\* One writer, no failures, one push by somebody else, and the error the
\* vendored go-git reports a lost race with.
SPECIFICATION FairSpec
CONSTANTS
  w1 = w1
  w2 = w2
  v1 = v1
  v2 = v2
  Writers <- OneWriter
  Values <- TwoValues
  Blank = blank
  Foreign = foreign
  ConflictErrors <- VendoredConflictError
  Failures <- NoFailure
  MaxCalls = 1
  MaxForeign = 1
PROPERTIES
  RejectedPushIsReplayed
CHECK_DEADLOCK FALSE
