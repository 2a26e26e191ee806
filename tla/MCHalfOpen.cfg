SPECIFICATION FairSpec
CONSTANTS
  Caller = {c1, c2}
  FailureThreshold = 2
  HalfOpenMaxCalls = 1
  Kind = {error}
  Excluded = {}
  Cancellable = TRUE
  MaxCount = 3
PROPERTIES HalfOpenResolves
