SPECIFICATION Spec
CONSTANTS
  Caller = {c1, c2}
  FailureThreshold = 2
  HalfOpenMaxCalls = 1
  Kind = {error}
  Excluded = {}
  Cancellable = FALSE
  MaxCount = 3
PROPERTIES OpensOnStreak
