SPECIFICATION EFairSpec
CONSTANTS
  Caller = {c1, c2, c3}
  FailureThreshold = 2
  HalfOpenMaxCalls = 1
  Kind = {client_error, server_error, timeout}
  Excluded = {client_error}
  Cancellable = TRUE
  MaxCount = 3
  MaxTries = 2
  BackedOff = {server_error, timeout}
  MaxRetries = 1
  Retried = {timeout}
  NotRetried = {}
  MaxTried = 3
INVARIANTS ClosedIsHealthy ProbesBounded RequestsBounded
PROPERTIES EndpointRecovers
