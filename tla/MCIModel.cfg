SPECIFICATION ISpec
CONSTANTS
  Event = {e1, e2, e3}
  Worker = {w1, w2}
  Runner = w1
  NoEvent = NoEvent
  QueueCapacity = 2
  MaxQueue = 0
  Limit = 1
  Hooked = TRUE
  AskSuspends = FALSE
  LimitRequests = 0
  LimitTokens = 0
  Required <- MCNoTokens
  Streamed = {}
  Given = {}
  MaxGiven = 0
  MaxCancels = 1
  MaxCloses = 1
INVARIANTS AtMostOnce OwnBatchSuffices NoResidue
PROPERTIES ResultsFinal
CHECK_DEADLOCK FALSE
