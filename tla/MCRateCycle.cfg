SPECIFICATION IFairSpec
CONSTANTS
  Event = {e1, e2}
  Worker = {w1, w2}
  Runner = w1
  NoEvent = NoEvent
  QueueCapacity = 2
  MaxQueue = 0
  Limit = 1
  Hooked = TRUE
  AskSuspends = TRUE
  LimitRequests = 1
  LimitTokens = 0
  Required <- MCNoTokens
  Streamed = {}
  Given = {}
  MaxGiven = 0
  MaxCancels = 1
  MaxCloses = 0
PROPERTIES LimitIsPerCycle
CHECK_DEADLOCK FALSE
