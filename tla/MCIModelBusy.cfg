SPECIFICATION IFairSpec
CONSTANTS
  Event = {e1, e2}
  Worker = {w1, w2}
  Runner = w1
  NoEvent = NoEvent
  QueueCapacity = 1
  MaxQueue = 0
  Limit = 1
  Hooked = TRUE
  AskSuspends = TRUE
  LimitRequests = 2
  LimitTokens = 0
  Required <- MCNoTokens
  Streamed <- MCStreamed
  Given <- MCGiven
  MaxGiven = 2
  MaxCancels = 1
  MaxCloses = 1
INVARIANTS SlotsConserved PopFinds NoLostWakeup
PROPERTIES EveryCallReturns
CHECK_DEADLOCK FALSE
