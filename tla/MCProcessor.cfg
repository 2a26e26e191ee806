SPECIFICATION FairSpec
CONSTANTS
  Event = {e1, e2}
  Worker = {w1, w2}
  Runner = w1
  NoEvent = NoEvent
  QueueCapacity = 2
  MaxQueue = 2
  Limit = 1
  Hooked = FALSE
  AskSuspends = TRUE
INVARIANTS ConcurrencyBound OneBatchEach OverdrawBound
PROPERTIES QueueDrains StopEnds
