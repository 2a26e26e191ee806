SPECIFICATION Spec
CONSTANTS
  x1 = x1
  x2 = x2
  x3 = x3
  Id = {x1, x2, x3}
  Thread = {t1, t2}
  NoLock = NoLock
  NoThread = NoThread
  Modes <- MCModes
  MaxCalls = 4
INVARIANTS DictAndOrder LossIsOneSided
PROPERTIES NoTornRead IsOrderedSet
CHECK_DEADLOCK FALSE
