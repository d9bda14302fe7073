SPECIFICATION FairSpec
CONSTANTS
  Threads = {t1, t2, t3, t4}
  MaxHandles = 2
  MaxReads = 2
INVARIANTS
  HandlesExclusive
  NoHandleLeaks
  NoLostWakeup
PROPERTIES
  EveryReadReturns
