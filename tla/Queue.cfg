CONSTANTS
  a = a
  b = b
  c = c
  d = d
  None = None
  Threads <- MCThreads
  Limits = {0, 1, 2}
  MaxElements = 4
SPECIFICATION FairSpec
INVARIANTS
  NoSleepingDequeuer
  NoSleepingEnqueuer
  StopUnblocks
  OwnedOnce
PROPERTIES
  ImplementsFifo
  StopReleases
CHECK_DEADLOCK FALSE
