CONSTANTS
  p = p
  q = q
  None = None
  Schedules <- MCSchedules
  SetSyncs <- OnlyP
  Pooled <- OnlyP
  Concurrent <- OnlyQ
  WithRunCb <- OnlyP
  WithAbortCb <- OnlyP
  Periods = {1}
  Delays = {0}
  Repeats = {0, 1}
  DefaultWake = 1
  MaxLate = 2
  MaxRuns = 2
  MaxUsers = 1
  ThreadFails = TRUE
  TimelyExit = FALSE
SPECIFICATION FairSpec
INVARIANTS
  FreedAfterExit
CHECK_DEADLOCK FALSE
