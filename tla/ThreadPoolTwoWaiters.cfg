CONSTANTS
  t1 = t1
  t2 = t2
  c1 = c1
  c2 = c2
  None = None
  Threads <- MCThreads
  Clients <- MCClients
  Creator = c1
  Waiters <- TwoWaiters
  JobCalls = {}
  MaxJobs = 2
  UINT32_MAX = 7
  Priorities <- OnlyNone
  MaxSubmit = 1
  CreateFails = FALSE
SPECIFICATION FairSpec
PROPERTIES
  WaitReturnsEventually
CHECK_DEADLOCK FALSE
