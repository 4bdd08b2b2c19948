CONSTANTS
  t1 = t1
  t2 = t2
  c1 = c1
  c2 = c2
  None = None
  Threads <- MCThreads
  Clients <- MCClients
  Creator = c1
  Waiters <- OneWaiter
  JobCalls = {"try"}
  MaxJobs = 2
  UINT32_MAX = 7
  Priorities <- OneOrNone
  MaxSubmit = 4
  CreateFails = TRUE
SPECIFICATION FairSpec
INVARIANTS
  TypeOK
  SafeFree
  NoLostJobSignal
  BlockedAddersOnlyWhenFull
  SleepingWaiterHasWork
  CountersMatch
PROPERTIES
  ImplementsContract
  AddReturns
  WaitReturnsEventually
  FreeCompletes
CHECK_DEADLOCK FALSE
