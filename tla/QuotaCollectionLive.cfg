SPECIFICATION MCFairSpec
CONSTANTS
  p1 = p1
  p2 = p2
  p3 = p3
  a1 = a1
  a2 = a2
  a3 = a3
  NoProc = NoProc
  Procs <- TwoProcs
  Accounts <- OneAccount
  ProviderOf <- Providers
  MinRefresh = 2
  BackoffMax = 4
  WaitBudget = 1
  SlotWait = 1
  GlobalSlots = 1
  ProviderSlots = 1
  Retries = 0
  RetryAfters = {0}
  Lifetimes = {1}
  LateWrites = TRUE
  MaxTime = 2
  MaxCalls = 2
  MaxFaults = 1
PROPERTIES EveryCallReturns
