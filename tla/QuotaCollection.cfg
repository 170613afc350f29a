SPECIFICATION BothSpec
CONSTANTS
  p1 = p1
  p2 = p2
  p3 = p3
  a1 = a1
  a2 = a2
  a3 = a3
  NoProc = NoProc
  Procs <- ThreeProcs
  Accounts <- ThreeAccounts
  ProviderOf <- Providers
  MinRefresh = 2
  BackoffMax = 4
  WaitBudget = 1
  SlotWait = 1
  GlobalSlots = 2
  ProviderSlots = 1
  Retries = 1
  RetryAfters = {0, 3}
  Lifetimes = {0, 2}
  LateWrites = FALSE
  MaxTime = 3
  MaxCalls = 2
  MaxFaults = 1
SYMMETRY Symmetry
INVARIANTS TypeOK OneCollectorPerAccount RequestIsReserved AnswersAreMeasurements RemovedStaysRemoved RequestsWithinSlots
PROPERTIES NoEarlyCollection ReuseIsCurrent
