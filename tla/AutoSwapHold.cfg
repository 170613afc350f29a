SPECIFICATION Spec
CONSTANTS
  Accounts <- MCAccounts
  NoAccount = NoAccount
  ManualOnly = {}
  Priority <- MCPriority
  Parallel = FALSE
  Observations <- MCObservations
  Cooldown = 1
  FlapWindow = 1
  MaxFlap = 3
  OscillationWindow = 2
  DegradedWindow = 3
  HoldWindow = 1
  MaxManual = 1
  MaxFaults = 1
INVARIANT HoldSuspends
