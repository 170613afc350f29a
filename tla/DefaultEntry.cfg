SPECIFICATION Spec
CONSTANTS
  Accounts <- MCAccounts
  NoAccount = NoAccount
  ManualOnly = {}
  Priority <- MCPriority
  Parallel = FALSE
  Readings <- MCReadings
INVARIANTS TypeOK Settles UpToDate
PROPERTIES NeverReturns
