SPECIFICATION Spec
CONSTANTS
  Holders = {p1, p2}
  GoogleAccounts = {a1, a2}
  NoLogin = NoLogin
  MaxSignIns = 0
  MaxGoogleJobs = 2
  MaxGoogleFaults = 0
CHECK_DEADLOCK FALSE
INVARIANTS RemovalTakesItsOwn
