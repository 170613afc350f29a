SPECIFICATION MCSpec
CONSTANTS
  j1 = j1
  j2 = j2
  j3 = j3
  k1 = k1
  NoJob = NoJob
  Jobs <- MCJobs
  Keys <- MCKeys
  MaxClock = 4
  MaxFaults = 1
SYMMETRY Symmetry
INVARIANTS TypeOK NewestReading NewestFailure
