SPECIFICATION FairSpec
CONSTANTS
  j1 = j1
  j2 = j2
  Jobs = {j1, j2}
  NoJob = NoJob
  MaxRuns = 3
  MaxStops = 0
  MaxAttempts = 2
  OutputKinds = {"Done", "Failed", "Garbled"}
INVARIANTS
  TypeOK IdleIsClean
PROPERTIES
  RunIsReported
CHECK_DEADLOCK FALSE
