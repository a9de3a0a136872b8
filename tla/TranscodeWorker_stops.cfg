SPECIFICATION TimerSpec
CONSTANTS
  j1 = j1
  j2 = j2
  Jobs = {j1}
  NoJob = NoJob
  MaxRuns = 2
  MaxStops = 1
  MaxAttempts = 3
  OutputKinds = {"Done", "Failed", "Garbled"}
INVARIANTS
  FinishedWasReceived ReportsOnce
PROPERTIES
  StopIsAnswered
CHECK_DEADLOCK FALSE
