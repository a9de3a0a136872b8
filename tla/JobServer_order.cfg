SPECIFICATION Spec
CONSTANTS
  NJobs = 4
  w1 = w1
  w2 = w2
  Workers = {}
  NoWorker = NoWorker
  Capable <- AllCapable
  MaxSockets = 0
  MaxCalls = 1
  MayKill = TRUE
  StartupBehaviors = {"Previous", "Active", "Stopped"}
INVARIANTS
  OrderFitsJobs
CHECK_DEADLOCK FALSE
