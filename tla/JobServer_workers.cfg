SPECIFICATION Spec
CONSTANTS
  NJobs = 1
  w1 = w1
  w2 = w2
  Workers = {w1, w2}
  NoWorker = NoWorker
  Capable <- AllCapable
  MaxSockets = 2
  MaxCalls = 1
  MayKill = TRUE
  StartupBehaviors = {"Previous"}
SYMMETRY WorkerSymmetry
PROPERTIES
  DisabledWorkerGetsNoJob
CHECK_DEADLOCK FALSE
