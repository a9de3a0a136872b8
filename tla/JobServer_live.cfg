SPECIFICATION FairSpec
CONSTANTS
  NJobs = 1
  w1 = w1
  w2 = w2
  Workers = {w1}
  NoWorker = NoWorker
  Capable <- AllCapable
  MaxSockets = 1
  MaxCalls = 2
  MayKill = TRUE
  StartupBehaviors = {"Previous"}
PROPERTIES
  StopCompletes InitialisationEnds
CHECK_DEADLOCK FALSE
