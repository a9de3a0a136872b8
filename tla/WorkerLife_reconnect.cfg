SPECIFICATION FairSpec
CONSTANTS
  BaseDelay = 1000
  MaxDelay = 60000
  Randoms = {0, 100}
  MaxFaults = 4
INVARIANTS
  TypeOK OneAttemptAtATime DelayFollowsOutage
PROPERTIES
  StoppedIsQuiet Reconnects UsageArrives
CHECK_DEADLOCK FALSE
