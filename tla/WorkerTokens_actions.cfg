\* Four actions, of which any may overlap; failures and restarts.
SPECIFICATION Spec
CONSTANTS
  MaxActions = 4
  MayFail = TRUE
  MayRestart = TRUE
INVARIANTS
  TypeOK
  SocketFollowsRow
  FlagIsAsAsked
  PausedWorkerGetsNoJob
CHECK_DEADLOCK FALSE
