SPECIFICATION FairSpec
CONSTANTS
  Settings = {"s"}
  OldConfigs = {0}
  OldSchemas = {0}
  MaxWrites = 2
  Categories = {"movies"}
  Names = {"a:b", "a_b", "c"}
  OldNames = {"a:b"}
  SafeName <- Sanitized
  SafeCategory <- SanitizedCategory
  MaxPresetOps = 2
  Users = {"admin", "me"}
  Default = "admin"
  Keys = {"k"}
  MaxFailures = 2
  Window = 2
  MaxAttempts = 2
  MaxStamp = 6
  MaxRequests = 3
  MaxFaults = 2
  MaxEvents = 4
INVARIANTS TypeOK ListIsDirectory CredentialsAgree
PROPERTIES MigrationKeepsPresets ChangeEndsSessions LimitEnds EventuallyServes
CHECK_DEADLOCK FALSE
