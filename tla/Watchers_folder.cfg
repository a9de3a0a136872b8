SPECIFICATION FairSpec
CONSTANTS
  f1 = f1
  f2 = f2
  p1 = p1
  p2 = p2
  NWatchers = 1
  Presets = {p1, p2}
  Files = {f1}
  NoRow = NoRow
  Stability = 2
  StartsQueue = TRUE
  MaxRuntimes = 2
  MaxEvents = 3
  MaxJobs = 2
INVARIANTS
  TypeOK DuplicatesOverlap ListenersMatchRows
PROPERTIES
  OnlyQuietFiles PendingEnds
CHECK_DEADLOCK FALSE
