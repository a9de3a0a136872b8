SPECIFICATION Spec
CONSTANTS
  j1 = j1
  j2 = j2
  w1 = w1
  w2 = w2
  Jobs = {j1}
  Workers = {w1, w2}
  NoWorker = NoWorker
  MaxTokens = 4
  MayRestart = TRUE
INVARIANTS
  TypeOK OneUploadPerJob OneOutputLeasePerJob CompletedIsSettled
CHECK_DEADLOCK FALSE
