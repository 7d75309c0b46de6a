SPECIFICATION Spec
CONSTANTS
  Assets = {a1}
  Workers = {w1,w2}
  NumChunks = 1
  MaxRetries = 1
  MaxCrashes = 1
  NoJob = NoJob
CHECK_DEADLOCK FALSE
INVARIANT NoDuplicateVectors
