SPECIFICATION Spec
CONSTANTS
  Assets = {a1}
  Workers = {w1}
  NumChunks = 1
  MaxRetries = 1
  MaxCrashes = 0
  NoJob = NoJob
CHECK_DEADLOCK FALSE
INVARIANT EveryIngestIsEmbedded
