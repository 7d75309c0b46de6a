SPECIFICATION FairSpec
CONSTANTS
  Assets = {a1}
  Workers = {w1}
  NumChunks = 2
  MaxRetries = 1
  MaxCrashes = 2
  NoJob = NoJob
CHECK_DEADLOCK FALSE
PROPERTIES
  EveryUploadSettles
