\* Two records on one page, with the next links that Horizon sends.
CONSTANTS
  MaxToken = 2
  BatchSize = 2
  ChunkSize = 2
  MaxRetries = 2
  ConfigCursor = 0
  LinkQueries = {TRUE}
  MaxFaults = 0
  MaxStarts = 2
SPECIFICATION Spec
CHECK_DEADLOCK FALSE
PROPERTY SavedCanBeResumed
