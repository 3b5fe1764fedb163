\* A deployment that only follows the head: no holes, and it catches up.
SPECIFICATION FairSpec
CONSTANTS
  MaxLedger = 3
  BatchSize = 2
  ChunkSize = 2
  MaxFaults = 2
  Calls = {"next", "incremental"}
INVARIANTS
  GapFree
PROPERTIES
  CatchesUp
