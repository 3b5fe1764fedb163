\* Every entry point, one crash or failure and more: safety and refinement.
SPECIFICATION Spec
CONSTANTS
  MaxLedger = 2
  BatchSize = 2
  ChunkSize = 2
  MaxFaults = 2
  Calls = {"range", "upto", "next", "stream", "incremental", "chunked"}
INVARIANTS
  RecordedWasProcessed
  UnrecordedBounded
  ReprocessedOnlyAfterLoss
  CompletedRangeIsDurable
PROPERTIES
  RefinesLog
