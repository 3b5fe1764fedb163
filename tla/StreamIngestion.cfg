\* Four records, pages of three, chunks of two: pages end inside chunks and
\* chunks inside pages.  Two retries and four faults: the stream can be left
\* at the retry limit twice, which exhausts the service's attempts too, or
\* lose batches.  The process may stop for good (shut down, out of attempts or
\* of starts), so deadlock is not an error.
CONSTANTS
  MaxToken = 4
  BatchSize = 3
  ChunkSize = 2
  MaxRetries = 2
  ConfigCursor = 0
  LinkQueries = {TRUE, FALSE}
  MaxFaults = 4
  MaxStarts = 3
SPECIFICATION FairSpec
CHECK_DEADLOCK FALSE
INVARIANTS
  CursorAccountsForRecords
  SavedIsAccountedFor
  LossPerFailureBounded
PROPERTIES
  SavedNeverRegresses
  KeepsPromise
  RefusedStreamEnds
