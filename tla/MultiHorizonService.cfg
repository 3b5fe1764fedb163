\* Two services with a stream each and a ledger worker on the same file.  The
\* processes may end, so deadlock is not an error.
CONSTANTS
  Services = 2
  Types = {"effects"}
  Multi = Multi
  MaxCursor = 2
  MaxMarks = 1
  MaxLaunches = 2
SPECIFICATION FairSpec
CHECK_DEADLOCK FALSE
INVARIANTS
  StaleIsSafe
  StoppedServiceSaved
PROPERTIES
  SignalledServiceStops
  StopAllCompletes
