SPECIFICATION Spec
CONSTANTS
  Claim = {c1}
  NoClaim = NoClaim
  MaxRetries = 2
  MaxSubmits = 2
  MaxLoads = 2
  MaxStarts = 3
  MaxFaults = 3
CHECK_DEADLOCK FALSE
INVARIANTS
  DuplicatesAreExplained
  FinalStatusIsEarned
  AttemptsBounded
PROPERTY
  PendingIsResolved
