SPECIFICATION Spec
CONSTANTS
  Task = {t1, t2, t3}
  Unknown = {u}
  MaxAttempts = 2
CHECK_DEADLOCK FALSE
INVARIANTS
  UpstreamSucceededFirst
  RefusesExactly
  SkippedExactly
  CompletedExactly
