SPECIFICATION Spec
CONSTANTS
  SnapshotId = {s1}
  NoSnapshot = NoSnapshot
  Canary = {c1}
  BlueGreen = {b1}
  Operator = operator
  Requester = {c1, b1, operator}
  Old = old
  New = new
  Unknown = unknown
  Version = {old, new, unknown}
  InitialWeight = 5
  IncrementStep = 30
  MaxCanaryWeight = 50
  Weights = {0, 80}
  MaxRecords = 2
  MaxPlans = 1
  MaxCreations = 2
  MaxRollbacks = 2
  MaxDeployments = 1
CHECK_DEADLOCK FALSE
INVARIANTS
  RestoredOnce
  OneRollbackPerCanary
  MonitorTargetsPrevious
