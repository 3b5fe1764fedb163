\* Two addresses, validators and admins alike, and one account.
SPECIFICATION Spec
CONSTANTS
  Address = {v1, v2}
  Account = {a1}
  MaxScore = 1
  Scores = {0, 1, 2}
  Thresholds = {0, 1, 2}
  BatchLength = 2
  MaxAccurate = 1
  MinReputation = 1
  MinConfidence = 1
  ConsensusThreshold = 2
INVARIANTS
  TypeOK
  OneReportEach
  ReportCountsAddUp
  PendingAppealHasReports
PROPERTIES
  VerdictChangesOnlyBy
  DecisionIsFinal
