SPECIFICATION Spec
CONSTANTS
  Rule = {r1}
  Targets = {1, 2}
  Weights = {0, 1}
  Thread = {k1, k2}
  Session = {s1}
  Strategy = {"weighted", "round_robin", "sticky", "canary"}
  NoSession = NoSession
  NoTarget = NoTarget
  NoUpdate = NoUpdate
  MaxCalls = 3
  MaxUpdates = 1
  Hash <- MCHash
SYMMETRY Threads
CHECK_DEADLOCK FALSE
PROPERTIES
  ServedByLiveTarget
  RoundRobinTakesTurns
