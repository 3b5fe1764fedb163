SPECIFICATION Spec
CONSTANTS
  Thread = {t1, t2}
  Limit = {1, 2}
  NoBudget = NoBudget
  Threshold = {50, 100}
  max_records = 2
  max_alert_history = 3
  MaxPeriod = 1
  MaxSpend = 2
INVARIANT AlertsAreForTheirPeriod
