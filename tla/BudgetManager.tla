----------------------------- MODULE BudgetManager -----------------------------
(***************************************************************************)
(* Budget alerts (astroml/tracking: budget_manager.py, cost_tracker.py).   *)
(*                                                                         *)
(* evaluate reads the spend of the current period, and then, in a second   *)
(* step, fires the thresholds it has reached.  Each step asks the clock on *)
(* its own.  Several threads may evaluate; the manager's lock covers one   *)
(* threshold, the tracker's one read or one record.                        *)
(*                                                                         *)
(* There is one budget: budgets are evaluated one after another and share  *)
(* nothing but the lock.  A cost record is its period and costs one unit.  *)
(***************************************************************************)
EXTENDS Integers, Sequences, FiniteSetsExt

CONSTANTS
  Thread,
  Limit,              (* Values of limit_usd.                              *)
  NoBudget,
  Threshold,          (* thresholds, in percent of the limit.              *)
  max_records,        (* CostTracker: 100000 by default.                   *)
  max_alert_history,
  MaxPeriod,          (* Bound: the last period.                           *)
  MaxSpend            (* Bound: the records of a period.                   *)

VARIABLES
  period,       (* The period that the clock is in.                        *)
  budget,       (* BudgetManager._budgets: its limit, or NoBudget.         *)
  records,      (* CostTracker._records.                                   *)
  fired,        (* BudgetManager._fired.                                   *)
  alerts,       (* BudgetManager._alerts, with the period of their key.    *)
  evaluation,   (* What each thread holds of its evaluate call.            *)
  spent         (* History: the records of each period, dropped or not.    *)

vars == <<period, budget, records, fired, alerts, evaluation, spent>>

Idle == [at |-> "idle"]

Init ==
  /\ period = 0
  /\ budget = NoBudget
  /\ records = <<>>
  /\ fired = {}
  /\ alerts = <<>>
  /\ evaluation = [t \in Thread |-> Idle]
  /\ spent = [p \in 0 .. MaxPeriod |-> 0]

\* The end of a list that keeps at most n entries.
Kept(list, n) == IF Len(list) > n THEN Tail(list) ELSE list

NextPeriod ==
  /\ period < MaxPeriod
  /\ period' = period + 1
  /\ UNCHANGED <<budget, records, fired, alerts, evaluation, spent>>

-----------------------------------------------------------------------------
(* The tracker.                                                            *)

record ==
  /\ spent[period] < MaxSpend
  /\ records' = Kept(Append(records, period), max_records)
  /\ spent' = [spent EXCEPT ![period] = @ + 1]
  /\ UNCHANGED <<period, budget, fired, alerts, evaluation>>

reset ==
  /\ records' = <<>>
  /\ UNCHANGED <<period, budget, fired, alerts, evaluation, spent>>

\* Dropped records count in the unfiltered total only, and not in this one.
total_cost_usd(since) == Cardinality({i \in DOMAIN records : records[i] >= since})

-----------------------------------------------------------------------------
(* The manager.                                                            *)

\* A budget of the same name is replaced; what has fired stays.
add_budget(limit) ==
  /\ budget' = limit
  /\ UNCHANGED <<period, records, fired, alerts, evaluation, spent>>

remove_budget ==
  /\ budget' = NoBudget
  /\ UNCHANGED <<period, records, fired, alerts, evaluation, spent>>

\* The status is of the period at this moment.
_status_for(t) ==
  /\ evaluation[t].at = "idle"
  /\ budget # NoBudget
  /\ evaluation' = [evaluation EXCEPT ![t] =
       [at |-> "status", limit |-> budget, spent_usd |-> total_cost_usd(period)]]
  /\ UNCHANGED <<period, budget, records, fired, alerts, spent>>

Reached(e) == {h \in Threshold : 100 * e.spent_usd >= h * e.limit}

\* The key is that of the period at this later moment.
_fire_thresholds(t) ==
  LET e == evaluation[t] IN
  /\ e.at = "status"
  /\ evaluation' = [evaluation EXCEPT ![t] =
       IF Reached(e) = {} THEN Idle
       ELSE [at |-> "firing", limit |-> e.limit, period_key |-> period,
             thresholds |-> Reached(e)]]
  /\ UNCHANGED <<period, budget, records, fired, alerts, spent>>

\* The next threshold, lowest first.
Fire(t) ==
  LET e == evaluation[t]
      threshold == Min(e.thresholds)
      key == <<e.period_key, threshold>>
      rest == e.thresholds \ {threshold}
  IN
  /\ e.at = "firing"
  /\ fired' = fired \cup {key}
  /\ alerts' = IF key \in fired THEN alerts
               ELSE Kept(Append(alerts, [period |-> e.period_key, limit |-> e.limit,
                                         threshold |-> threshold]), max_alert_history)
  /\ evaluation' = [evaluation EXCEPT ![t] =
       IF rest = {} THEN Idle ELSE [e EXCEPT !.thresholds = rest]]
  /\ UNCHANGED <<period, budget, records, spent>>

Next ==
  \/ NextPeriod
  \/ record
  \/ reset
  \/ \E limit \in Limit : add_budget(limit)
  \/ remove_budget
  \/ \E t \in Thread : _status_for(t) \/ _fire_thresholds(t) \/ Fire(t)

Spec == Init /\ [][Next]_vars

-----------------------------------------------------------------------------
(* Properties.                                                             *)

\* src/astroml/tracking/budget_manager.py:167 "Emitted the first time a budget crosses
\* one of its thresholds": an alert that uses up a threshold of a period is about a
\* period whose spend reached that threshold.
AlertsAreForTheirPeriod ==
  \A i \in DOMAIN alerts :
    100 * spent[alerts[i].period] >= alerts[i].threshold * alerts[i].limit
=============================================================================
