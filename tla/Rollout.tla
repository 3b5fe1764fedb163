-------------------------------- MODULE Rollout --------------------------------
(***************************************************************************)
(* Canary and blue-green deployments over one RollbackManager              *)
(* (astroml/deployment: canary.py, blue_green.py, with Recovery).          *)
(*                                                                         *)
(* Both managers take a RollbackManager and file a rollback request when a *)
(* health check fails; operators drive deployments by hand in between, and *)
(* only step, test_green, switch and monitor look at the phase.            *)
(*                                                                         *)
(* A canary ramps from the stable version Old to the new version New; a    *)
(* blue-green deployment is prepared with Old on blue and New on green.    *)
(* Health checks are chosen freely.  Weights are percentages.              *)
(***************************************************************************)
EXTENDS Recovery

CONSTANTS
  Canary,           (* Canary deployments.                                 *)
  BlueGreen,        (* Blue-green deployments.                             *)
  Operator,         (* Whoever else calls trigger_rollback.                *)
  Old, New,         (* The version served before, and the one rolled out.  *)
  Unknown,          (* target_version of evaluate_health_metrics.          *)
  InitialWeight,    (* CanaryConfig: 5, 10 and 50 by default.              *)
  IncrementStep,
  MaxCanaryWeight,
  Weights,          (* Bound: the weights operators set by hand.           *)
  MaxRollbacks,     (* Bound: rollback_count of a blue-green deployment.   *)
  MaxDeployments    (* Bound: deployments, canary and blue-green, started. *)

ASSUME RolloutAssumption ==
  /\ Requester = Canary \cup BlueGreen \cup {Operator}
  /\ Canary \cap BlueGreen = {} /\ Operator \notin Canary \cup BlueGreen
  /\ Version = {Old, New, Unknown} /\ Old # New /\ Unknown \notin {Old, New}
  /\ InitialWeight \in 0 .. 100 /\ MaxCanaryWeight \in 0 .. 100
  /\ IncrementStep \in Nat
  /\ Weights \subseteq 0 .. 100
  /\ MaxRollbacks \in Nat /\ MaxDeployments \in Nat

VARIABLES
  canary,           (* CanaryManager._deployments.                         *)
  bluegreen         (* BlueGreenManager._deployments.                      *)

vars == <<recovery_vars, canary, bluegreen>>

CanaryPhase == {"absent", "deploying", "ramping", "stabilizing", "promoted",
                "rolled_back", "failed"}

CanaryDeployment ==
  [phase : CanaryPhase, current_weight : 0 .. 100, auto_promote : BOOLEAN,
   auto_rollback : BOOLEAN]

BGPhase == {"absent", "preparing", "testing", "monitoring", "completed",
            "rolled_back", "failed"}

BlueGreenDeployment ==
  [phase : BGPhase, blue_version : {Old, New}, green_version : {Old, New},
   active_env : {"blue", "green"}, auto_switch : BOOLEAN,
   auto_rollback : BOOLEAN, rollback_count : Nat]

Init ==
  /\ RecoveryInit
  /\ canary = [d \in Canary |->
       [phase |-> "absent", current_weight |-> 0, auto_promote |-> FALSE,
        auto_rollback |-> FALSE]]
  /\ bluegreen = [d \in BlueGreen |->
       [phase |-> "absent", blue_version |-> Old, green_version |-> New,
        active_env |-> "blue", auto_switch |-> FALSE, auto_rollback |-> FALSE,
        rollback_count |-> 0]]

-----------------------------------------------------------------------------
(* Canary deployments.                                                     *)

Started == {d \in Canary : canary[d].phase # "absent"}
           \cup {d \in BlueGreen : bluegreen[d].phase # "absent"}

start_canary(d, auto_promote, auto_rollback) ==
  /\ canary[d].phase = "absent"
  /\ Cardinality(Started) < MaxDeployments
  /\ canary' = [canary EXCEPT ![d] =
       [phase |-> "deploying", current_weight |-> InitialWeight,
        auto_promote |-> auto_promote, auto_rollback |-> auto_rollback]]
  /\ UNCHANGED <<recovery_vars, bluegreen>>

Lesser(a, b) == IF a < b THEN a ELSE b

\* A deployment's new phase and traffic.
Moved(c, phase, weight) ==
  [phase |-> phase, current_weight |-> weight,
   auto_promote |-> c.auto_promote, auto_rollback |-> c.auto_rollback]

HealthyStep(c) ==
  IF c.current_weight < MaxCanaryWeight
  THEN Moved(c, "ramping", Lesser(c.current_weight + IncrementStep, MaxCanaryWeight))
  ELSE IF c.auto_promote
  THEN Moved(c, "promoted", 100)
  ELSE Moved(c, "stabilizing", c.current_weight)

Unhealthy(c) ==
  Moved(c, IF c.auto_rollback THEN "rolled_back" ELSE "failed", c.current_weight)

\* The phase is left as it is: the next step fails, and files, again.
stepBug(d, healthy) ==
  /\ canary[d].phase \in {"deploying", "ramping"}
  /\ canary' = [canary EXCEPT ![d] = IF healthy THEN HealthyStep(@) ELSE @]
  /\ IF ~healthy /\ canary[d].auto_rollback
     THEN /\ Len(records) < MaxRecords
          /\ records' = Filed(d, Old, NoSnapshot, "approved")
     ELSE UNCHANGED records
  /\ UNCHANGED <<snapshots, plans, created, applied, bluegreen>>

\* An automatic rollback leaves current_weight as it was.
step(d, healthy) ==
  /\ canary[d].phase \in {"deploying", "ramping"}
  /\ canary' = [canary EXCEPT ![d] = IF healthy THEN HealthyStep(@) ELSE Unhealthy(@)]
  /\ IF ~healthy /\ canary[d].auto_rollback
     THEN /\ Len(records) < MaxRecords
          /\ records' = Filed(d, Old, NoSnapshot, "approved")
     ELSE UNCHANGED records
  /\ UNCHANGED <<snapshots, plans, created, applied, bluegreen>>

\* The three manual operations take a deployment in any phase.
promote(d) ==
  /\ canary[d].phase # "absent"
  /\ canary' = [canary EXCEPT ![d] = Moved(@, "promoted", 100)]
  /\ UNCHANGED <<recovery_vars, bluegreen>>

rollback_canary(d) ==
  /\ canary[d].phase # "absent"
  /\ canary' = [canary EXCEPT ![d] = Moved(@, "rolled_back", 0)]
  /\ UNCHANGED <<recovery_vars, bluegreen>>

set_weight(d, weight) ==
  /\ canary[d].phase # "absent"
  /\ canary' = [canary EXCEPT ![d] = Moved(@, @.phase, weight)]
  /\ UNCHANGED <<recovery_vars, bluegreen>>

-----------------------------------------------------------------------------
(* Blue-green deployments.                                                 *)

prepare(d, auto_switch, auto_rollback) ==
  /\ bluegreen[d].phase = "absent"
  /\ Cardinality(Started) < MaxDeployments
  /\ bluegreen' = [bluegreen EXCEPT ![d] =
       [phase |-> "preparing", blue_version |-> Old, green_version |-> New,
        active_env |-> "blue", auto_switch |-> auto_switch,
        auto_rollback |-> auto_rollback, rollback_count |-> 0]]
  /\ UNCHANGED <<recovery_vars, canary>>

\* The versions and the label of the active environment change together.
Swapped(b, phase, rollback_count) ==
  [phase |-> phase, blue_version |-> b.green_version,
   green_version |-> b.blue_version,
   active_env |-> IF b.active_env = "blue" THEN "green" ELSE "blue",
   auto_switch |-> b.auto_switch, auto_rollback |-> b.auto_rollback,
   rollback_count |-> rollback_count]

Switched(b) == Swapped(b, "completed", b.rollback_count)

RolledBack(b) == Swapped(b, "rolled_back", b.rollback_count + 1)

\* passes: one of the max_retries health checks succeeds.
test_green(d, passes) ==
  /\ bluegreen[d].phase = "preparing"
  /\ bluegreen' = [bluegreen EXCEPT ![d] =
       IF ~passes THEN [@ EXCEPT !.phase = "failed"]
       ELSE IF @.auto_switch THEN Switched(@)
       ELSE [@ EXCEPT !.phase = "testing"]]
  /\ UNCHANGED <<recovery_vars, canary>>

\* Also before any health check.
switch(d) ==
  /\ bluegreen[d].phase \in {"testing", "preparing"}
  /\ bluegreen' = [bluegreen EXCEPT ![d] = Switched(@)]
  /\ UNCHANGED <<recovery_vars, canary>>

\* In any phase, switched or not.
rollback_bluegreen(d) ==
  /\ bluegreen[d].phase # "absent"
  /\ bluegreen[d].rollback_count < MaxRollbacks
  /\ bluegreen' = [bluegreen EXCEPT ![d] = RolledBack(@)]
  /\ UNCHANGED <<recovery_vars, canary>>

\* The request names the version that is being served.
monitorBug(d, healthy) ==
  /\ bluegreen[d].phase \in {"completed", "monitoring"}
  /\ IF healthy \/ ~bluegreen[d].auto_rollback
     THEN /\ bluegreen' = [bluegreen EXCEPT ![d].phase = "monitoring"]
          /\ UNCHANGED records
     ELSE /\ Len(records) < MaxRecords
          /\ bluegreen[d].rollback_count < MaxRollbacks
          /\ records' = Filed(d, bluegreen[d].blue_version, NoSnapshot, "approved")
          /\ bluegreen' = [bluegreen EXCEPT ![d] = RolledBack(@)]
  /\ UNCHANGED <<snapshots, plans, created, applied, canary>>

\* The request is filed before the versions are swapped back.
monitor(d, healthy) ==
  /\ bluegreen[d].phase \in {"completed", "monitoring"}
  /\ IF healthy \/ ~bluegreen[d].auto_rollback
     THEN /\ bluegreen' = [bluegreen EXCEPT ![d].phase = "monitoring"]
          /\ UNCHANGED records
     ELSE /\ Len(records) < MaxRecords
          /\ bluegreen[d].rollback_count < MaxRollbacks
          /\ records' = Filed(d, bluegreen[d].green_version, NoSnapshot, "approved")
          /\ bluegreen' = [bluegreen EXCEPT ![d] = RolledBack(@)]
  /\ UNCHANGED <<snapshots, plans, created, applied, canary>>

-----------------------------------------------------------------------------
(* Requests filed by anybody else: by hand for a stable version, with or   *)
(* without a snapshot, or by evaluate_health_metrics, which does not know  *)
(* the version and approves a failure rate but not a latency.              *)
RequestRollback ==
  \E status \in {"requested", "approved"} :
    \/ \E s \in SnapshotId \cup {NoSnapshot} : trigger_rollback(Operator, Old, s, status)
    \/ trigger_rollback(Operator, Unknown, NoSnapshot, status)

Next ==
  \/ (RecoveryNext \/ RequestRollback) /\ UNCHANGED <<canary, bluegreen>>
  \/ \E d \in Canary :
       \/ \E promoting, reverting \in BOOLEAN : start_canary(d, promoting, reverting)
       \/ \E healthy \in BOOLEAN : step(d, healthy)
       \/ promote(d)
       \/ rollback_canary(d)
       \/ \E weight \in Weights : set_weight(d, weight)
  \/ \E d \in BlueGreen :
       \/ \E switching, reverting \in BOOLEAN : prepare(d, switching, reverting)
       \/ \E passes \in BOOLEAN : test_green(d, passes)
       \/ switch(d)
       \/ rollback_bluegreen(d)
       \/ \E healthy \in BOOLEAN : monitor(d, healthy)

Spec == Init /\ [][Next]_vars

-----------------------------------------------------------------------------
(* Properties.                                                             *)

\* Types: weights stay percentages.
TypeOK ==
  /\ RecoveryTypeOK
  /\ canary \in [Canary -> CanaryDeployment]
  /\ bluegreen \in [BlueGreen -> BlueGreenDeployment]

FiledBy(d) == {i \in DOMAIN records : records[i].requested_by = d}

\* A canary that is still being rolled out has no rollback filed against it, and
\* no canary ever has two, although promote, rollback and set_weight take it in
\* any phase: one failure asks for one rollback.
OneRollbackPerCanary ==
  \A d \in Canary :
    /\ canary[d].phase \in {"deploying", "ramping", "stabilizing"} => FiledBy(d) = {}
    /\ \A i, j \in FiledBy(d) : i = j

\* While a blue-green deployment is monitored it serves the new version, and
\* every rollback the monitor filed targets the old one: an automatic rollback
\* never names, or brings back, the version that failed.
MonitorTargetsPrevious ==
  \A d \in BlueGreen :
    /\ bluegreen[d].phase \in {"completed", "monitoring"} =>
         bluegreen[d].blue_version = New
    /\ \A i \in FiledBy(d) : records[i].target_version = Old
=============================================================================
