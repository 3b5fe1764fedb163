------------------------------- MODULE Recovery -------------------------------
(***************************************************************************)
(* Rollback requests, state snapshots and recovery plans                   *)
(* (astroml/deployment: rollback_manager.py, state_snapshot.py,            *)
(* disaster_recovery.py, recovery_procedures.py).                          *)
(*                                                                         *)
(* RollbackManager and DisasterRecoveryManager are handed the same         *)
(* StateSnapshotManager.  None of them has a lock: a call runs to its end, *)
(* and what is hard is the order of the calls.  A snapshot can be restored *)
(* once; approve_rollback lets a failed request be tried again, and        *)
(* execute_recovery runs a plan in whatever status it is.                  *)
(*                                                                         *)
(* A snapshot's state is left out: whether apply_fn accepts it is chosen   *)
(* freely, and so is the outcome of a recovery procedure's steps.          *)
(***************************************************************************)
EXTENDS Integers, Sequences, FiniteSets

CONSTANTS
  SnapshotId,     (* Snapshots: a name and the second of their creation.   *)
  NoSnapshot,     (* snapshot_id is None.                                  *)
  Requester,      (* requested_by, and for a deployment which one it is.   *)
  Version,        (* Model versions a rollback can target.                 *)
  MaxRecords,     (* Bound: rollback requests.                             *)
  MaxPlans,       (* Bound: recovery plans.                                *)
  MaxCreations    (* Bound: snapshots created under one id.                *)

ASSUME RecoveryAssumption ==
  /\ NoSnapshot \notin SnapshotId
  /\ MaxRecords \in Nat /\ MaxPlans \in Nat /\ MaxCreations \in Nat

VARIABLES
  snapshots,      (* "absent", "saved", or "restored": restored_at is set. *)
  records,        (* The rollback requests, in the order they were filed.  *)
  plans,          (* The recovery plans.                                   *)
  created,        (* History: how often each id was created.               *)
  applied         (* History: how often restore_snapshot returned a state. *)

recovery_vars == <<snapshots, records, plans, created, applied>>

RollbackRecord ==
  [status : {"requested", "approved", "executed", "failed"},
   snapshot_id : SnapshotId \cup {NoSnapshot},
   requested_by : Requester, target_version : Version]

RecoveryPlan ==
  [status : {"planned", "completed", "failed"}, snapshot_id : SnapshotId,
   snapshot_restored : BOOLEAN]

RecoveryInit ==
  /\ snapshots = [s \in SnapshotId |-> "absent"]
  /\ records = <<>>
  /\ plans = <<>>
  /\ created = [s \in SnapshotId |-> 0]
  /\ applied = [s \in SnapshotId |-> 0]

-----------------------------------------------------------------------------
(* Snapshots.                                                              *)

\* Two calls with one name in the same second get the same id, and the second
\* snapshot replaces the first.
create_snapshot(s) ==
  /\ created[s] < MaxCreations
  /\ snapshots' = [snapshots EXCEPT ![s] = "saved"]
  /\ created' = [created EXCEPT ![s] = @ + 1]
  /\ UNCHANGED <<records, plans, applied>>

cleanup_snapshot(s) ==
  /\ snapshots[s] # "absent"
  /\ snapshots' = [snapshots EXCEPT ![s] = "absent"]
  /\ UNCHANGED <<records, plans, created, applied>>

\* restored_at is set before apply_fn is asked, so that a refused snapshot is
\* used up as well.
restore_snapshot(s, accepts) ==
  /\ snapshots' = [snapshots EXCEPT ![s] = "restored"]
  /\ applied' = [applied EXCEPT ![s] = IF accepts THEN @ + 1 ELSE @]

-----------------------------------------------------------------------------
(* Rollback requests.                                                      *)

\* trigger_rollback: the request is filed, already approved for critical
\* severity or with auto_approve, and requested otherwise.
Filed(by, target, s, status) ==
  Append(records, [status |-> status, snapshot_id |-> s,
                   requested_by |-> by, target_version |-> target])

trigger_rollback(by, target, s, status) ==
  /\ Len(records) < MaxRecords
  /\ records' = Filed(by, target, s, status)
  /\ UNCHANGED <<snapshots, plans, created, applied>>

\* A failed request can be approved again.
approve_rollback(i) ==
  /\ records[i].status \in {"requested", "failed"}
  /\ records' = [records EXCEPT ![i].status = "approved"]
  /\ UNCHANGED <<snapshots, plans, created, applied>>

\* The failed restore is not noticed.
execute_rollbackBug(i, accepts) ==
  LET s == records[i].snapshot_id IN
  /\ records[i].status = "approved"
  /\ records' = [records EXCEPT ![i].status = "executed"]
  /\ IF s # NoSnapshot /\ snapshots[s] = "saved" THEN restore_snapshot(s, accepts)
     ELSE UNCHANGED <<snapshots, applied>>
  /\ UNCHANGED <<plans, created>>

\* restore_snapshot raises for a snapshot that is missing, was restored before,
\* or is refused by apply_fn; the request is then failed.
execute_rollback(i, accepts) ==
  LET s == records[i].snapshot_id
      restorable == s # NoSnapshot /\ snapshots[s] = "saved"
  IN
  /\ records[i].status = "approved"
  /\ records' = [records EXCEPT ![i].status =
                   IF s = NoSnapshot \/ (restorable /\ accepts)
                   THEN "executed" ELSE "failed"]
  /\ IF restorable THEN restore_snapshot(s, accepts)
     ELSE UNCHANGED <<snapshots, applied>>
  /\ UNCHANGED <<plans, created>>

-----------------------------------------------------------------------------
(* Recovery plans.                                                         *)

plan_recovery(s) ==
  /\ snapshots[s] # "absent"
  /\ Len(plans) < MaxPlans
  /\ plans' = Append(plans, [status |-> "planned", snapshot_id |-> s,
                             snapshot_restored |-> FALSE])
  /\ UNCHANGED <<snapshots, records, created, applied>>

\* RecoveryProcedure.execute: "invalid" is the ValueError of validate.
Procedure == {"success", "failed", "invalid"}

\* No status is refused.  An invalid procedure raises after the snapshot has
\* been restored, and the plan then reports that it was not.
execute_recovery(p, accepts, procedure) ==
  LET s == plans[p].snapshot_id
      restored == snapshots[s] = "saved" /\ accepts
  IN
  /\ plans' = [plans EXCEPT ![p] =
       [status |-> IF restored /\ procedure = "success" THEN "completed" ELSE "failed",
        snapshot_id |-> s, snapshot_restored |-> restored /\ procedure # "invalid"]]
  /\ IF snapshots[s] = "saved" THEN restore_snapshot(s, accepts)
     ELSE UNCHANGED <<snapshots, applied>>
  /\ UNCHANGED <<records, created>>

-----------------------------------------------------------------------------
\* Everything but trigger_rollback, whose callers the next module adds.
RecoveryNext ==
  \/ \E s \in SnapshotId :
       \/ create_snapshot(s)
       \/ cleanup_snapshot(s)
       \/ plan_recovery(s)
  \/ \E i \in DOMAIN records :
       \/ approve_rollback(i)
       \/ \E accepts \in BOOLEAN : execute_rollback(i, accepts)
  \/ \E p \in DOMAIN plans, accepts \in BOOLEAN, procedure \in Procedure :
       execute_recovery(p, accepts, procedure)

-----------------------------------------------------------------------------
(* Properties.                                                             *)

RecoveryTypeOK ==
  /\ snapshots \in [SnapshotId -> {"absent", "saved", "restored"}]
  /\ records \in Seq(RollbackRecord)
  /\ plans \in Seq(RecoveryPlan)
  /\ created \in [SnapshotId -> Nat]
  /\ applied \in [SnapshotId -> Nat]

\* The rollbacks and the plans that report the restoration of s.
Restorers(s) ==
  {<<"rollback", i>> : i \in {j \in DOMAIN records :
      records[j].snapshot_id = s /\ records[j].status = "executed"}}
  \cup
  {<<"plan", p>> : p \in {q \in DOMAIN plans :
      plans[q].snapshot_id = s /\ plans[q].snapshot_restored}}

\* However often failed rollbacks are approved again, plans are executed again
\* and both managers reach for the same snapshot, its state is applied at most
\* once for every time it was created, and every rollback that says executed and
\* every plan that says restored has an application of its own.
RestoredOnce ==
  \A s \in SnapshotId :
    /\ applied[s] + (IF snapshots[s] = "saved" THEN 1 ELSE 0) <= created[s]
    /\ Cardinality(Restorers(s)) <= applied[s]
=============================================================================
