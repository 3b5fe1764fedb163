---------------------------- MODULE Rollout_proofs -----------------------------
(***************************************************************************)
(* That a canary asks for one rollback at most, that the monitor of a      *)
(* blue-green deployment never asks for the version that failed, and that  *)
(* no snapshot is applied oftener than it was created, for any number of   *)
(* deployments, snapshots, requests and plans.                             *)
(*                                                                         *)
(* The three are inductive once they say more: what a deployment that has  *)
(* not started has filed, which versions an environment holds before it is *)
(* switched, and that the rollbacks and plans that report a restoration    *)
(* are finitely many.                                                      *)
(***************************************************************************)
EXTENDS Rollout, FiniteSetTheorems, TLAPS

\* Nothing is filed before a canary's rollback, and only one request after it.
CanaryInv ==
  \A d \in Canary :
    /\ canary[d].phase \in {"absent", "deploying", "ramping", "stabilizing"} =>
         FiledBy(d) = {}
    /\ \A i, j \in FiledBy(d) : i = j

\* Which version each environment holds before and after the switch.
BlueGreenInv ==
  \A d \in BlueGreen :
    /\ bluegreen[d].phase \in {"absent", "preparing", "testing"} =>
         bluegreen[d].blue_version = Old /\ bluegreen[d].green_version = New
    /\ bluegreen[d].phase \in {"completed", "monitoring"} =>
         bluegreen[d].blue_version = New /\ bluegreen[d].green_version = Old
    /\ \A i \in FiledBy(d) : records[i].target_version = Old

\* RestoredOnce for one snapshot, with finitely many restorers.
RestoredInv(s) ==
  /\ applied[s] + (IF snapshots[s] = "saved" THEN 1 ELSE 0) <= created[s]
  /\ IsFiniteSet(Restorers(s))
  /\ Cardinality(Restorers(s)) <= applied[s]

RestoreInv == \A s \in SnapshotId : RestoredInv(s)

IInv == TypeOK /\ CanaryInv /\ BlueGreenInv /\ RestoreInv

-----------------------------------------------------------------------------
(* Requests and restorers.                                                 *)

\* Filing adds one request at the end and changes no other.
LEMMA Filing ==
  ASSUME RecoveryTypeOK, NEW by \in Requester, NEW target \in Version,
         NEW s \in SnapshotId \cup {NoSnapshot}, NEW st \in {"requested", "approved"},
         records' = Filed(by, target, s, st)
  PROVE  LET n == Len(records) + 1 IN
         /\ records' \in Seq(RollbackRecord)
         /\ DOMAIN records' = DOMAIN records \cup {n} /\ n \notin DOMAIN records
         /\ \A i \in DOMAIN records : records'[i] = records[i]
         /\ records'[n].status = st /\ records'[n].snapshot_id = s
         /\ records'[n].requested_by = by /\ records'[n].target_version = target
<1> DEFINE r == [status |-> st, snapshot_id |-> s,
                 requested_by |-> by, target_version |-> target]
<1>1. /\ r \in RollbackRecord
      /\ r.status = st /\ r.snapshot_id = s
      /\ r.requested_by = by /\ r.target_version = target
  BY DEF RollbackRecord
<1>2. records' = Append(records, r) /\ records \in Seq(RollbackRecord)
  BY DEF Filed, RecoveryTypeOK
<1> HIDE DEF r
<1>3. /\ Append(records, r) \in Seq(RollbackRecord)
      /\ \A i \in 1 .. Len(records) : Append(records, r)[i] = records[i]
      /\ Append(records, r)[Len(records) + 1] = r
      /\ DOMAIN records = 1 .. Len(records) /\ Len(records) \in Nat
      /\ DOMAIN Append(records, r) = 1 .. Len(records) + 1
  BY <1>1, <1>2
<1>4. 1 .. Len(records) + 1 = 1 .. Len(records) \cup {Len(records) + 1}
      /\ Len(records) + 1 \notin 1 .. Len(records)
  BY <1>3
<1> QED
  BY <1>1, <1>2, <1>3, <1>4

\* A new status leaves everything else about the requests as it was.
LEMMA NewStatus ==
  ASSUME RecoveryTypeOK, NEW i \in DOMAIN records,
         NEW st \in {"requested", "approved", "executed", "failed"},
         records' = [records EXCEPT ![i].status = st]
  PROVE  /\ records' \in Seq(RollbackRecord)
         /\ DOMAIN records' = DOMAIN records
         /\ records'[i].status = st
         /\ \A j \in DOMAIN records :
              /\ records'[j].requested_by = records[j].requested_by
              /\ records'[j].target_version = records[j].target_version
              /\ records'[j].snapshot_id = records[j].snapshot_id
              /\ j # i => records'[j].status = records[j].status
<1>1. records \in Seq(RollbackRecord) /\ records[i] \in RollbackRecord
  BY DEF RecoveryTypeOK
<1>2. [records[i] EXCEPT !.status = st] \in RollbackRecord
  BY <1>1 DEF RollbackRecord
<1>3. records' = [records EXCEPT ![i] = [records[i] EXCEPT !.status = st]]
  OBVIOUS
<1>4. records' \in Seq(RollbackRecord) /\ DOMAIN records' = DOMAIN records
  BY <1>1, <1>2, <1>3
<1> QED
  BY <1>1, <1>3, <1>4 DEF RollbackRecord

\* Restorers that are among the old ones keep the count.
LEMMA RestorersShrink ==
  ASSUME NEW s \in SnapshotId, RestoredInv(s), applied[s] \in Nat,
         Restorers(s)' \subseteq Restorers(s), applied'[s] \in Nat,
         applied[s] <= applied'[s]
  PROVE  IsFiniteSet(Restorers(s)') /\ Cardinality(Restorers(s)') <= applied'[s]
<1>1. IsFiniteSet(Restorers(s)') /\ Cardinality(Restorers(s)') <= Cardinality(Restorers(s))
  BY FS_Subset DEF RestoredInv
<1>2. Cardinality(Restorers(s)) \in Nat /\ Cardinality(Restorers(s)') \in Nat
  BY <1>1, FS_CardinalityType DEF RestoredInv
<1> QED
  BY <1>1, <1>2 DEF RestoredInv

\* One more restorer is paid for by one more application.
LEMMA RestorersGrow ==
  ASSUME NEW s \in SnapshotId, RestoredInv(s), applied[s] \in Nat, NEW x,
         Restorers(s)' \subseteq Restorers(s) \cup {x}, applied'[s] = applied[s] + 1
  PROVE  IsFiniteSet(Restorers(s)') /\ Cardinality(Restorers(s)') <= applied'[s]
<1>1. /\ IsFiniteSet(Restorers(s) \cup {x})
      /\ Cardinality(Restorers(s) \cup {x}) \in
           {Cardinality(Restorers(s)), Cardinality(Restorers(s)) + 1}
  BY FS_AddElement DEF RestoredInv
<1>2. IsFiniteSet(Restorers(s)')
      /\ Cardinality(Restorers(s)') <= Cardinality(Restorers(s) \cup {x})
  BY <1>1, FS_Subset
<1>3. Cardinality(Restorers(s)) \in Nat /\ Cardinality(Restorers(s)') \in Nat
  BY <1>2, FS_CardinalityType DEF RestoredInv
<1> QED
  BY <1>1, <1>2, <1>3 DEF RestoredInv

\* Filing a request restores nothing.
LEMMA FilingRestoresNothing ==
  ASSUME TypeOK, RestoreInv, NEW by \in Requester, NEW target \in Version,
         NEW s \in SnapshotId \cup {NoSnapshot}, NEW st \in {"requested", "approved"},
         records' = Filed(by, target, s, st),
         UNCHANGED <<snapshots, plans, created, applied>>
  PROVE  RestoreInv' /\ RecoveryTypeOK'
<1>0. RecoveryTypeOK
  BY DEF TypeOK
<1>1. RecoveryTypeOK'
  BY <1>0, Filing DEF RecoveryTypeOK
<1>2. ASSUME NEW t \in SnapshotId PROVE Restorers(t)' \subseteq Restorers(t)
  <2>1. /\ DOMAIN records' = DOMAIN records \cup {Len(records) + 1}
        /\ \A j \in DOMAIN records : records'[j] = records[j]
        /\ records'[Len(records) + 1].status = st
    BY <1>0, Filing
  <2> QED
    BY <2>1 DEF Restorers
<1>3. ASSUME NEW t \in SnapshotId PROVE RestoredInv(t)'
  <2>1. applied[t] \in Nat /\ applied'[t] = applied[t] /\ RestoredInv(t)
    BY <1>0 DEF RecoveryTypeOK, RestoreInv
  <2>2. IsFiniteSet(Restorers(t)') /\ Cardinality(Restorers(t)') <= applied'[t]
    BY <1>2, <2>1, RestorersShrink
  <2> QED
    BY <2>1, <2>2 DEF RestoredInv
<1> QED
  BY <1>1, <1>3 DEF RestoreInv

-----------------------------------------------------------------------------
(* Recovery: what it does to the deployments' requests.                    *)

\* No request is filed, and none changes hands or target.
SameRequests ==
  /\ DOMAIN records' = DOMAIN records
  /\ \A j \in DOMAIN records :
       /\ records'[j].requested_by = records[j].requested_by
       /\ records'[j].target_version = records[j].target_version

\* Such steps leave the deployments' invariants alone.
LEMMA SameRequestsInv ==
  ASSUME CanaryInv, BlueGreenInv, SameRequests, UNCHANGED <<canary, bluegreen>>
  PROVE  CanaryInv' /\ BlueGreenInv'
<1>1. \A d : FiledBy(d)' = FiledBy(d)
  BY DEF SameRequests, FiledBy
<1>2. CanaryInv'
  BY <1>1 DEF CanaryInv
<1>3. BlueGreenInv'
  BY <1>1 DEF BlueGreenInv, SameRequests, FiledBy
<1> QED
  BY <1>2, <1>3

\* Creating, cleaning up and planning apply no snapshot.
LEMMA SnapshotIInv ==
  ASSUME IInv, UNCHANGED <<canary, bluegreen>>, NEW s \in SnapshotId,
         create_snapshot(s) \/ cleanup_snapshot(s) \/ plan_recovery(s)
  PROVE  IInv'
<1> USE DEF IInv, create_snapshot, cleanup_snapshot, plan_recovery
<1>1. TypeOK'
  <2>1. [status |-> "planned", snapshot_id |-> s, snapshot_restored |-> FALSE]
          \in RecoveryPlan
    BY DEF RecoveryPlan
  <2>2. CASE plan_recovery(s)
    BY <2>1, <2>2 DEF TypeOK, RecoveryTypeOK
  <2>3. CASE create_snapshot(s)
    BY <2>3 DEF TypeOK, RecoveryTypeOK
  <2>4. CASE cleanup_snapshot(s)
    BY <2>4 DEF TypeOK, RecoveryTypeOK
  <2> QED
    BY <2>2, <2>3, <2>4
<1>2. CanaryInv' /\ BlueGreenInv'
  BY SameRequestsInv DEF SameRequests
<1>3. ASSUME NEW t \in SnapshotId PROVE Restorers(t)' \subseteq Restorers(t)
  <2>1. CASE UNCHANGED <<records, plans>>
    BY <2>1 DEF Restorers
  <2>2. CASE plan_recovery(s)
    <3>1. /\ DOMAIN plans' = DOMAIN plans \cup {Len(plans) + 1}
          /\ \A q \in DOMAIN plans : plans'[q] = plans[q]
          /\ ~plans'[Len(plans) + 1].snapshot_restored
      BY <2>2 DEF TypeOK, RecoveryTypeOK
    <3> QED
      BY <2>2, <3>1 DEF Restorers
  <2> QED
    BY <2>1, <2>2
<1>4. ASSUME NEW t \in SnapshotId PROVE RestoredInv(t)'
  <2>1. applied[t] \in Nat /\ created[t] \in Nat /\ applied'[t] = applied[t]
        /\ RestoredInv(t)
    BY DEF TypeOK, RecoveryTypeOK, RestoreInv
  <2>2. applied'[t] + (IF snapshots'[t] = "saved" THEN 1 ELSE 0) <= created'[t]
    BY <2>1 DEF RestoredInv, TypeOK, RecoveryTypeOK
  <2> QED
    BY <1>3, <2>1, <2>2, RestorersShrink DEF RestoredInv
<1> QED
  BY <1>1, <1>2, <1>4 DEF RestoreInv

\* Approving restores nothing: a failed request was no restorer.
LEMMA ApproveIInv ==
  ASSUME IInv, UNCHANGED <<canary, bluegreen>>, NEW i \in DOMAIN records,
         approve_rollback(i)
  PROVE  IInv'
<1> USE NewStatus DEF IInv, approve_rollback
<1>1. TypeOK'
  BY DEF TypeOK, RecoveryTypeOK
<1>2. CanaryInv' /\ BlueGreenInv'
  BY SameRequestsInv DEF SameRequests, TypeOK
<1>3. ASSUME NEW t \in SnapshotId PROVE Restorers(t)' \subseteq Restorers(t)
  BY DEF Restorers, TypeOK
<1>4. ASSUME NEW t \in SnapshotId PROVE RestoredInv(t)'
  BY <1>3, RestorersShrink DEF RestoredInv, RestoreInv, TypeOK, RecoveryTypeOK
<1> QED
  BY <1>1, <1>2, <1>4 DEF RestoreInv

\* A restoration uses the snapshot up, and is counted.
LEMMA Restoring ==
  ASSUME RecoveryTypeOK, NEW s \in SnapshotId, NEW accepts \in BOOLEAN,
         RestoreInv, snapshots[s] = "saved", restore_snapshot(s, accepts),
         UNCHANGED created
  PROVE  /\ snapshots' \in [SnapshotId -> {"absent", "saved", "restored"}]
         /\ applied' \in [SnapshotId -> Nat]
         /\ \A t \in SnapshotId :
              /\ applied[t] \in Nat /\ applied'[t] \in Nat
              /\ applied'[t] = IF t = s /\ accepts THEN applied[t] + 1 ELSE applied[t]
              /\ applied'[t] + (IF snapshots'[t] = "saved" THEN 1 ELSE 0) <= created'[t]
<1> USE DEF RecoveryTypeOK, restore_snapshot
<1>1. /\ snapshots' \in [SnapshotId -> {"absent", "saved", "restored"}]
      /\ applied' \in [SnapshotId -> Nat]
  OBVIOUS
<1>2. ASSUME NEW t \in SnapshotId
      PROVE  /\ applied[t] \in Nat /\ applied'[t] \in Nat /\ created[t] \in Nat
             /\ applied'[t] = IF t = s /\ accepts THEN applied[t] + 1 ELSE applied[t]
  OBVIOUS
<1>3. ASSUME NEW t \in SnapshotId
      PROVE  applied'[t] + (IF snapshots'[t] = "saved" THEN 1 ELSE 0) <= created'[t]
  <2>1. applied[t] + (IF snapshots[t] = "saved" THEN 1 ELSE 0) <= created[t]
    BY DEF RestoreInv, RestoredInv
  <2>2. CASE t = s
    BY <1>2, <2>1, <2>2
  <2>3. CASE t # s
    BY <1>2, <2>1, <2>3
  <2> QED
    BY <2>2, <2>3
<1> QED
  BY <1>1, <1>2, <1>3

\* A rollback that says executed with a snapshot has just had it applied.
LEMMA ExecuteRollbackIInv ==
  ASSUME IInv, UNCHANGED <<canary, bluegreen>>, NEW i \in DOMAIN records,
         NEW accepts \in BOOLEAN, execute_rollback(i, accepts)
  PROVE  IInv'
<1> DEFINE s == records[i].snapshot_id
           restorable == s # NoSnapshot /\ snapshots[s] = "saved"
           st == IF s = NoSnapshot \/ (restorable /\ accepts) THEN "executed" ELSE "failed"
<1>0. RecoveryTypeOK /\ RestoreInv /\ s \in SnapshotId \cup {NoSnapshot}
  <2>1. RecoveryTypeOK /\ RestoreInv
    BY DEF IInv, TypeOK
  <2>2. records[i] \in RollbackRecord
    BY <2>1 DEF RecoveryTypeOK
  <2> QED
    BY <2>1, <2>2 DEF RollbackRecord
<1>1. records[i].status = "approved" /\ records' = [records EXCEPT ![i].status = st]
      /\ UNCHANGED <<plans, created>>
      /\ IF restorable THEN restore_snapshot(s, accepts) ELSE UNCHANGED <<snapshots, applied>>
  BY DEF execute_rollback
<1> HIDE DEF st
<1>2. st \in {"executed", "failed"}
  BY DEF st
<1>3. /\ records' \in Seq(RollbackRecord)
      /\ DOMAIN records' = DOMAIN records
      /\ records'[i].status = st
      /\ \A j \in DOMAIN records :
           /\ records'[j].requested_by = records[j].requested_by
           /\ records'[j].target_version = records[j].target_version
           /\ records'[j].snapshot_id = records[j].snapshot_id
           /\ j # i => records'[j].status = records[j].status
  BY <1>0, <1>1, <1>2, NewStatus
<1>4. CanaryInv' /\ BlueGreenInv'
  BY <1>3, SameRequestsInv DEF IInv, SameRequests
<1>5. ASSUME NEW t \in SnapshotId
      PROVE  /\ Restorers(t)' \subseteq Restorers(t) \cup {<<"rollback", i>>}
             /\ st # "executed" \/ t # s => Restorers(t)' \subseteq Restorers(t)
  BY <1>1, <1>3 DEF Restorers
<1>6. CASE restorable
  <2>1. s \in SnapshotId /\ snapshots[s] = "saved" /\ restore_snapshot(s, accepts)
        /\ s # NoSnapshot /\ (st = "executed" => accepts)
    BY <1>0, <1>1, <1>6 DEF st
  <2> HIDE DEF s
  <2>2. TypeOK'
    BY <1>0, <1>1, <1>3, <2>1, Restoring DEF IInv, TypeOK, RecoveryTypeOK
  <2>3. ASSUME NEW t \in SnapshotId PROVE RestoredInv(t)'
    <3>1. RestoredInv(t) /\ applied[t] \in Nat /\ applied'[t] \in Nat
          /\ applied'[t] + (IF snapshots'[t] = "saved" THEN 1 ELSE 0) <= created'[t]
          /\ applied'[t] = IF t = s /\ accepts THEN applied[t] + 1 ELSE applied[t]
      BY <1>0, <1>1, <2>1, Restoring DEF RestoreInv
    <3>2. CASE t = s /\ st = "executed"
      BY <1>5, <2>1, <3>1, <3>2, RestorersGrow DEF RestoredInv
    <3>3. CASE ~(t = s /\ st = "executed")
      BY <1>5, <3>1, <3>3, RestorersShrink DEF RestoredInv
    <3> QED
      BY <3>2, <3>3
  <2> QED
    BY <1>4, <2>2, <2>3 DEF IInv, RestoreInv
<1>7. CASE ~restorable
  <2>1. UNCHANGED <<snapshots, applied>> /\ (st = "executed" => s = NoSnapshot)
    BY <1>1, <1>7 DEF st
  <2>2. TypeOK'
    BY <1>0, <1>1, <1>3, <2>1 DEF IInv, TypeOK, RecoveryTypeOK
  <2>3. ASSUME NEW t \in SnapshotId PROVE RestoredInv(t)'
    <3>1. RestoredInv(t) /\ applied[t] \in Nat
      BY <1>0 DEF RestoreInv, RecoveryTypeOK
    <3>2. Restorers(t)' \subseteq Restorers(t)
      BY <1>5, <2>1, RecoveryAssumption
    <3> QED
      BY <1>1, <2>1, <3>1, <3>2, RestorersShrink DEF RestoredInv
  <2> QED
    BY <1>4, <2>2, <2>3 DEF IInv, RestoreInv
<1> QED
  BY <1>6, <1>7

\* A plan that reports its restoration has just had it applied, however often it
\* was executed before.
LEMMA ExecuteRecoveryIInv ==
  ASSUME IInv, UNCHANGED <<canary, bluegreen>>, NEW p \in DOMAIN plans,
         NEW accepts \in BOOLEAN, NEW procedure \in Procedure,
         execute_recovery(p, accepts, procedure)
  PROVE  IInv'
<1> DEFINE s == plans[p].snapshot_id
           restored == snapshots[s] = "saved" /\ accepts
           st == IF restored /\ procedure = "success" THEN "completed" ELSE "failed"
           sr == restored /\ procedure # "invalid"
<1>0. RecoveryTypeOK /\ RestoreInv /\ s \in SnapshotId /\ plans \in Seq(RecoveryPlan)
  <2>1. RecoveryTypeOK /\ RestoreInv /\ plans \in Seq(RecoveryPlan)
    BY DEF IInv, TypeOK, RecoveryTypeOK
  <2>2. plans[p] \in RecoveryPlan
    BY <2>1
  <2> QED
    BY <2>1, <2>2 DEF RecoveryPlan
<1>1. /\ plans' = [plans EXCEPT ![p] =
                      [status |-> st, snapshot_id |-> s, snapshot_restored |-> sr]]
      /\ UNCHANGED <<records, created>>
      /\ IF snapshots[s] = "saved" THEN restore_snapshot(s, accepts)
         ELSE UNCHANGED <<snapshots, applied>>
  BY DEF execute_recovery
<1>2. st \in {"completed", "failed"} /\ sr \in BOOLEAN
      /\ (sr => snapshots[s] = "saved" /\ accepts)
  OBVIOUS
<1> HIDE DEF st, sr, s
<1>3. /\ plans' \in Seq(RecoveryPlan) /\ DOMAIN plans' = DOMAIN plans
      /\ plans'[p].snapshot_id = s /\ plans'[p].snapshot_restored = sr
      /\ \A q \in DOMAIN plans : q # p => plans'[q] = plans[q]
  <2>1. [status |-> st, snapshot_id |-> s, snapshot_restored |-> sr] \in RecoveryPlan
    BY <1>0, <1>2 DEF RecoveryPlan
  <2> QED
    BY <1>0, <1>1, <2>1
<1>4. CanaryInv' /\ BlueGreenInv'
  BY <1>1, SameRequestsInv DEF IInv, SameRequests
<1>5. ASSUME NEW t \in SnapshotId
      PROVE  /\ Restorers(t)' \subseteq Restorers(t) \cup {<<"plan", p>>}
             /\ ~sr \/ t # s => Restorers(t)' \subseteq Restorers(t)
  <2>1. plans'[p].snapshot_restored => sr
    BY <1>3, Zenon
  <2> QED
    BY <1>1, <1>3, <2>1 DEF Restorers
<1>6. CASE snapshots[s] = "saved"
  <2>1. restore_snapshot(s, accepts) /\ (sr => accepts)
    BY <1>1, <1>2, <1>6
  <2>2. TypeOK'
    BY <1>0, <1>1, <1>3, <1>6, <2>1, Restoring DEF IInv, TypeOK, RecoveryTypeOK
  <2>3. ASSUME NEW t \in SnapshotId PROVE RestoredInv(t)'
    <3>1. RestoredInv(t) /\ applied[t] \in Nat /\ applied'[t] \in Nat
          /\ applied'[t] + (IF snapshots'[t] = "saved" THEN 1 ELSE 0) <= created'[t]
          /\ applied'[t] = IF t = s /\ accepts THEN applied[t] + 1 ELSE applied[t]
      BY <1>0, <1>1, <1>6, <2>1, Restoring DEF RestoreInv
    <3>2. CASE t = s /\ sr
      BY <1>5, <2>1, <3>1, <3>2, RestorersGrow DEF RestoredInv
    <3>3. CASE ~(t = s /\ sr)
      BY <1>5, <3>1, <3>3, RestorersShrink DEF RestoredInv
    <3> QED
      BY <3>2, <3>3
  <2> QED
    BY <1>4, <2>2, <2>3 DEF IInv, RestoreInv
<1>7. CASE snapshots[s] # "saved"
  <2>1. UNCHANGED <<snapshots, applied>> /\ ~sr
    BY <1>1, <1>2, <1>7
  <2>2. TypeOK'
    BY <1>0, <1>1, <1>3, <2>1 DEF IInv, TypeOK, RecoveryTypeOK
  <2>3. ASSUME NEW t \in SnapshotId PROVE RestoredInv(t)'
    <3>1. RestoredInv(t) /\ applied[t] \in Nat
      BY <1>0 DEF RestoreInv, RecoveryTypeOK
    <3>2. Restorers(t)' \subseteq Restorers(t)
      BY <1>5, <2>1
    <3> QED
      BY <1>1, <2>1, <3>1, <3>2, RestorersShrink DEF RestoredInv
  <2> QED
    BY <1>4, <2>2, <2>3 DEF IInv, RestoreInv
<1> QED
  BY <1>6, <1>7

-----------------------------------------------------------------------------
(* Requests and deployments.                                               *)

\* Requests by operators are nobody's deployment's.
LEMMA RequestIInv ==
  ASSUME IInv, RequestRollback, UNCHANGED <<canary, bluegreen>> PROVE IInv'
<1>1. PICK target \in Version, s \in SnapshotId \cup {NoSnapshot},
           st \in {"requested", "approved"} : trigger_rollback(Operator, target, s, st)
  BY RolloutAssumption DEF RequestRollback
<1>2. records' = Filed(Operator, target, s, st)
      /\ UNCHANGED <<snapshots, plans, created, applied>>
  BY <1>1 DEF trigger_rollback
<1>3. Operator \in Requester /\ RecoveryTypeOK /\ TypeOK /\ RestoreInv
      /\ \A d \in Canary \cup BlueGreen : d # Operator
  BY RolloutAssumption DEF IInv, TypeOK
<1>4. RestoreInv' /\ RecoveryTypeOK'
  BY <1>2, <1>3, FilingRestoresNothing
<1>5. ASSUME NEW d \in Canary \cup BlueGreen
      PROVE  FiledBy(d)' = FiledBy(d)
             /\ \A i \in FiledBy(d) : records'[i] = records[i]
  BY <1>2, <1>3, Filing DEF FiledBy
<1>6. CanaryInv' /\ BlueGreenInv'
  BY <1>5 DEF IInv, CanaryInv, BlueGreenInv
<1> QED
  BY <1>4, <1>6 DEF IInv, TypeOK

\* Nothing that a snapshot, request or plan shows depends on the deployments.
LEMMA RecoveryUnchanged ==
  ASSUME IInv, UNCHANGED recovery_vars
  PROVE  RecoveryTypeOK' /\ RestoreInv' /\ (\A d : FiledBy(d)' = FiledBy(d))
         /\ records' = records
<1> USE DEF recovery_vars
<1>1. RecoveryTypeOK'
  BY DEF IInv, TypeOK, RecoveryTypeOK
<1>2. \A s \in SnapshotId : Restorers(s)' = Restorers(s)
  BY DEF Restorers
<1>3. RestoreInv'
  BY <1>2 DEF IInv, RestoreInv, RestoredInv
<1> QED
  BY <1>1, <1>3 DEF FiledBy

\* A canary's step that files nothing keeps the invariant, unless it starts a
\* finished rollout again.
LEMMA CanaryQuiet ==
  ASSUME IInv, NEW d \in Canary, NEW c \in CanaryDeployment,
         canary' = [canary EXCEPT ![d] = c], UNCHANGED <<recovery_vars, bluegreen>>,
         c.phase \in {"deploying", "ramping", "stabilizing"} =>
           canary[d].phase \in {"absent", "deploying", "ramping", "stabilizing"},
         c.phase # "absent"
  PROVE  IInv'
<1>1. RecoveryTypeOK' /\ RestoreInv' /\ (\A e : FiledBy(e)' = FiledBy(e)) /\ records' = records
  BY RecoveryUnchanged
<1>2. canary \in [Canary -> CanaryDeployment]
  BY DEF IInv, TypeOK
<1>3. canary' \in [Canary -> CanaryDeployment] /\ canary'[d] = c
      /\ \A e \in Canary : e # d => canary'[e] = canary[e]
  BY <1>2
<1>4. CanaryInv'
  BY <1>1, <1>3 DEF IInv, CanaryInv
<1>5. BlueGreenInv'
  BY <1>1 DEF IInv, BlueGreenInv
<1> QED
  BY <1>1, <1>3, <1>4, <1>5 DEF IInv, TypeOK

\* A deployment with another phase and weight is one.
LEMMA Updated ==
  ASSUME NEW c \in CanaryDeployment, NEW p \in CanaryPhase, NEW w \in 0 .. 100
  PROVE  Moved(c, p, w) \in CanaryDeployment /\ Moved(c, p, w).phase = p
BY DEF Moved, CanaryDeployment

\* Steps and manual operations of a canary.
LEMMA CanaryIInv ==
  ASSUME IInv, NEW d \in Canary,
         \/ \E promoting, reverting \in BOOLEAN : start_canary(d, promoting, reverting)
         \/ \E healthy \in BOOLEAN : step(d, healthy)
         \/ promote(d)
         \/ rollback_canary(d)
         \/ \E weight \in Weights : set_weight(d, weight)
  PROVE  IInv'
<1>0. /\ canary \in [Canary -> CanaryDeployment] /\ canary[d] \in CanaryDeployment
      /\ canary[d].phase \in CanaryPhase /\ canary[d].current_weight \in 0 .. 100
      /\ canary[d].auto_promote \in BOOLEAN /\ canary[d].auto_rollback \in BOOLEAN
  BY DEF IInv, TypeOK, CanaryDeployment
<1>1. ASSUME NEW promoting \in BOOLEAN, NEW reverting \in BOOLEAN,
             start_canary(d, promoting, reverting)
      PROVE  IInv'
  <2> DEFINE c == [phase |-> "deploying", current_weight |-> InitialWeight,
                   auto_promote |-> promoting, auto_rollback |-> reverting]
  <2>1. c \in CanaryDeployment /\ c.phase = "deploying"
    BY RolloutAssumption DEF CanaryDeployment, CanaryPhase
  <2>2. canary[d].phase = "absent" /\ canary' = [canary EXCEPT ![d] = c]
        /\ UNCHANGED <<recovery_vars, bluegreen>>
    BY <1>1 DEF start_canary
  <2> QED
    BY <2>1, <2>2, CanaryQuiet
<1>2. CASE promote(d)
  <2> DEFINE c == Moved(canary[d], "promoted", 100)
  <2>1. c \in CanaryDeployment /\ c.phase = "promoted"
    BY <1>0, Updated DEF CanaryPhase
  <2>2. canary' = [canary EXCEPT ![d] = c] /\ UNCHANGED <<recovery_vars, bluegreen>>
    BY <1>0, <1>2 DEF promote
  <2> QED
    BY <2>1, <2>2, CanaryQuiet
<1>3. CASE rollback_canary(d)
  <2> DEFINE c == Moved(canary[d], "rolled_back", 0)
  <2>1. c \in CanaryDeployment /\ c.phase = "rolled_back"
    BY <1>0, Updated DEF CanaryPhase
  <2>2. canary' = [canary EXCEPT ![d] = c] /\ UNCHANGED <<recovery_vars, bluegreen>>
    BY <1>0, <1>3 DEF rollback_canary
  <2> QED
    BY <2>1, <2>2, CanaryQuiet
<1>4. ASSUME NEW weight \in Weights, set_weight(d, weight) PROVE IInv'
  <2> DEFINE c == Moved(canary[d], canary[d].phase, weight)
  <2>1. c \in CanaryDeployment /\ c.phase = canary[d].phase
    BY <1>0, RolloutAssumption, Updated
  <2>2. canary' = [canary EXCEPT ![d] = c] /\ UNCHANGED <<recovery_vars, bluegreen>>
        /\ canary[d].phase # "absent"
    BY <1>0, <1>4 DEF set_weight
  <2> QED
    BY <2>1, <2>2, CanaryQuiet
<1>5. ASSUME NEW healthy \in BOOLEAN, step(d, healthy) PROVE IInv'
  <2>0. canary[d].phase \in {"deploying", "ramping"} /\ UNCHANGED bluegreen
        /\ UNCHANGED <<snapshots, plans, created, applied>>
    BY <1>5 DEF step
  <2>1. CASE healthy
    <3> DEFINE c == HealthyStep(canary[d])
    <3>1. c \in CanaryDeployment /\ c.phase \in {"ramping", "promoted", "stabilizing"}
      <4>1. Lesser(canary[d].current_weight + IncrementStep, MaxCanaryWeight) \in 0 .. 100
        BY <1>0, RolloutAssumption DEF Lesser
      <4>2. /\ canary[d].current_weight < MaxCanaryWeight =>
                 c = Moved(canary[d], "ramping",
                       Lesser(canary[d].current_weight + IncrementStep, MaxCanaryWeight))
            /\ ~(canary[d].current_weight < MaxCanaryWeight) =>
                 \/ c = Moved(canary[d], "promoted", 100)
                 \/ c = Moved(canary[d], "stabilizing", canary[d].current_weight)
        BY DEF HealthyStep
      <4>3. {"ramping", "promoted", "stabilizing"} \subseteq CanaryPhase
            /\ 100 \in 0 .. 100
        BY DEF CanaryPhase
      <4> HIDE DEF c
      <4>4. PICK p \in {"ramping", "promoted", "stabilizing"}, w \in 0 .. 100 :
              c = Moved(canary[d], p, w)
        BY <1>0, <4>1, <4>2, <4>3
      <4>5. p \in CanaryPhase /\ canary[d] \in CanaryDeployment
        BY <1>0, <4>3
      <4>6. Moved(canary[d], p, w) \in CanaryDeployment /\ Moved(canary[d], p, w).phase = p
        BY <4>5, Updated
      <4> QED
        BY <4>4, <4>6
    <3>2. canary' = [canary EXCEPT ![d] = c] /\ UNCHANGED records
      BY <1>0, <1>5, <2>1 DEF step
    <3> QED
      BY <2>0, <3>1, <3>2, CanaryQuiet DEF recovery_vars
  <2>2. CASE ~healthy
    <3> DEFINE c == Unhealthy(canary[d])
    <3>1. c \in CanaryDeployment /\ c.phase \in {"rolled_back", "failed"}
      <4>1. PICK p \in {"rolled_back", "failed"} :
              c = Moved(canary[d], p, canary[d].current_weight)
        BY DEF Unhealthy
      <4> HIDE DEF c
      <4>2. p \in CanaryPhase
        BY DEF CanaryPhase
      <4>3. /\ Moved(canary[d], p, canary[d].current_weight) \in CanaryDeployment
            /\ Moved(canary[d], p, canary[d].current_weight).phase = p
        BY <1>0, <4>2, Updated
      <4> QED
        BY <4>1, <4>3
    <3>2. canary' = [canary EXCEPT ![d] = c]
      BY <1>0, <1>5, <2>2 DEF step
    <3>3. CASE ~canary[d].auto_rollback
      <4>1. UNCHANGED records
        BY <1>5, <2>2, <3>3 DEF step
      <4> QED
        BY <2>0, <3>1, <3>2, <4>1, CanaryQuiet DEF recovery_vars
    <3>4. CASE canary[d].auto_rollback
      <4>1. records' = Filed(d, Old, NoSnapshot, "approved")
        BY <1>5, <2>2, <3>4 DEF step
      <4>2. d \in Requester /\ Old \in Version /\ RecoveryTypeOK /\ TypeOK /\ RestoreInv
            /\ d \notin BlueGreen
        BY RolloutAssumption DEF IInv, TypeOK
      <4>3. RestoreInv' /\ RecoveryTypeOK'
        BY <2>0, <4>1, <4>2, FilingRestoresNothing
      <4>4. /\ DOMAIN records' = DOMAIN records \cup {Len(records) + 1}
            /\ \A i \in DOMAIN records : records'[i] = records[i]
            /\ records'[Len(records) + 1].requested_by = d
        BY <4>1, <4>2, Filing
      <4>5. FiledBy(d)' = {Len(records) + 1}
        <5>1. FiledBy(d) = {}
          BY <2>0 DEF IInv, CanaryInv
        <5> QED
          BY <4>4, <5>1 DEF FiledBy
      <4>6. ASSUME NEW e \in Canary \cup BlueGreen, e # d
            PROVE  FiledBy(e)' = FiledBy(e)
                   /\ \A i \in FiledBy(e) : records'[i] = records[i]
        BY <4>4, <4>6 DEF FiledBy
      <4>7. canary' \in [Canary -> CanaryDeployment] /\ canary'[d] = c
            /\ \A e \in Canary : e # d => canary'[e] = canary[e]
        BY <1>0, <3>1, <3>2
      <4> HIDE DEF c
      <4>8. CanaryInv'
        BY <3>1, <4>5, <4>6, <4>7 DEF IInv, CanaryInv
      <4>9. BlueGreenInv'
        BY <2>0, <4>2, <4>6 DEF IInv, BlueGreenInv
      <4> QED
        BY <2>0, <4>3, <4>7, <4>8, <4>9 DEF IInv, TypeOK
    <3> QED
      BY <3>3, <3>4
  <2> QED
    BY <2>1, <2>2
<1> QED
  BY <1>1, <1>2, <1>3, <1>4, <1>5

\* A swap exchanges the versions.
LEMMA SwappedVersions ==
  ASSUME NEW b \in BlueGreenDeployment, NEW p \in BGPhase, NEW n \in Nat
  PROVE  /\ Swapped(b, p, n) \in BlueGreenDeployment
         /\ Swapped(b, p, n).phase = p
         /\ Swapped(b, p, n).blue_version = b.green_version
         /\ Swapped(b, p, n).green_version = b.blue_version
BY DEF Swapped, BlueGreenDeployment

\* What BlueGreenInv says of one deployment, but for its requests.
VersionsInv(b) ==
  /\ b.phase \in {"absent", "preparing", "testing"} =>
       b.blue_version = Old /\ b.green_version = New
  /\ b.phase \in {"completed", "monitoring"} =>
       b.blue_version = New /\ b.green_version = Old

\* A blue-green step that files nothing.
LEMMA BlueGreenQuiet ==
  ASSUME IInv, NEW d \in BlueGreen, NEW b \in BlueGreenDeployment,
         bluegreen' = [bluegreen EXCEPT ![d] = b], VersionsInv(b),
         UNCHANGED <<recovery_vars, canary>>
  PROVE  IInv'
<1>1. RecoveryTypeOK' /\ RestoreInv' /\ (\A e : FiledBy(e)' = FiledBy(e)) /\ records' = records
  BY RecoveryUnchanged
<1>2. bluegreen \in [BlueGreen -> BlueGreenDeployment]
  BY DEF IInv, TypeOK
<1>3. bluegreen' \in [BlueGreen -> BlueGreenDeployment] /\ bluegreen'[d] = b
      /\ \A e \in BlueGreen : e # d => bluegreen'[e] = bluegreen[e]
  BY <1>2
<1>4. BlueGreenInv'
  BY <1>1, <1>3 DEF IInv, BlueGreenInv, VersionsInv
<1>5. CanaryInv'
  BY <1>1 DEF IInv, CanaryInv
<1> QED
  BY <1>1, <1>3, <1>4, <1>5 DEF IInv, TypeOK

\* Steps and manual operations of a blue-green deployment.
LEMMA BlueGreenIInv ==
  ASSUME IInv, NEW d \in BlueGreen,
         \/ \E switching, reverting \in BOOLEAN : prepare(d, switching, reverting)
         \/ \E passes \in BOOLEAN : test_green(d, passes)
         \/ switch(d)
         \/ rollback_bluegreen(d)
         \/ \E healthy \in BOOLEAN : monitor(d, healthy)
  PROVE  IInv'
<1> DEFINE b == bluegreen[d]
<1>0. /\ bluegreen \in [BlueGreen -> BlueGreenDeployment] /\ b \in BlueGreenDeployment
      /\ b.rollback_count \in Nat /\ b.rollback_count + 1 \in Nat
      /\ VersionsInv(b)
      /\ {"completed", "rolled_back", "failed", "testing", "monitoring"} \subseteq BGPhase
  BY DEF IInv, TypeOK, BlueGreenInv, VersionsInv, BlueGreenDeployment, BGPhase
<1>1. ASSUME NEW switching \in BOOLEAN, NEW reverting \in BOOLEAN,
             prepare(d, switching, reverting)
      PROVE  IInv'
  <2> DEFINE c == [phase |-> "preparing", blue_version |-> Old, green_version |-> New,
                   active_env |-> "blue", auto_switch |-> switching,
                   auto_rollback |-> reverting, rollback_count |-> 0]
  <2>1. c \in BlueGreenDeployment /\ VersionsInv(c)
    BY DEF BlueGreenDeployment, BGPhase, VersionsInv
  <2>2. bluegreen' = [bluegreen EXCEPT ![d] = c] /\ UNCHANGED <<recovery_vars, canary>>
    BY <1>1 DEF prepare
  <2> QED
    BY <2>1, <2>2, BlueGreenQuiet
<1>2. Switched(b) \in BlueGreenDeployment
      /\ (b.phase \in {"testing", "preparing"} => VersionsInv(Switched(b)))
  <2> HIDE DEF b
  <2>1. "completed" \in BGPhase /\ b.rollback_count \in Nat /\ b \in BlueGreenDeployment
    BY <1>0
  <2> DEFINE c == Swapped(b, "completed", b.rollback_count)
  <2>2. /\ c \in BlueGreenDeployment /\ c.phase = "completed"
        /\ c.blue_version = b.green_version /\ c.green_version = b.blue_version
    BY <2>1, SwappedVersions
  <2>3. c = Switched(b)
    BY DEF Switched
  <2> HIDE DEF c
  <2> QED
    BY <1>0, <2>2, <2>3 DEF VersionsInv
<1>3. RolledBack(b) \in BlueGreenDeployment /\ VersionsInv(RolledBack(b))
      /\ RolledBack(b).phase = "rolled_back"
  <2> HIDE DEF b
  <2>1. "rolled_back" \in BGPhase /\ b.rollback_count + 1 \in Nat /\ b \in BlueGreenDeployment
    BY <1>0
  <2> DEFINE c == Swapped(b, "rolled_back", b.rollback_count + 1)
  <2>2. /\ c \in BlueGreenDeployment /\ c.phase = "rolled_back"
        /\ c.blue_version = b.green_version /\ c.green_version = b.blue_version
    BY <2>1, SwappedVersions
  <2>3. c = RolledBack(b)
    BY DEF RolledBack
  <2> HIDE DEF c
  <2> QED
    BY <1>0, <2>2, <2>3 DEF VersionsInv
<1>4. /\ \A p \in {"failed", "testing", "monitoring"} :
           [b EXCEPT !.phase = p] \in BlueGreenDeployment
      /\ VersionsInv([b EXCEPT !.phase = "failed"])
      /\ b.phase = "preparing" => VersionsInv([b EXCEPT !.phase = "testing"])
      /\ b.phase \in {"completed", "monitoring"} =>
           VersionsInv([b EXCEPT !.phase = "monitoring"])
  BY <1>0 DEF BlueGreenDeployment, VersionsInv
<1>5. ASSUME NEW passes \in BOOLEAN, test_green(d, passes) PROVE IInv'
  <2>1. /\ b.phase = "preparing" /\ UNCHANGED <<recovery_vars, canary>>
        /\ \/ bluegreen' = [bluegreen EXCEPT ![d] = [b EXCEPT !.phase = "failed"]]
           \/ bluegreen' = [bluegreen EXCEPT ![d] = Switched(b)]
           \/ bluegreen' = [bluegreen EXCEPT ![d] = [b EXCEPT !.phase = "testing"]]
    BY <1>5 DEF test_green
  <2> HIDE DEF b
  <2> QED
    BY <1>2, <1>4, <2>1, BlueGreenQuiet
<1>6. CASE switch(d)
  <2>1. /\ b.phase \in {"testing", "preparing"} /\ UNCHANGED <<recovery_vars, canary>>
        /\ bluegreen' = [bluegreen EXCEPT ![d] = Switched(b)]
    BY <1>6 DEF switch
  <2> QED
    BY <1>2, <2>1, BlueGreenQuiet
<1>7. CASE rollback_bluegreen(d)
  <2>1. /\ bluegreen' = [bluegreen EXCEPT ![d] = RolledBack(b)]
        /\ UNCHANGED <<recovery_vars, canary>>
    BY <1>7 DEF rollback_bluegreen
  <2> QED
    BY <1>3, <2>1, BlueGreenQuiet
<1>8. ASSUME NEW healthy \in BOOLEAN, monitor(d, healthy) PROVE IInv'
  <2>0. b.phase \in {"completed", "monitoring"}
        /\ UNCHANGED <<snapshots, plans, created, applied, canary>>
    BY <1>8 DEF monitor
  <2>1. CASE healthy \/ ~b.auto_rollback
    <3>1. bluegreen' = [bluegreen EXCEPT ![d] = [b EXCEPT !.phase = "monitoring"]]
          /\ UNCHANGED records
      BY <1>8, <2>1 DEF monitor
    <3> HIDE DEF b
    <3> QED
      BY <1>4, <2>0, <3>1, BlueGreenQuiet DEF recovery_vars
  <2>2. CASE ~(healthy \/ ~b.auto_rollback)
    <3>1. bluegreen' = [bluegreen EXCEPT ![d] = RolledBack(b)]
          /\ records' = Filed(d, b.green_version, NoSnapshot, "approved")
      BY <1>8, <2>2 DEF monitor
    <3>2. b.green_version = Old
      BY <1>0, <2>0 DEF VersionsInv
    <3>3. d \in Requester /\ Old \in Version /\ RecoveryTypeOK /\ TypeOK /\ RestoreInv
          /\ d \notin Canary
      BY RolloutAssumption DEF IInv, TypeOK
    <3>4. RestoreInv' /\ RecoveryTypeOK'
      BY <2>0, <3>1, <3>2, <3>3, FilingRestoresNothing
    <3>5. /\ DOMAIN records' = DOMAIN records \cup {Len(records) + 1}
          /\ \A i \in DOMAIN records : records'[i] = records[i]
          /\ records'[Len(records) + 1].requested_by = d
          /\ records'[Len(records) + 1].target_version = Old
      BY <3>1, <3>2, <3>3, Filing
    <3>6. ASSUME NEW e \in Canary PROVE FiledBy(e)' = FiledBy(e)
      BY <3>3, <3>5 DEF FiledBy
    <3>7. ASSUME NEW e \in BlueGreen, NEW i \in FiledBy(e)'
          PROVE  records'[i].target_version = Old
      <4>1. CASE i = Len(records) + 1
        BY <3>5, <4>1
      <4>2. CASE i # Len(records) + 1
        BY <3>5, <4>2 DEF FiledBy, IInv, BlueGreenInv
      <4> QED
        BY <4>1, <4>2
    <3> HIDE DEF b
    <3>8. bluegreen' \in [BlueGreen -> BlueGreenDeployment]
          /\ bluegreen'[d] = RolledBack(b)
          /\ \A e \in BlueGreen : e # d => bluegreen'[e] = bluegreen[e]
      BY <1>0, <1>3, <3>1
    <3>9. BlueGreenInv'
      BY <1>3, <3>7, <3>8 DEF IInv, BlueGreenInv
    <3>10. CanaryInv'
      BY <2>0, <3>6 DEF IInv, CanaryInv
    <3> QED
      BY <2>0, <3>4, <3>8, <3>9, <3>10 DEF IInv, TypeOK
  <2> QED
    BY <2>1, <2>2
<1> QED
  BY <1>1, <1>5, <1>6, <1>7, <1>8

-----------------------------------------------------------------------------
(* The theorems.                                                           *)

\* Nothing is filed, and nothing is restored, at first.
LEMMA InitIInv == Init => IInv
<1> SUFFICES ASSUME Init PROVE IInv
  OBVIOUS
<1> USE DEF Init, RecoveryInit
<1>1. TypeOK
  <2>1. RecoveryTypeOK
    BY DEF RecoveryTypeOK
  <2>2. canary \in [Canary -> CanaryDeployment]
    BY DEF CanaryDeployment, CanaryPhase
  <2>3. bluegreen \in [BlueGreen -> BlueGreenDeployment]
    BY DEF BlueGreenDeployment, BGPhase
  <2> QED
    BY <2>1, <2>2, <2>3 DEF TypeOK
<1>2. \A d : FiledBy(d) = {}
  BY DEF FiledBy
<1>3. CanaryInv /\ BlueGreenInv
  BY <1>2 DEF CanaryInv, BlueGreenInv
<1>4. ASSUME NEW s \in SnapshotId PROVE RestoredInv(s)
  <2>1. Restorers(s) = {}
    BY DEF Restorers
  <2> QED
    BY <2>1, FS_EmptySet DEF RestoredInv
<1> QED
  BY <1>1, <1>3, <1>4 DEF IInv, RestoreInv

\* Every step keeps the invariant.
LEMMA NextIInv == IInv /\ [Next]_vars => IInv'
<1> SUFFICES ASSUME IInv, [Next]_vars PROVE IInv'
  OBVIOUS
<1>1. CASE UNCHANGED vars
  <2>1. RecoveryTypeOK' /\ RestoreInv' /\ (\A e : FiledBy(e)' = FiledBy(e)) /\ records' = records
    BY <1>1, RecoveryUnchanged DEF vars
  <2>2. CanaryInv' /\ BlueGreenInv'
    BY <1>1, <2>1 DEF vars, IInv, CanaryInv, BlueGreenInv
  <2> QED
    BY <1>1, <2>1, <2>2 DEF vars, IInv, TypeOK
<1>2. CASE RecoveryNext /\ UNCHANGED <<canary, bluegreen>>
  <2>1. ASSUME NEW s \in SnapshotId,
               create_snapshot(s) \/ cleanup_snapshot(s) \/ plan_recovery(s)
        PROVE  IInv'
    BY <1>2, <2>1, SnapshotIInv
  <2>2. ASSUME NEW i \in DOMAIN records, approve_rollback(i) PROVE IInv'
    BY <1>2, <2>2, ApproveIInv
  <2>3. ASSUME NEW i \in DOMAIN records, NEW accepts \in BOOLEAN,
               execute_rollback(i, accepts)
        PROVE  IInv'
    BY <1>2, <2>3, ExecuteRollbackIInv
  <2>4. ASSUME NEW p \in DOMAIN plans, NEW accepts \in BOOLEAN,
               NEW procedure \in Procedure, execute_recovery(p, accepts, procedure)
        PROVE  IInv'
    BY <1>2, <2>4, ExecuteRecoveryIInv
  <2> QED
    BY <1>2, <2>1, <2>2, <2>3, <2>4 DEF RecoveryNext
<1>3. CASE RequestRollback /\ UNCHANGED <<canary, bluegreen>>
  BY <1>3, RequestIInv
<1> QED
  BY <1>1, <1>2, <1>3, CanaryIInv, BlueGreenIInv DEF Next

\* The strengthened invariant holds in every behaviour of the two managers.
THEOREM Invariance == Spec => []IInv
BY InitIInv, NextIInv, PTL DEF Spec

\* Every variable keeps its type: a canary's weight stays a percentage and a
\* rollback count a natural number.
THEOREM TypeCorrect == Spec => []TypeOK
<1>1. IInv => TypeOK
  BY DEF IInv
<1> QED
  BY <1>1, Invariance, PTL

\* No snapshot is applied oftener than it was created, and every rollback and
\* plan that says restored has had its own application.
THEOREM RestoredOnceHolds == Spec => []RestoredOnce
<1>1. IInv => RestoredOnce
  BY DEF IInv, RestoreInv, RestoredInv, RestoredOnce
<1> QED
  BY <1>1, Invariance, PTL

\* One failure of a canary asks for one rollback.
THEOREM OneRollbackPerCanaryHolds == Spec => []OneRollbackPerCanary
<1>1. IInv => OneRollbackPerCanary
  BY DEF IInv, CanaryInv, OneRollbackPerCanary
<1> QED
  BY <1>1, Invariance, PTL

\* The monitor never asks for the version that failed.
THEOREM MonitorTargetsPreviousHolds == Spec => []MonitorTargetsPrevious
<1>1. IInv => MonitorTargetsPrevious
  BY DEF IInv, BlueGreenInv, MonitorTargetsPrevious
<1> QED
  BY <1>1, Invariance, PTL
=============================================================================
