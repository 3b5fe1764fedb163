---------------------------- MODULE FraudRegistry ----------------------------
(***************************************************************************)
(* The on-chain fraud registry (src/lib.rs, a Soroban contract).           *)
(*                                                                         *)
(* Every entry point reads the whole FraudRegistryData record, checks its  *)
(* arguments and either returns an error, which leaves the record as it    *)
(* was, or writes the record back.  The ledger runs one invocation at a    *)
(* time, so an entry point is one atomic action; an invocation that        *)
(* returns an error is a stuttering step.  What is hard is the order in    *)
(* which many callers' invocations arrive.                                 *)
(*                                                                         *)
(* Scores run from 0 to MaxScore (100 in the code).  Reasons, evidence     *)
(* hashes and timestamps are left out: no entry point reads them back.     *)
(***************************************************************************)
EXTENDS Integers, Sequences, FiniteSets

CONSTANTS
  Address,        (* Callers: admins, validators and appellants.           *)
  Account,        (* Accounts that can be reported.                        *)
  MaxScore,       (* The largest reputation: 100 in the code.              *)
  Scores,         (* Bound: the reputations and confidences callers pass.  *)
  Thresholds,     (* Bound: the consensus thresholds admins pass.          *)
  BatchLength,    (* Bound: the longest batch_register_validators list.    *)
  MaxAccurate,    (* Bound: accurate_reports of one validator.             *)
  MinReputation,  (* Defaults of initialize: 50, 60 and 3 in the code.     *)
  MinConfidence,
  ConsensusThreshold

ASSUME RegistryAssumption ==
  /\ IsFiniteSet(Address) /\ IsFiniteSet(Account)
  /\ MaxScore \in Nat
  /\ Scores \subseteq Nat
  /\ Thresholds \subseteq Nat
  /\ BatchLength \in Nat
  /\ MaxAccurate \in Nat
  /\ MinReputation \in 0 .. MaxScore
  /\ MinConfidence \in 0 .. MaxScore
  /\ ConsensusThreshold \in Nat \ {0}

VARIABLES
  admin,          (* {}, or the singleton of data.admin once initialized.  *)
  validators,     (* data.validators: a function on the registered ones.   *)
  fraud_reports,  (* data.fraud_reports: the reports on each account.      *)
  appeals,        (* data.appeals: "None" or the status of the appeal.     *)
  config,         (* min_reputation, min_confidence, consensus_threshold.  *)
  cleared         (* History: a validator's reports removed by appeals.    *)

vars == <<admin, validators, fraud_reports, appeals, config, cleared>>

Validator == [reputation : 0 .. MaxScore, report_count : Nat,
              accurate_reports : Nat, is_active : BOOLEAN]

FraudReport == [validator : Address, confidence : Nat]

AppealStatus == {"Pending", "Approved", "Rejected"}

Config == [min_reputation : 0 .. MaxScore, min_confidence : 0 .. MaxScore,
           consensus_threshold : Nat \ {0}]

Registered == DOMAIN validators

\* The validators who have reported an account.
Reporters(a) == {fraud_reports[a][i].validator : i \in DOMAIN fraud_reports[a]}

\* is_fraudulent: enough distinct validators have reported the account.
is_fraudulent(a) == Cardinality(Reporters(a)) >= config.consensus_threshold

-----------------------------------------------------------------------------
Init ==
  /\ admin = {}
  /\ validators = [v \in {} |-> [reputation |-> 0, report_count |-> 0,
                                 accurate_reports |-> 0, is_active |-> FALSE]]
  /\ fraud_reports = [a \in Account |-> <<>>]
  /\ appeals = [a \in Account |-> "None"]
  /\ config = [min_reputation |-> MinReputation, min_confidence |-> MinConfidence,
               consensus_threshold |-> ConsensusThreshold]
  /\ cleared = [v \in Address |-> 0]

\* The first call wins; the next ones return AlreadyInitialized.
initialize(caller) ==
  /\ admin = {}
  /\ admin' = {caller}
  /\ UNCHANGED <<validators, fraud_reports, appeals, config, cleared>>

IsAdmin(caller) == caller \in admin

NewValidator(reputation) ==
  [reputation |-> reputation, report_count |-> 0, accurate_reports |-> 0,
   is_active |-> TRUE]

register_validator(caller, v, reputation) ==
  /\ IsAdmin(caller)
  /\ v \notin Registered
  /\ reputation <= MaxScore
  /\ validators' = [w \in Registered \cup {v} |->
                      IF w = v THEN NewValidator(reputation) ELSE validators[w]]
  /\ UNCHANGED <<admin, fraud_reports, appeals, config, cleared>>

\* The entry of list that registers v: the first one with a valid reputation.
FirstValid(list, v) ==
  CHOOSE i \in DOMAIN list :
    /\ list[i].address = v /\ list[i].reputation <= MaxScore
    /\ \A j \in DOMAIN list :
         list[j].address = v /\ list[j].reputation <= MaxScore => i <= j

Valid(list) == {v \in Address : \E i \in DOMAIN list :
                  list[i].address = v /\ list[i].reputation <= MaxScore}

\* Registered validators are not skipped.
batch_register_validatorsBug(caller, list) ==
  /\ IsAdmin(caller)
  /\ validators' = [v \in Registered \cup Valid(list) |->
                      IF v \in Valid(list)
                      THEN NewValidator(list[FirstValid(list, v)].reputation)
                      ELSE validators[v]]
  /\ UNCHANGED <<admin, fraud_reports, appeals, config, cleared>>

\* Registered validators and invalid reputations in the list are skipped.
batch_register_validators(caller, list) ==
  /\ IsAdmin(caller)
  /\ validators' = [v \in Registered \cup Valid(list) |->
                      IF v \in Registered THEN validators[v]
                      ELSE NewValidator(list[FirstValid(list, v)].reputation)]
  /\ UNCHANGED <<admin, fraud_reports, appeals, config, cleared>>

-----------------------------------------------------------------------------
\* The duplicate check is missing.
report_fraudBug(v, a, confidence) ==
  /\ v \in Registered
  /\ validators[v].is_active
  /\ validators[v].reputation >= config.min_reputation
  /\ confidence >= config.min_confidence
  /\ Len(fraud_reports[a]) < 3
  /\ fraud_reports' = [fraud_reports EXCEPT ![a] =
                         Append(@, [validator |-> v, confidence |-> confidence])]
  /\ validators' = [validators EXCEPT ![v].report_count = @ + 1]
  /\ UNCHANGED <<admin, appeals, config, cleared>>

report_fraud(v, a, confidence) ==
  /\ v \in Registered
  /\ validators[v].is_active
  /\ validators[v].reputation >= config.min_reputation
  /\ confidence >= config.min_confidence
  /\ v \notin Reporters(a)
  /\ fraud_reports' = [fraud_reports EXCEPT ![a] =
                         Append(@, [validator |-> v, confidence |-> confidence])]
  /\ validators' = [validators EXCEPT ![v].report_count = @ + 1]
  /\ UNCHANGED <<admin, appeals, config, cleared>>

update_validator_reputation(caller, v, reputation) ==
  /\ IsAdmin(caller)
  /\ reputation <= MaxScore
  /\ v \in Registered
  /\ validators' = [validators EXCEPT ![v].reputation = reputation]
  /\ UNCHANGED <<admin, fraud_reports, appeals, config, cleared>>

\* The result is not cut off at MaxScore.
ClampedBug(n) == IF n < 0 THEN 0 ELSE n

\* saturating_sub and saturating_add followed by min(100).
Clamped(n) == IF n < 0 THEN 0 ELSE IF n > MaxScore THEN MaxScore ELSE n

adjust_validator_reputation(caller, v, delta) ==
  /\ IsAdmin(caller)
  /\ -MaxScore <= delta /\ delta <= MaxScore
  /\ v \in Registered
  /\ delta > 0 => validators[v].accurate_reports < MaxAccurate
  /\ validators' = [validators EXCEPT
                      ![v].reputation = Clamped(@ + delta),
                      ![v].accurate_reports = IF delta > 0 THEN @ + 1 ELSE @]
  /\ UNCHANGED <<admin, fraud_reports, appeals, config, cleared>>

\* A deactivated validator's reports stay and keep counting.
deactivate_validator(caller, v) ==
  /\ IsAdmin(caller)
  /\ v \in Registered
  /\ validators' = [validators EXCEPT ![v].is_active = FALSE]
  /\ UNCHANGED <<admin, fraud_reports, appeals, config, cleared>>

\* All three parameters, an omitted one being passed as its current value.
update_config(caller, reputation, confidence, threshold) ==
  /\ IsAdmin(caller)
  /\ reputation <= MaxScore
  /\ confidence <= MaxScore
  /\ threshold >= 1
  /\ config' = [min_reputation |-> reputation, min_confidence |-> confidence,
                consensus_threshold |-> threshold]
  /\ UNCHANGED <<admin, validators, fraud_reports, appeals, cleared>>

-----------------------------------------------------------------------------
\* The verdict is not checked.
submit_appealBug(a) ==
  /\ admin # {}
  /\ appeals[a] = "None"
  /\ appeals' = [appeals EXCEPT ![a] = "Pending"]
  /\ UNCHANGED <<admin, validators, fraud_reports, config, cleared>>

\* An account that has an appeal, decided or not, cannot have another one.
submit_appeal(a) ==
  /\ admin # {}
  /\ is_fraudulent(a)
  /\ appeals[a] = "None"
  /\ appeals' = [appeals EXCEPT ![a] = "Pending"]
  /\ UNCHANGED <<admin, validators, fraud_reports, config, cleared>>

\* A decided appeal may be decided again.
review_appealBug(caller, a, approve) ==
  /\ IsAdmin(caller)
  /\ appeals[a] # "None"
  /\ appeals' = [appeals EXCEPT ![a] = IF approve THEN "Approved" ELSE "Rejected"]
  /\ fraud_reports' = IF approve THEN [fraud_reports EXCEPT ![a] = <<>>]
                      ELSE fraud_reports
  /\ cleared' = [v \in Address |->
                   IF approve /\ v \in Reporters(a) THEN cleared[v] + 1 ELSE cleared[v]]
  /\ UNCHANGED <<admin, validators, config>>

\* A rejected appeal removes the reports as well.
review_appealBug2(caller, a, approve) ==
  /\ IsAdmin(caller)
  /\ appeals[a] = "Pending"
  /\ appeals' = [appeals EXCEPT ![a] = IF approve THEN "Approved" ELSE "Rejected"]
  /\ fraud_reports' = [fraud_reports EXCEPT ![a] = <<>>]
  /\ cleared' = [v \in Address |->
                   IF v \in Reporters(a) THEN cleared[v] + 1 ELSE cleared[v]]
  /\ UNCHANGED <<admin, validators, config>>

\* Approval removes every report on the account; the appeal entry stays.
review_appeal(caller, a, approve) ==
  /\ IsAdmin(caller)
  /\ appeals[a] = "Pending"
  /\ appeals' = [appeals EXCEPT ![a] = IF approve THEN "Approved" ELSE "Rejected"]
  /\ fraud_reports' = IF approve THEN [fraud_reports EXCEPT ![a] = <<>>]
                      ELSE fraud_reports
  /\ cleared' = [v \in Address |->
                   IF approve /\ v \in Reporters(a) THEN cleared[v] + 1 ELSE cleared[v]]
  /\ UNCHANGED <<admin, validators, config>>

-----------------------------------------------------------------------------
Batch == UNION {[1 .. n -> [address : Address, reputation : Scores]] : n \in 0 .. BatchLength}

Next ==
  \/ \E caller \in Address :
       \/ initialize(caller)
       \/ \E v \in Address, s \in Scores :
            \/ register_validator(caller, v, s)
            \/ update_validator_reputation(caller, v, s)
            \/ adjust_validator_reputation(caller, v, s)
            \/ adjust_validator_reputation(caller, v, -s)
       \/ \E v \in Address : deactivate_validator(caller, v)
       \/ \E list \in Batch : batch_register_validators(caller, list)
       \/ \E r \in Scores \cup {config.min_reputation},
             c \in Scores \cup {config.min_confidence},
             t \in Thresholds \cup {config.consensus_threshold} :
               update_config(caller, r, c, t)
       \/ \E a \in Account, approve \in BOOLEAN : review_appeal(caller, a, approve)
  \/ \E v \in Address, a \in Account, s \in Scores : report_fraud(v, a, s)
  \/ \E a \in Account : submit_appeal(a)

Spec == Init /\ [][Next]_vars

-----------------------------------------------------------------------------
(* Properties.                                                             *)

\* Types: reputations and minimums stay percentages and the threshold stays
\* positive, whatever sequence of updates and adjustments is applied.
TypeOK ==
  /\ admin \in SUBSET Address /\ Cardinality(admin) <= 1
  /\ Registered \subseteq Address
  /\ validators \in [Registered -> Validator]
  /\ fraud_reports \in [Account -> Seq(FraudReport)]
  /\ appeals \in [Account -> AppealStatus \cup {"None"}]
  /\ config \in Config
  /\ cleared \in [Address -> Nat]

\* No validator has two reports on one account, also after an appeal has
\* removed the first one: a consensus is never one validator counted twice.
OneReportEach ==
  \A a \in Account : \A i, j \in DOMAIN fraud_reports[a] :
    fraud_reports[a][i].validator = fraud_reports[a][j].validator => i = j

\* Only registered validators ever have a report or a removed report, so every
\* vote behind a verdict can be traced through get_validator.
ReportersRegistered ==
  \A a \in Account : Reporters(a) \subseteq Registered

\* A validator's report_count is exactly the reports it has in the registry
\* and the ones appeals removed: no operation resets or double-counts it.
ReportCountsAddUp ==
  \A v \in Registered :
    validators[v].report_count =
      Cardinality({a \in Account : v \in Reporters(a)}) + cleared[v]

\* An appeal that waits for its decision has reports to decide about, although
\* thresholds move and validators are deactivated in the meantime.
PendingAppealHasReports ==
  \A a \in Account : appeals[a] = "Pending" => fraud_reports[a] # <<>>

\* A verdict changes only by a new report, an approved appeal or a threshold
\* change: not by deactivating or demoting the validators who reported.
VerdictChangesOnlyBy ==
  [][\A a \in Account :
       /\ ~is_fraudulent(a) /\ is_fraudulent(a)' =>
            \/ Len(fraud_reports'[a]) = Len(fraud_reports[a]) + 1
            \/ config'.consensus_threshold < config.consensus_threshold
       /\ is_fraudulent(a) /\ ~is_fraudulent(a)' =>
            \/ appeals[a] = "Pending" /\ appeals'[a] = "Approved"
            \/ config'.consensus_threshold > config.consensus_threshold]_vars

\* An appeal is decided once and its decision stands.
DecisionIsFinal ==
  [][\A a \in Account :
       /\ appeals[a] \in {"Approved", "Rejected"} => appeals'[a] = appeals[a]
       /\ appeals[a] = "Pending" => appeals'[a] # "None"]_vars

\* A validator is never unregistered, reactivated, or given a fresh record: a
\* second registration, alone or in a batch, keeps its history.
RegistrationIsOnce ==
  [][\A v \in Registered :
       /\ v \in Registered'
       /\ validators[v].report_count <= validators'[v].report_count
       /\ validators[v].accurate_reports <= validators'[v].accurate_reports
       /\ validators'[v].is_active => validators[v].is_active]_vars
=============================================================================
