------------------------- MODULE FraudRegistry_proofs -------------------------
(***************************************************************************)
(* Proofs about FraudRegistry, for any finite sets of callers and accounts *)
(* and any bounds on what callers pass.                                    *)
(***************************************************************************)
EXTENDS FraudRegistry, FiniteSetTheorems, WellFoundedInduction, TLAPS

\* The reports and the appeals a caller's invocation can disturb.
IInv ==
  /\ TypeOK
  /\ OneReportEach
  /\ ReportersRegistered
  /\ PendingAppealHasReports

\* The invocations that only write the validators.
Registering ==
  \E caller \in Address :
    \/ \E v \in Address, s \in Scores :
         \/ register_validator(caller, v, s)
         \/ update_validator_reputation(caller, v, s)
         \/ adjust_validator_reputation(caller, v, s)
         \/ adjust_validator_reputation(caller, v, -s)
    \/ \E v \in Address : deactivate_validator(caller, v)
    \/ \E list \in Batch : batch_register_validators(caller, list)

Reconfiguring ==
  \E caller \in Address, r \in Scores \cup {config.min_reputation},
     c \in Scores \cup {config.min_confidence},
     t \in Thresholds \cup {config.consensus_threshold} : update_config(caller, r, c, t)

\* The five ways the registry moves.
LEMMA StepCases ==
  ASSUME [Next]_vars
  PROVE  \/ \E caller \in Address : initialize(caller)
         \/ Registering
         \/ Reconfiguring
         \/ \E caller \in Address, a \in Account, approve \in BOOLEAN :
              review_appeal(caller, a, approve)
         \/ \E v \in Address, a \in Account, s \in Scores : report_fraud(v, a, s)
         \/ \E a \in Account : submit_appeal(a)
         \/ UNCHANGED vars
BY DEF Next, Registering, Reconfiguring

-----------------------------------------------------------------------------
(* Validators.                                                             *)

\* What registration, reputation and deactivation do to the validators.
LEMMA RegisteringValidators ==
  ASSUME RegistryAssumption, TypeOK, Registering
  PROVE  /\ UNCHANGED <<admin, fraud_reports, appeals, config, cleared>>
         /\ Registered \subseteq Registered'
         /\ Registered' \subseteq Address
         /\ validators' \in [Registered' -> Validator]
         /\ \A v \in Registered :
              /\ validators'[v].report_count = validators[v].report_count
              /\ validators'[v].accurate_reports >= validators[v].accurate_reports
              /\ validators'[v].is_active => validators[v].is_active
         /\ \A v \in Registered' \ Registered : validators'[v].report_count = 0
<1> DEFINE Goal == /\ UNCHANGED <<admin, fraud_reports, appeals, config, cleared>>
                   /\ Registered \subseteq Registered'
                   /\ Registered' \subseteq Address
                   /\ validators' \in [Registered' -> Validator]
                   /\ \A v \in Registered :
                        /\ validators'[v].report_count = validators[v].report_count
                        /\ validators'[v].accurate_reports >= validators[v].accurate_reports
                        /\ validators'[v].is_active => validators[v].is_active
                   /\ \A v \in Registered' \ Registered : validators'[v].report_count = 0
<1>1. ASSUME NEW s \in Nat, s <= MaxScore
      PROVE  NewValidator(s) \in Validator /\ NewValidator(s).report_count = 0
  BY <1>1 DEF RegistryAssumption, NewValidator, Validator
<1>2. ASSUME NEW caller, NEW v \in Address, NEW s \in Scores, register_validator(caller, v, s)
      PROVE  Goal
  <2>1. s \in Nat /\ s <= MaxScore
    BY <1>2 DEF register_validator, RegistryAssumption
  <2>2. validators \in [Registered -> Validator] /\ Registered \subseteq Address
    BY DEF TypeOK
  <2>3. \A w \in Registered : /\ validators[w].accurate_reports \in Nat
                              /\ validators[w] \in Validator
    BY <2>2 DEF Validator
  <2>4. /\ DOMAIN validators' = Registered \cup {v}
        /\ validators'[v] = NewValidator(s)
        /\ \A w \in Registered : validators'[w] = validators[w]
    BY <1>2 DEF register_validator
  <2> QED
    BY <1>1, <1>2, <2>1, <2>2, <2>3, <2>4 DEF register_validator, Registered
<1>3. ASSUME NEW caller, NEW v \in Address, NEW s \in Scores,
             update_validator_reputation(caller, v, s)
      PROVE  Goal
  <2>1. v \in Registered /\ validators \in [Registered -> Validator]
        /\ Registered \subseteq Address
    BY <1>3 DEF update_validator_reputation, TypeOK
  <2>2. \A w \in Registered : /\ validators[w].accurate_reports \in Nat
                              /\ validators[w] \in Validator
    BY <2>1 DEF Validator
  <2>3. /\ DOMAIN validators' = Registered
        /\ \A w \in Registered :
             /\ validators'[w] \in Validator
             /\ validators'[w].report_count = validators[w].report_count
             /\ validators'[w].accurate_reports = validators[w].accurate_reports
             /\ validators'[w].is_active => validators[w].is_active
    BY <1>3, <2>1, <2>2 DEF update_validator_reputation, RegistryAssumption, Validator, Registered
  <2>4. validators' \in [Registered -> Validator]
    BY <1>3, <2>1, <2>3 DEF update_validator_reputation
  <2>5. UNCHANGED <<admin, fraud_reports, appeals, config, cleared>>
    BY <1>3 DEF update_validator_reputation
  <2> QED
    BY <2>1, <2>2, <2>3, <2>4, <2>5 DEF Registered
<1>4. ASSUME NEW caller, NEW v \in Address, NEW d \in Int,
             adjust_validator_reputation(caller, v, d)
      PROVE  Goal
  <2>1. Clamped(validators[v].reputation + d) \in 0 .. MaxScore
    BY <1>4 DEF Clamped, RegistryAssumption, adjust_validator_reputation, TypeOK,
       Registered, Validator
  <2>2. v \in Registered /\ validators \in [Registered -> Validator]
        /\ Registered \subseteq Address
    BY <1>4 DEF adjust_validator_reputation, TypeOK
  <2>3. \A w \in Registered : /\ validators[w].accurate_reports \in Nat
                              /\ validators[w] \in Validator
    BY <2>2 DEF Validator
  <2>4. /\ DOMAIN validators' = Registered
        /\ \A w \in Registered :
             /\ validators'[w] \in Validator
             /\ validators'[w].report_count = validators[w].report_count
             /\ validators'[w].accurate_reports >= validators[w].accurate_reports
             /\ validators'[w].is_active = validators[w].is_active
    BY <1>4, <2>1, <2>2, <2>3 DEF adjust_validator_reputation, Validator, Registered
  <2> QED
    BY <1>4, <2>2, <2>4 DEF adjust_validator_reputation, Registered
<1>5. ASSUME NEW caller, NEW v \in Address, deactivate_validator(caller, v)
      PROVE  Goal
  <2>1. v \in Registered /\ validators \in [Registered -> Validator]
        /\ Registered \subseteq Address
    BY <1>5 DEF deactivate_validator, TypeOK
  <2>2. \A w \in Registered : /\ validators[w].accurate_reports \in Nat
                              /\ validators[w] \in Validator
    BY <2>1 DEF Validator
  <2>3. /\ DOMAIN validators' = Registered
        /\ \A w \in Registered :
             /\ validators'[w] \in Validator
             /\ validators'[w].report_count = validators[w].report_count
             /\ validators'[w].accurate_reports = validators[w].accurate_reports
             /\ validators'[w].is_active => validators[w].is_active
    BY <1>5, <2>1, <2>2 DEF deactivate_validator, Validator, Registered
  <2>4. validators' \in [Registered -> Validator]
    BY <1>5, <2>1, <2>3 DEF deactivate_validator
  <2>5. UNCHANGED <<admin, fraud_reports, appeals, config, cleared>>
    BY <1>5 DEF deactivate_validator
  <2> QED
    BY <2>1, <2>2, <2>3, <2>4, <2>5 DEF Registered
<1>6. ASSUME NEW caller, NEW list \in Batch, batch_register_validators(caller, list)
      PROVE  Goal
  <2>1. PICK n \in 0 .. BatchLength : list \in [1 .. n -> [address : Address, reputation : Scores]]
    BY DEF Batch
  <2>2. ASSUME NEW v \in Valid(list)
        PROVE  /\ list[FirstValid(list, v)].reputation \in Nat
               /\ list[FirstValid(list, v)].reputation <= MaxScore
    <3> DEFINE P(i) == list[i].address = v /\ list[i].reputation <= MaxScore
               Q(i) == P(i) /\ \A j \in DOMAIN list : P(j) => i <= j
    <3>1. \E i \in DOMAIN list : P(i)
      BY DEF Valid
    <3>2. \E i \in DOMAIN list : Q(i)
      <4> DEFINE S == {i \in DOMAIN list : P(i)}
      <4>1. S # {} /\ S \subseteq Nat
        BY <2>1, <3>1
      <4>2. PICK i \in S : \A j \in S : ~(<<j, i>> \in OpToRel(<, Nat))
        <5> HIDE DEF S
        <5> QED
          BY <4>1, NatLessThanWellFounded, WFMin
      <4>3. \A j \in S : i \in Nat /\ j \in Nat /\ ~(j < i)
        <5> HIDE DEF S
        <5> QED
          BY <4>1, <4>2, Zenon DEF OpToRel
      <4>4. \A j \in S : i <= j
        BY <4>3
      <4> QED
        BY <4>4
    <3>3. FirstValid(list, v) \in DOMAIN list /\ P(FirstValid(list, v))
      BY <3>2 DEF FirstValid
    <3> QED
      BY <2>1, <3>3 DEF RegistryAssumption
  <2>3. Valid(list) \subseteq Address
    BY DEF Valid
  <2>4. validators \in [Registered -> Validator] /\ Registered \subseteq Address
    BY DEF TypeOK
  <2>5. \A w \in Registered : /\ validators[w].accurate_reports \in Nat
                              /\ validators[w] \in Validator
    BY <2>4 DEF Validator
  <2>6. /\ DOMAIN validators' = Registered \cup Valid(list)
        /\ \A w \in Registered : validators'[w] = validators[w]
        /\ \A w \in Valid(list) \ Registered :
             validators'[w] = NewValidator(list[FirstValid(list, w)].reputation)
    BY <1>6 DEF batch_register_validators
  <2>7. \A w \in Valid(list) \ Registered :
          validators'[w] \in Validator /\ validators'[w].report_count = 0
    BY <1>1, <2>2, <2>6
  <2>8. validators' \in [Registered \cup Valid(list) -> Validator]
    BY <1>6, <2>4, <2>6, <2>7 DEF batch_register_validators
  <2> QED
    BY <1>6, <2>3, <2>4, <2>5, <2>6, <2>7, <2>8 DEF batch_register_validators, Registered
<1> HIDE DEF Goal
<1>7. Goal
  <2>1. \A s \in Scores : s \in Int /\ -s \in Int
    BY DEF RegistryAssumption
  <2> QED
    BY <1>2, <1>3, <1>4, <1>5, <1>6, <2>1 DEF Registering
<1> QED
  BY <1>7 DEF Goal

-----------------------------------------------------------------------------
(* The invariant.                                                          *)

\* An account with a report, and only such an account, has a reporter.
LEMMA ReportersOfNone ==
  ASSUME NEW a, fraud_reports[a] = <<>>
  PROVE  Reporters(a) = {} /\ Cardinality(Reporters(a)) = 0
BY FS_EmptySet DEF Reporters

\* Reporters are callers.
LEMMA ReportersOf ==
  ASSUME NEW a, fraud_reports[a] \in Seq(FraudReport)
  PROVE  Reporters(a) \subseteq Address
<1> SUFFICES ASSUME NEW i \in DOMAIN fraud_reports[a]
             PROVE  fraud_reports[a][i].validator \in Address
  BY DEF Reporters
<1>1. fraud_reports[a][i] \in FraudReport
  OBVIOUS
<1> QED
  BY <1>1 DEF FraudReport

\* A verdict needs at least one report.
LEMMA FraudulentHasReports ==
  ASSUME TypeOK, NEW a \in Account, is_fraudulent(a)
  PROVE  fraud_reports[a] # <<>>
<1> SUFFICES ASSUME fraud_reports[a] = <<>> PROVE FALSE
  OBVIOUS
<1>1. Cardinality(Reporters(a)) = 0
  BY ReportersOfNone
<1> QED
  BY <1>1 DEF is_fraudulent, TypeOK, Config

\* The initial state satisfies the invariant.
LEMMA InitIInv == RegistryAssumption /\ Init => IInv
<1> SUFFICES ASSUME RegistryAssumption, Init PROVE IInv
  OBVIOUS
<1>1. TypeOK
  BY FS_EmptySet DEF Init, TypeOK, Config, RegistryAssumption, Registered, Validator,
     AppealStatus, FraudReport
<1> QED
  BY <1>1 DEF IInv, Init, OneReportEach, ReportersRegistered, Reporters,
     PendingAppealHasReports

\* A report is appended to the reports of one account.
LEMMA ReportIInv ==
  ASSUME RegistryAssumption, IInv, NEW v \in Address, NEW a \in Account, NEW s \in Scores,
         report_fraud(v, a, s)
  PROVE  IInv'
<1> DEFINE r == [validator |-> v, confidence |-> s]
           old == fraud_reports[a]
<1>1. /\ v \in Registered /\ r \in FraudReport /\ r.validator = v
      /\ fraud_reports \in [Account -> Seq(FraudReport)] /\ old \in Seq(FraudReport)
      /\ v \notin Reporters(a)
  BY DEF report_fraud, RegistryAssumption, FraudReport, IInv, TypeOK
<1>2. /\ fraud_reports' \in [Account -> Seq(FraudReport)]
      /\ fraud_reports'[a] = Append(old, r)
      /\ \A b \in Account : b # a => fraud_reports'[b] = fraud_reports[b]
  <2> HIDE DEF r
  <2>1. Append(old, r) \in Seq(FraudReport)
    BY <1>1
  <2> QED
    BY <1>1, <2>1 DEF report_fraud, r
<1>3. /\ DOMAIN validators' = Registered
      /\ validators' \in [Registered -> Validator]
  <2>1. validators \in [Registered -> Validator]
    BY DEF IInv, TypeOK
  <2>2. [validators[v] EXCEPT !.report_count = @ + 1] \in Validator
    <3>1. validators[v] \in Validator
      BY <1>1, <2>1
    <3> QED
      BY <3>1 DEF Validator
  <2>3. validators' = [validators EXCEPT ![v] = [validators[v] EXCEPT !.report_count = @ + 1]]
    BY DEF report_fraud
  <2> HIDE DEF Registered
  <2> QED
    BY <1>1, <2>1, <2>2, <2>3
<1>4. TypeOK'
  BY <1>2, <1>3 DEF report_fraud, IInv, TypeOK, Registered
<1>5. OneReportEach'
  <2> SUFFICES ASSUME NEW b \in Account,
                      NEW i \in DOMAIN fraud_reports'[b], NEW j \in DOMAIN fraud_reports'[b],
                      fraud_reports'[b][i].validator = fraud_reports'[b][j].validator
               PROVE  i = j
    BY DEF OneReportEach
  <2>1. CASE b # a
    BY <1>2, <2>1 DEF IInv, OneReportEach
  <2>2. CASE b = a
    <3>1. \A k \in DOMAIN old : old[k].validator # v
      BY <1>1 DEF Reporters
    <3> HIDE DEF r, old
    <3>2. /\ DOMAIN Append(old, r) = 1 .. Len(old) + 1 /\ DOMAIN old = 1 .. Len(old)
          /\ Append(old, r)[Len(old) + 1] = r
          /\ \A k \in 1 .. Len(old) : Append(old, r)[k] = old[k]
          /\ Len(old) \in Nat
      BY <1>1
    <3>3. \A k, l \in DOMAIN old : old[k].validator = old[l].validator => k = l
      BY DEF IInv, OneReportEach, old
    <3> QED
      BY <1>1, <1>2, <2>2, <3>1, <3>2, <3>3
  <2> QED
    BY <2>1, <2>2
<1>6. \A b \in Account : Reporters(b)' \subseteq Reporters(b) \cup {v}
  <2> SUFFICES ASSUME NEW b \in Account, NEW i \in DOMAIN fraud_reports'[b]
               PROVE  fraud_reports'[b][i].validator \in Reporters(b) \cup {v}
    BY DEF Reporters
  <2>1. CASE b # a
    BY <1>2, <2>1 DEF Reporters
  <2>2. CASE b = a
    <3>1. Len(old) \in Nat /\ DOMAIN old = 1 .. Len(old) /\ i \in 1 .. Len(old) + 1
      BY <1>1, <1>2, <2>2
    <3>2. CASE i = Len(old) + 1
      BY <1>1, <1>2, <2>2, <3>1, <3>2
    <3>3. CASE i \in 1 .. Len(old)
      <4>1. fraud_reports'[b][i] = old[i] /\ i \in DOMAIN old
        BY <1>1, <1>2, <2>2, <3>1, <3>3
      <4> QED
        BY <2>2, <4>1 DEF Reporters
    <3> QED
      BY <3>1, <3>2, <3>3
  <2> QED
    BY <2>1, <2>2
<1>7. ReportersRegistered'
  BY <1>1, <1>3, <1>6 DEF IInv, ReportersRegistered, Registered
<1>8. PendingAppealHasReports'
  <2> HIDE DEF r, old
  <2>1. Len(Append(old, r)) = Len(old) + 1 /\ Len(old) \in Nat
    BY <1>1
  <2>2. Append(old, r) # <<>>
    BY <2>1
  <2> QED
    BY <1>2, <2>2 DEF report_fraud, IInv, PendingAppealHasReports
<1> QED
  BY <1>4, <1>5, <1>7, <1>8 DEF IInv

\* A decision removes all the reports of one account or none.
LEMMA ReviewIInv ==
  ASSUME RegistryAssumption, IInv, NEW caller \in Address, NEW a \in Account,
         NEW approve \in BOOLEAN, review_appeal(caller, a, approve)
  PROVE  IInv'
<1>1. /\ fraud_reports' \in [Account -> Seq(FraudReport)]
      /\ \A b \in Account : \/ fraud_reports'[b] = fraud_reports[b]
                            \/ fraud_reports'[b] = <<>> /\ b = a
      /\ UNCHANGED <<admin, validators, config>>
  BY DEF review_appeal, IInv, TypeOK
<1>2. /\ appeals' \in [Account -> AppealStatus \cup {"None"}]
      /\ appeals'[a] # "Pending"
      /\ \A b \in Account : b # a => appeals'[b] = appeals[b]
  BY DEF review_appeal, IInv, TypeOK, AppealStatus
<1>3. cleared' \in [Address -> Nat]
  BY DEF review_appeal, IInv, TypeOK
<1>4. TypeOK'
  BY <1>1, <1>2, <1>3 DEF IInv, TypeOK, Registered
<1>5. OneReportEach'
  BY <1>1 DEF IInv, OneReportEach
<1>6. ReportersRegistered'
  BY <1>1 DEF IInv, ReportersRegistered, Reporters, Registered
<1>7. PendingAppealHasReports'
  BY <1>1, <1>2 DEF IInv, PendingAppealHasReports
<1> QED
  BY <1>4, <1>5, <1>6, <1>7 DEF IInv

\* Every step preserves the invariant.
LEMMA NextIInv == RegistryAssumption /\ IInv /\ [Next]_vars => IInv'
<1> SUFFICES ASSUME RegistryAssumption, IInv, [Next]_vars PROVE IInv'
  OBVIOUS
<1>1. ASSUME NEW caller \in Address, initialize(caller) PROVE IInv'
  <2>1. Cardinality({caller}) <= 1
    BY FS_Singleton
  <2> QED
    BY <1>1, <2>1 DEF initialize, IInv, TypeOK, OneReportEach, ReportersRegistered,
       Reporters, PendingAppealHasReports, Registered
<1>2. CASE Registering
  <2>1. TypeOK /\ TypeOK'
    BY <1>2, RegisteringValidators DEF IInv, TypeOK
  <2> QED
    BY <1>2, <2>1, RegisteringValidators
       DEF IInv, OneReportEach, ReportersRegistered, Reporters, PendingAppealHasReports
<1>3. CASE Reconfiguring
  <2>1. /\ UNCHANGED <<admin, validators, fraud_reports, appeals, cleared>>
        /\ config' \in Config
    <3>1. PICK caller \in Address, r \in Scores \cup {config.min_reputation},
               c \in Scores \cup {config.min_confidence},
               t \in Thresholds \cup {config.consensus_threshold} :
                 update_config(caller, r, c, t)
      BY <1>3 DEF Reconfiguring
    <3>2. r \in Nat /\ c \in Nat /\ t \in Nat
      BY DEF RegistryAssumption, IInv, TypeOK, Config
    <3> QED
      BY <3>1, <3>2 DEF update_config, Config, RegistryAssumption
  <2> QED
    BY <2>1 DEF IInv, TypeOK, OneReportEach, ReportersRegistered, Reporters,
       PendingAppealHasReports, Registered
<1>4. ASSUME NEW a \in Account, submit_appeal(a) PROVE IInv'
  <2>1. appeals' \in [Account -> AppealStatus \cup {"None"}]
    BY <1>4 DEF submit_appeal, IInv, TypeOK, AppealStatus
  <2>2. \A b \in Account : appeals'[b] = "Pending" => fraud_reports[b] # <<>>
    BY <1>4, FraudulentHasReports DEF submit_appeal, IInv, TypeOK, PendingAppealHasReports
  <2> QED
    BY <1>4, <2>1, <2>2 DEF submit_appeal, IInv, TypeOK, OneReportEach,
       ReportersRegistered, Reporters, PendingAppealHasReports, Registered
<1>5. CASE UNCHANGED vars
  BY <1>5 DEF vars, IInv, TypeOK, OneReportEach, ReportersRegistered, Reporters,
     PendingAppealHasReports, Registered
<1> QED
  BY <1>1, <1>2, <1>3, <1>4, <1>5, ReportIInv, ReviewIInv, StepCases

\* The inductive invariant holds throughout.
THEOREM Invariance == Spec => []IInv
BY RegistryAssumption, InitIInv, NextIInv, PTL DEF Spec

\* Scores stay percentages and the threshold positive.
THEOREM TypeCorrect == Spec => []TypeOK
BY Invariance, PTL DEF IInv

\* A consensus never counts one validator twice, nor an unregistered one.
THEOREM VotesAreDistinct == Spec => [](OneReportEach /\ ReportersRegistered)
BY Invariance, PTL DEF IInv

\* An appeal that waits for its decision has reports to decide about.
THEOREM PendingAppealHasReportsHolds == Spec => []PendingAppealHasReports
BY Invariance, PTL DEF IInv

-----------------------------------------------------------------------------
(* The counts of reports.                                                  *)

\* The accounts a validator's reports are on.
ReportedBy(v) == {a \in Account : v \in Reporters(a)}

\* Nobody has removed reports before being registered.
CountInv ==
  /\ ReportCountsAddUp
  /\ \A v \in Address \ Registered : cleared[v] = 0

\* Sets of accounts can be counted, and one more is one more.
LEMMA CountAccounts ==
  ASSUME RegistryAssumption, NEW S \in SUBSET Account
  PROVE  /\ Cardinality(S) \in Nat
         /\ \A a \in Account \ S : Cardinality(S \cup {a}) = Cardinality(S) + 1
         /\ \A a \in S : Cardinality(S \ {a}) = Cardinality(S) - 1
<1>1. IsFiniteSet(S)
  BY FS_Subset DEF RegistryAssumption
<1> QED
  BY <1>1, FS_CardinalityType, FS_AddElement, FS_RemoveElement

\* A report adds its validator to the reporters of its account.
LEMMA ReportReporters ==
  ASSUME RegistryAssumption, IInv, NEW v \in Address, NEW a \in Account, NEW s \in Scores,
         report_fraud(v, a, s)
  PROVE  /\ Reporters(a)' = Reporters(a) \cup {v}
         /\ \A b \in Account \ {a} : Reporters(b)' = Reporters(b)
<1> DEFINE r == [validator |-> v, confidence |-> s]
           old == fraud_reports[a]
<1>1. /\ r.validator = v /\ old \in Seq(FraudReport) /\ r \in FraudReport
      /\ fraud_reports'[a] = Append(old, r)
      /\ \A b \in Account \ {a} : fraud_reports'[b] = fraud_reports[b]
  BY DEF report_fraud, RegistryAssumption, FraudReport, IInv, TypeOK
<1> HIDE DEF r
<1>2. /\ DOMAIN Append(old, r) = 1 .. Len(old) + 1 /\ DOMAIN old = 1 .. Len(old)
      /\ Append(old, r)[Len(old) + 1] = r
      /\ \A k \in 1 .. Len(old) : Append(old, r)[k] = old[k]
      /\ Len(old) \in Nat
  BY <1>1
<1> HIDE DEF old
<1>3. {Append(old, r)[i].validator : i \in DOMAIN Append(old, r)}
      = {old[i].validator : i \in DOMAIN old} \cup {v}
  <2> DEFINE n == Len(old)
  <2>1. n \in Nat /\ \A i \in 1 .. n + 1 : i \in 1 .. n \/ i = n + 1
    BY <1>2
  <2>2. n + 1 \in 1 .. n + 1 /\ \A i \in 1 .. n : i \in 1 .. n + 1
    BY <2>1
  <2> QED
    BY <1>1, <1>2, <2>1, <2>2
<1> QED
  BY <1>1, <1>3 DEF Reporters, old

\* A step that moves neither reports nor removed reports keeps the counts, when it
\* keeps report_count and starts a new validator at 0.
LEMMA OtherCounts ==
  ASSUME RegistryAssumption, IInv, CountInv,
         UNCHANGED <<fraud_reports, cleared>>,
         Registered \subseteq Registered', Registered' \subseteq Address,
         \A v \in Registered : validators'[v].report_count = validators[v].report_count,
         \A v \in Registered' \ Registered : validators'[v].report_count = 0
  PROVE  CountInv'
<1>1. \A a \in Account : Reporters(a)' = Reporters(a)
  BY DEF Reporters
<1>2. \A v \in Address \ Registered : ReportedBy(v) = {}
  BY DEF IInv, ReportersRegistered, ReportedBy
<1>3. ASSUME NEW v \in Registered'
      PROVE  validators'[v].report_count = Cardinality(ReportedBy(v)) + cleared[v]
  <2>1. CASE v \in Registered
    BY <1>3, <2>1 DEF CountInv, ReportCountsAddUp, ReportedBy
  <2>2. CASE v \notin Registered
    <3>1. Cardinality(ReportedBy(v)) = 0 /\ cleared[v] = 0
      BY <1>2, <1>3, <2>2, FS_EmptySet DEF CountInv
    <3> QED
      BY <1>3, <2>2, <3>1
  <2> QED
    BY <2>1, <2>2
<1>4. \A v \in Registered' : ReportedBy(v) = {a \in Account : v \in Reporters(a)'}
  BY <1>1 DEF ReportedBy
<1>5. ReportCountsAddUp'
  BY <1>3, <1>4 DEF ReportCountsAddUp
<1> QED
  BY <1>5 DEF CountInv

\* A report counts one for its validator, on an account it had none on.
LEMMA ReportCounts ==
  ASSUME RegistryAssumption, IInv, CountInv,
         NEW v \in Address, NEW a \in Account, NEW s \in Scores, report_fraud(v, a, s)
  PROVE  CountInv'
<1>1. /\ v \in Registered /\ v \notin Reporters(a) /\ cleared' = cleared
      /\ validators \in [Registered -> Validator] /\ Registered \subseteq Address
      /\ cleared \in [Address -> Nat]
  BY DEF report_fraud, IInv, TypeOK
<1>2. /\ Registered' = Registered
      /\ validators'[v].report_count = validators[v].report_count + 1
      /\ \A w \in Registered \ {v} : validators'[w] = validators[w]
  <2>1. validators[v] \in Validator
    BY <1>1
  <2>2. validators' = [validators EXCEPT ![v].report_count = @ + 1]
    BY DEF report_fraud
  <2> QED
    BY <1>1, <2>1, <2>2 DEF Registered, Validator
<1>3. ReportedBy(v)' = ReportedBy(v) \cup {a} /\ a \notin ReportedBy(v)
  BY <1>1, ReportReporters DEF ReportedBy
<1>4. \A w \in Registered \ {v} : {b \in Account : w \in Reporters(b)'} = ReportedBy(w)
  BY ReportReporters DEF ReportedBy
<1>5. ASSUME NEW w \in Registered
      PROVE  validators'[w].report_count =
               Cardinality({b \in Account : w \in Reporters(b)'}) + cleared[w]
  <2>1. validators[w].report_count = Cardinality(ReportedBy(w)) + cleared[w]
    BY DEF CountInv, ReportCountsAddUp, ReportedBy
  <2>2. CASE w = v
    <3>1. Cardinality(ReportedBy(v) \cup {a}) = Cardinality(ReportedBy(v)) + 1
          /\ Cardinality(ReportedBy(v)) \in Nat /\ cleared[v] \in Nat
      BY <1>1, <1>3, CountAccounts DEF ReportedBy
    <3>2. {b \in Account : w \in Reporters(b)'} = ReportedBy(w) \cup {a}
      BY <1>3, <2>2 DEF ReportedBy
    <3>3. Cardinality({b \in Account : w \in Reporters(b)'})
          = Cardinality(ReportedBy(w) \cup {a})
      BY <3>2
    <3> DEFINE new == Cardinality({b \in Account : w \in Reporters(b)'})
    <3> DEFINE held == Cardinality(ReportedBy(w))
    <3>4. new = held + 1 /\ held \in Nat
      BY <2>2, <3>1, <3>3
    <3>5. validators[w].report_count = held + cleared[w]
          /\ validators'[w].report_count = validators[w].report_count + 1
      BY <1>2, <2>1, <2>2
    <3>6. cleared[w] \in Nat
      BY <2>2, <3>1
    <3>7. ASSUME NEW x, x = new PROVE validators'[w].report_count = x + cleared[w]
      <4> HIDE DEF new, held
      <4> QED
        BY <3>4, <3>5, <3>6, <3>7
    <3> QED
      BY <3>7
  <2>3. CASE w # v
    BY <1>2, <1>4, <2>1, <2>3
  <2> QED
    BY <2>2, <2>3
<1>6. ReportCountsAddUp'
  BY <1>1, <1>2, <1>5 DEF ReportCountsAddUp
<1> QED
  BY <1>1, <1>2, <1>6 DEF CountInv

\* What an approved appeal takes from a validator's reports it adds to the removed.
LEMMA ReviewCounts ==
  ASSUME RegistryAssumption, IInv, CountInv, NEW caller \in Address, NEW a \in Account,
         NEW approve \in BOOLEAN, review_appeal(caller, a, approve)
  PROVE  CountInv'
<1>1. /\ validators' = validators /\ cleared \in [Address -> Nat]
      /\ fraud_reports \in [Account -> Seq(FraudReport)]
      /\ fraud_reports' = IF approve THEN [fraud_reports EXCEPT ![a] = <<>>]
                          ELSE fraud_reports
      /\ cleared' = [v \in Address |-> IF approve /\ v \in Reporters(a)
                                       THEN cleared[v] + 1 ELSE cleared[v]]
      /\ Registered \subseteq Address /\ Reporters(a) \subseteq Registered
  BY DEF review_appeal, IInv, TypeOK, ReportersRegistered
<1>2. /\ Reporters(a)' = IF approve THEN {} ELSE Reporters(a)
      /\ \A b \in Account \ {a} : Reporters(b)' = Reporters(b)
  BY <1>1 DEF Reporters
<1>3. ASSUME NEW v \in Registered
      PROVE  validators[v].report_count =
               Cardinality({b \in Account : v \in Reporters(b)'}) + cleared'[v]
  <2>1. validators[v].report_count = Cardinality(ReportedBy(v)) + cleared[v]
        /\ Cardinality(ReportedBy(v)) \in Nat /\ cleared[v] \in Nat
    BY <1>1, CountAccounts DEF CountInv, ReportCountsAddUp, ReportedBy
  <2>2. CASE approve /\ v \in Reporters(a)
    <3>1. {b \in Account : v \in Reporters(b)'} = ReportedBy(v) \ {a} /\ a \in ReportedBy(v)
      BY <1>2, <2>2 DEF ReportedBy
    <3>2. Cardinality(ReportedBy(v) \ {a}) = Cardinality(ReportedBy(v)) - 1
      BY <3>1, CountAccounts DEF ReportedBy
    <3>3. cleared'[v] = cleared[v] + 1
      BY <1>1, <2>2
    <3> DEFINE new == Cardinality({b \in Account : v \in Reporters(b)'})
    <3>4. new = Cardinality(ReportedBy(v) \ {a})
      BY <3>1
    <3>5. ASSUME NEW x, x = new PROVE validators[v].report_count = x + cleared'[v]
      <4> HIDE DEF new
      <4> QED
        BY <2>1, <3>2, <3>3, <3>4, <3>5
    <3> QED
      BY <3>5
  <2>3. CASE ~(approve /\ v \in Reporters(a))
    <3>1. {b \in Account : v \in Reporters(b)'} = ReportedBy(v)
      BY <1>2, <2>3 DEF ReportedBy
    <3>2. cleared'[v] = cleared[v]
      BY <1>1, <2>3
    <3> QED
      BY <2>1, <3>1, <3>2
  <2> QED
    BY <2>2, <2>3
<1>4. ReportCountsAddUp'
  BY <1>1, <1>3 DEF ReportCountsAddUp, Registered
<1>5. \A v \in Address \ Registered : cleared'[v] = cleared[v]
  BY <1>1
<1> QED
  BY <1>1, <1>4, <1>5 DEF CountInv, Registered

\* Every step keeps the counts.
LEMMA NextCountInv == RegistryAssumption /\ IInv /\ CountInv /\ [Next]_vars => CountInv'
<1> SUFFICES ASSUME RegistryAssumption, IInv, CountInv, [Next]_vars PROVE CountInv'
  OBVIOUS
<1>1. CASE Registering
  <2>1. TypeOK
    BY DEF IInv
  <2> QED
    BY <1>1, <2>1, RegisteringValidators, OtherCounts
<1>2. CASE UNCHANGED <<validators, fraud_reports, cleared>>
  <2>1. Registered' = Registered /\ Registered \subseteq Address
    BY <1>2 DEF Registered, IInv, TypeOK
  <2> QED
    BY <1>2, <2>1, OtherCounts
<1>3. \/ Registering \/ UNCHANGED <<validators, fraud_reports, cleared>>
      \/ \E caller \in Address, a \in Account, approve \in BOOLEAN :
           review_appeal(caller, a, approve)
      \/ \E v \in Address, a \in Account, s \in Scores : report_fraud(v, a, s)
  BY StepCases DEF initialize, Reconfiguring, update_config, submit_appeal, vars
<1> QED
  BY <1>1, <1>2, <1>3, ReportCounts, ReviewCounts

\* A validator's report_count is its reports on record and those appeals removed,
\* for any number of validators, accounts, appeals and registrations.
THEOREM ReportCountsAddUpHolds == Spec => []ReportCountsAddUp
<1>1. RegistryAssumption /\ Init => CountInv
  BY DEF Init, CountInv, ReportCountsAddUp, Registered
<1>2. CountInv => ReportCountsAddUp
  BY DEF CountInv
<1> QED
  BY <1>1, <1>2, RegistryAssumption, NextCountInv, Invariance, PTL DEF Spec

-----------------------------------------------------------------------------
(* What a step may do.                                                     *)

\* An appeal is decided once and its decision stands.
THEOREM DecisionIsFinalHolds == Spec => DecisionIsFinal
<1>1. ASSUME RegistryAssumption, IInv, [Next]_vars
      PROVE  \A a \in Account :
               /\ appeals[a] \in {"Approved", "Rejected"} => appeals'[a] = appeals[a]
               /\ appeals[a] = "Pending" => appeals'[a] # "None"
  <2> TAKE a \in Account
  <2>1. CASE Registering
    BY <1>1, <2>1, RegisteringValidators DEF IInv
  <2>2. CASE Reconfiguring
    BY <2>2 DEF Reconfiguring, update_config
  <2>3. CASE \E b \in Account : submit_appeal(b)
    BY <1>1, <2>3 DEF submit_appeal, IInv, TypeOK
  <2>4. CASE \E caller \in Address, b \in Account, approve \in BOOLEAN :
               review_appeal(caller, b, approve)
    BY <1>1, <2>4 DEF review_appeal, IInv, TypeOK
  <2>5. CASE \/ \E caller \in Address : initialize(caller)
             \/ \E v \in Address, b \in Account, s \in Scores : report_fraud(v, b, s)
             \/ UNCHANGED vars
    BY <2>5 DEF initialize, report_fraud, vars
  <2> QED
    BY <1>1, <2>1, <2>2, <2>3, <2>4, <2>5, StepCases
<1> QED
  BY <1>1, RegistryAssumption, Invariance, PTL DEF Spec, DecisionIsFinal

\* A validator keeps its registration, its record and, once deactivated, its
\* deactivation.
THEOREM RegistrationIsOnceHolds == Spec => RegistrationIsOnce
<1>1. ASSUME RegistryAssumption, IInv, [Next]_vars
      PROVE  \A v \in Registered :
               /\ v \in Registered'
               /\ validators[v].report_count <= validators'[v].report_count
               /\ validators[v].accurate_reports <= validators'[v].accurate_reports
               /\ validators'[v].is_active => validators[v].is_active
  <2>0. \A v \in Registered : /\ validators[v].report_count \in Nat
                              /\ validators[v].accurate_reports \in Nat
    BY <1>1 DEF IInv, TypeOK, Validator
  <2>1. CASE Registering
    <3>1. \A v \in Registered' : validators'[v].accurate_reports \in Nat
      BY <1>1, <2>1, RegisteringValidators DEF IInv, Validator
    <3> QED
      BY <1>1, <2>0, <2>1, <3>1, RegisteringValidators DEF IInv
  <2>2. ASSUME NEW w \in Address, NEW a \in Account, NEW s \in Scores, report_fraud(w, a, s)
        PROVE  \A v \in Registered :
                 /\ v \in Registered'
                 /\ validators'[v].report_count \in {validators[v].report_count,
                                                     validators[v].report_count + 1}
                 /\ validators'[v].accurate_reports = validators[v].accurate_reports
                 /\ validators'[v].is_active = validators[v].is_active
    <3>1. validators \in [Registered -> Validator]
      BY <1>1 DEF IInv, TypeOK
    <3>2. w \in Registered
          /\ validators' = [validators EXCEPT ![w].report_count = @ + 1]
      BY <2>2 DEF report_fraud
    <3> QED
      BY <3>1, <3>2 DEF Registered, Validator
  <2>3. ASSUME NEW w \in Address, NEW a \in Account, NEW s \in Scores, report_fraud(w, a, s)
        PROVE  \A v \in Registered :
                 /\ v \in Registered'
                 /\ validators[v].report_count <= validators'[v].report_count
                 /\ validators[v].accurate_reports <= validators'[v].accurate_reports
                 /\ validators'[v].is_active => validators[v].is_active
    BY <2>0, <2>2, <2>3
  <2>4. CASE UNCHANGED validators
    BY <2>0, <2>4 DEF Registered
  <2>5. \/ Registering \/ UNCHANGED validators
        \/ \E v \in Address, a \in Account, s \in Scores : report_fraud(v, a, s)
    BY <1>1, StepCases DEF initialize, Reconfiguring, update_config, review_appeal,
       submit_appeal, vars
  <2> QED
    BY <2>1, <2>3, <2>4, <2>5
<1> QED
  BY <1>1, RegistryAssumption, Invariance, PTL DEF Spec, RegistrationIsOnce

\* A verdict changes only by a report, an approved appeal or a new threshold:
\* never by what happens to the validators who gave it.
THEOREM VerdictChangesOnlyByHolds == Spec => VerdictChangesOnlyBy
<1> DEFINE Justified(a) ==
      /\ ~is_fraudulent(a) /\ is_fraudulent(a)' =>
           \/ Len(fraud_reports'[a]) = Len(fraud_reports[a]) + 1
           \/ config'.consensus_threshold < config.consensus_threshold
      /\ is_fraudulent(a) /\ ~is_fraudulent(a)' =>
           \/ appeals[a] = "Pending" /\ appeals'[a] = "Approved"
           \/ config'.consensus_threshold > config.consensus_threshold
<1>1. ASSUME RegistryAssumption, IInv, [Next]_vars
      PROVE  \A a \in Account : Justified(a)
  <2> TAKE a \in Account
  <2>0. /\ Cardinality(Reporters(a)) \in Nat
        /\ config.consensus_threshold \in Nat
        /\ fraud_reports \in [Account -> Seq(FraudReport)]
    <3>1. fraud_reports[a] \in Seq(FraudReport)
      BY <1>1 DEF IInv, TypeOK
    <3>2. Reporters(a) \subseteq Address
      BY <3>1, ReportersOf
    <3> QED
      BY <1>1, <3>2, FS_Subset, FS_CardinalityType
         DEF RegistryAssumption, IInv, TypeOK, Config
  <2>1. CASE UNCHANGED <<fraud_reports, config>>
    BY <2>1 DEF is_fraudulent, Reporters
  <2>2. CASE Reconfiguring
    <3>1. Reporters(a)' = Reporters(a)
      BY <2>2 DEF Reconfiguring, update_config, Reporters
    <3>2. config'.consensus_threshold \in Nat
      BY <1>1, NextIInv DEF IInv, TypeOK, Config
    <3> QED
      BY <2>0, <3>1, <3>2 DEF is_fraudulent
  <2>3. ASSUME NEW v \in Address, NEW b \in Account, NEW s \in Scores, report_fraud(v, b, s)
        PROVE  Justified(a)
    <3>1. CASE a = b
      <4> DEFINE r == [validator |-> v, confidence |-> s]
      <4>1. fraud_reports[a] \in Seq(FraudReport) /\ fraud_reports'[a] = Append(fraud_reports[a], r)
            /\ r \in FraudReport
        BY <1>1, <2>0, <2>3, <3>1 DEF report_fraud, FraudReport, RegistryAssumption
      <4>2. Len(fraud_reports'[a]) = Len(fraud_reports[a]) + 1
        <5> HIDE DEF r
        <5> QED
          BY <4>1
      <4>3. Reporters(a) \subseteq Reporters(a)' /\ Reporters(a)' \subseteq Address
        <5>1. fraud_reports'[a] \in Seq(FraudReport)
          BY <1>1, NextIInv DEF IInv, TypeOK
        <5>2. \A i \in DOMAIN fraud_reports[a] :
                i \in DOMAIN fraud_reports'[a] /\ fraud_reports'[a][i] = fraud_reports[a][i]
          <6> HIDE DEF r
          <6> QED
            BY <4>1
        <5>3. Reporters(a) \subseteq Reporters(a)'
          BY <5>2 DEF Reporters
        <5>4. Reporters(a)' \subseteq Address
          <6> SUFFICES ASSUME NEW i \in DOMAIN fraud_reports'[a]
                       PROVE  fraud_reports'[a][i].validator \in Address
            BY DEF Reporters
          <6>1. fraud_reports'[a][i] \in FraudReport
            BY <5>1
          <6> QED
            BY <6>1 DEF FraudReport
        <5> QED
          BY <5>3, <5>4
      <4>4. Cardinality(Reporters(a)) <= Cardinality(Reporters(a)')
            /\ Cardinality(Reporters(a)') \in Nat
        BY <1>1, <4>3, FS_Subset, FS_CardinalityType DEF RegistryAssumption
      <4>5. config' = config
        BY <2>3 DEF report_fraud
      <4> QED
        BY <2>0, <4>2, <4>4, <4>5 DEF is_fraudulent
    <3>2. CASE a # b
      <4>1. fraud_reports'[a] = fraud_reports[a] /\ config' = config
        BY <2>0, <2>3, <3>2 DEF report_fraud
      <4> QED
        BY <4>1 DEF is_fraudulent, Reporters
    <3> QED
      BY <3>1, <3>2
  <2>4. ASSUME NEW caller \in Address, NEW b \in Account, NEW approve \in BOOLEAN,
               review_appeal(caller, b, approve)
        PROVE  Justified(a)
    <3>1. CASE a = b /\ approve
      <4>1. fraud_reports'[a] = <<>> /\ config' = config
        BY <2>0, <2>4, <3>1 DEF review_appeal
      <4>2. Cardinality(Reporters(a)') = 0
        <5>1. Reporters(a)' = {}
          BY <4>1 DEF Reporters
        <5> QED
          BY <5>1, FS_EmptySet
      <4>3. ~is_fraudulent(a)'
        BY <1>1, <2>0, <4>1, <4>2 DEF is_fraudulent, IInv, TypeOK, Config
      <4>4. appeals[a] = "Pending" /\ appeals'[a] = "Approved"
        BY <1>1, <2>4, <3>1 DEF review_appeal, IInv, TypeOK
      <4> QED
        BY <4>3, <4>4
    <3>2. CASE ~(a = b /\ approve)
      <4>1. fraud_reports'[a] = fraud_reports[a] /\ config' = config
        BY <2>0, <2>4, <3>2 DEF review_appeal
      <4> QED
        BY <4>1 DEF is_fraudulent, Reporters
    <3> QED
      BY <3>1, <3>2
  <2>5. \/ UNCHANGED <<fraud_reports, config>>
        \/ Reconfiguring
        \/ \E caller \in Address, b \in Account, approve \in BOOLEAN :
             review_appeal(caller, b, approve)
        \/ \E v \in Address, b \in Account, s \in Scores : report_fraud(v, b, s)
    BY <1>1, StepCases, RegisteringValidators DEF IInv, initialize, submit_appeal, vars
  <2> HIDE DEF Justified
  <2> QED
    BY <2>1, <2>2, <2>3, <2>4, <2>5
<1> QED
  BY <1>1, RegistryAssumption, Invariance, PTL DEF Spec, VerdictChangesOnlyBy
=============================================================================
