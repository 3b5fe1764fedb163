-------------------------- MODULE ClaimService_proofs --------------------------
(***************************************************************************)
(* That no claim is paid oftener than it was asked for, save once more per *)
(* acceptance whose status was lost, and that a final status in the row    *)
(* was earned, for any number of claims, retries, faults and restarts.     *)
(*                                                                         *)
(* Neither property is inductive by itself.  The first needs to know when  *)
(* another submission may still come: while the claim is held or its row   *)
(* is pending, unless the status of an acceptance is just being written.   *)
(* The second needs to know that every retry counted was a submission that *)
(* failed or whose status was lost, and what the status being written says.*)
(***************************************************************************)
EXTENDS ClaimService, TLAPS

\* The claim being written is still held.
HeldWhileWritten == \A c \in Claim : current = c => pending[c].held

\* A submission of the claim may still follow.
Owed(c) ==
  /\ ~(current = c /\ outcome = "submitted")
  /\ pending[c].held \/ rows[c] = "pending"

\* There is room for the submission that is owed.
Balanced ==
  \A c \in Claim : accepted[c] + (IF Owed(c) THEN 1 ELSE 0) <= calls[c] + lost[c]

\* A retry that was counted is a submission that failed or was lost.
RetriesAreFailures ==
  \A c \in Claim : pending[c].retry_count <= refused[c] + lost[c]

\* The status being written is earned.
OutcomeIsEarned ==
  \A c \in Claim : current = c =>
    /\ outcome = "submitted" => accepted[c] >= 1
    /\ outcome = "expired" => expired[c]
    /\ outcome = "failed" => refused[c] + lost[c] >= MaxRetries

IInv ==
  /\ TypeOK /\ HeldWhileWritten /\ Balanced
  /\ RetriesAreFailures /\ OutcomeIsEarned /\ FinalStatusIsEarned

-----------------------------------------------------------------------------
\* A refused submission is a submission, with one more retry.
LEMMA RefusedSubmission ==
  ASSUME NEW s \in Submission
  PROVE  /\ Refused(s) \in Submission
         /\ Refused(s).held = s.held
         /\ Refused(s).retry_count = s.retry_count + 1
BY DEF Submission, Refused

\* The service starts with nothing held and one submission owed per pending row.
LEMMA InitIInv == ASSUME Init PROVE IInv
<1> USE ClaimAssumption DEF Init
<1>1. TypeOK
  BY DEF TypeOK, RowStatus, Final, NotHeld, Submission
<1>2. HeldWhileWritten /\ Balanced
  BY DEF HeldWhileWritten, Balanced, Owed, NotHeld
<1>3. RetriesAreFailures /\ OutcomeIsEarned /\ FinalStatusIsEarned
  BY DEF RetriesAreFailures, OutcomeIsEarned, FinalStatusIsEarned, NotHeld
<1> QED
  BY <1>1, <1>2, <1>3 DEF IInv

\* Types are kept by every step.
LEMMA NextTypeOK == ASSUME TypeOK, [Next]_vars PROVE TypeOK'
<1> USE ClaimAssumption DEF TypeOK
<1>1. ASSUME NEW c \in Claim, submit_claim(c) PROVE TypeOK'
  BY <1>1 DEF submit_claim, NewSubmission, Submission
<1>2. ASSUME NEW c \in Claim, Attempt(c) PROVE TypeOK'
  BY <1>2, RefusedSubmission DEF Attempt, Submit, bound_vars, Final
<1>3. ASSUME NEW c \in Claim, RecordStatus(c) PROVE TypeOK'
  BY <1>3 DEF RecordStatus, Dropped, NotHeld, Submission, history_vars, bound_vars, RowStatus
<1>4. ASSUME NEW c \in Claim, StatusLogged(c) PROVE TypeOK'
  BY <1>4 DEF StatusLogged, Dropped, NotHeld, Submission, Lost
<1>5. ASSUME NEW c \in Claim, StatusRaises(c) PROVE TypeOK'
  BY <1>5, RefusedSubmission DEF StatusRaises, Lost
<1>6. ASSUME NEW c \in Claim, Wake(c) PROVE TypeOK'
  BY <1>6 DEF Wake, Submission, history_vars, bound_vars
<1>7. ASSUME NEW c \in Claim, Expire(c) PROVE TypeOK'
  BY <1>7 DEF Expire, service_vars, history_vars, bound_vars
<1>8. CASE load_pending_claims_from_db
  BY <1>8 DEF load_pending_claims_from_db, NewSubmission, Submission, history_vars
<1>9. CASE start_background_retry
  BY <1>9 DEF start_background_retry, history_vars, bound_vars
<1>10. CASE stop_background_retry
  BY <1>10 DEF stop_background_retry, history_vars, bound_vars
<1>11. CASE Crash
  <2>1. lost' \in [Claim -> Nat]
    BY <1>11 DEF Crash, Lost
  <2>2. pending' \in [Claim -> Submission]
    BY <1>11 DEF Crash, NotHeld, Submission
  <2>3. faults' \in Nat
    BY <1>11 DEF Crash
  <2>5. running' \in BOOLEAN /\ current' = NoClaim
    BY <1>11, Zenon DEF Crash
  <2>4. UNCHANGED <<outcome, rows, expired, calls, accepted, refused,
                    submits, loads, starts>>
    BY <1>11 DEF Crash
  <2> QED
    BY <2>1, <2>2, <2>3, <2>4, <2>5
<1>12. CASE UNCHANGED vars
  BY <1>12 DEF vars, service_vars, history_vars, bound_vars
<1> QED
  BY <1>1, <1>2, <1>3, <1>4, <1>5, <1>6, <1>7, <1>8, <1>9, <1>10, <1>11, <1>12
  DEF Next

-----------------------------------------------------------------------------
(* One lemma per action.                                                   *)

\* A new submission is asked for and owed.
LEMMA SubmitClaimIInv ==
  ASSUME IInv, NEW c \in Claim, submit_claim(c) PROVE IInv'
<1> USE ClaimAssumption DEF IInv, TypeOK, submit_claim, NewSubmission
<1>1. TypeOK'
  BY NextTypeOK DEF Next
<1>2. HeldWhileWritten' /\ Balanced'
  BY DEF HeldWhileWritten, Balanced, Owed
<1>3. RetriesAreFailures' /\ OutcomeIsEarned' /\ FinalStatusIsEarned'
  BY DEF RetriesAreFailures, OutcomeIsEarned, FinalStatusIsEarned
<1> QED
  BY <1>1, <1>2, <1>3

\* Only claims that were owed anyway are loaded.
LEMMA LoadIInv == ASSUME IInv, load_pending_claims_from_db PROVE IInv'
<1> USE ClaimAssumption DEF IInv, TypeOK, load_pending_claims_from_db, NewSubmission,
          history_vars
<1>1. TypeOK'
  BY NextTypeOK DEF Next
<1>2. HeldWhileWritten' /\ Balanced'
  BY DEF HeldWhileWritten, Balanced, Owed
<1>3. RetriesAreFailures' /\ OutcomeIsEarned' /\ FinalStatusIsEarned'
  BY DEF RetriesAreFailures, OutcomeIsEarned, FinalStatusIsEarned
<1> QED
  BY <1>1, <1>2, <1>3

\* The submission that was owed is made.
LEMMA AttemptIInv == ASSUME IInv, NEW c \in Claim, Attempt(c) PROVE IInv'
<1> USE ClaimAssumption DEF IInv, TypeOK, Attempt, Submit, Due, bound_vars
<1>1. TypeOK'
  BY NextTypeOK DEF Next
<1>2. HeldWhileWritten'
  BY RefusedSubmission DEF HeldWhileWritten
<1>3. Balanced'
  <2>1. Owed(c) /\ accepted[c] + 1 <= calls[c] + lost[c]
    BY DEF Balanced, Owed
  <2>2. \A d \in Claim \ {c} : Owed(d)' = Owed(d) /\ accepted'[d] = accepted[d]
    BY DEF Owed
  <2>3. accepted'[c] + (IF Owed(c)' THEN 1 ELSE 0) <= calls[c] + lost[c]
    BY <2>1 DEF Owed
  <2> QED
    BY <2>2, <2>3 DEF Balanced
<1>4. RetriesAreFailures' /\ FinalStatusIsEarned'
  <2>1. RetriesAreFailures'
    <3>1. CASE pending' = pending
      BY <3>1 DEF RetriesAreFailures, Submission
    <3>2. CASE pending' = [pending EXCEPT ![c] = Refused(@)]
               /\ refused' = [refused EXCEPT ![c] = @ + 1]
      BY <3>2, RefusedSubmission DEF RetriesAreFailures, Submission
    <3> QED
      BY <3>1, <3>2
  <2> QED
    BY <2>1 DEF FinalStatusIsEarned
<1>5. OutcomeIsEarned'
  BY DEF OutcomeIsEarned, RetriesAreFailures, Exhausted, Submission
<1> QED
  BY <1>1, <1>2, <1>3, <1>4, <1>5

\* A final status in the row leaves nothing owed; a pending one changes nothing.
LEMMA RecordIInv == ASSUME IInv, NEW c \in Claim, RecordStatus(c) PROVE IInv'
<1> USE ClaimAssumption DEF IInv, TypeOK, RecordStatus, history_vars, bound_vars
<1>1. TypeOK'
  BY NextTypeOK DEF Next
<1>2. HeldWhileWritten'
  BY DEF HeldWhileWritten
<1>3. Balanced'
  <2>1. Owed(c)' => Owed(c)
    BY DEF Owed, HeldWhileWritten, Dropped, NotHeld, Final
  <2>2. \A d \in Claim \ {c} : Owed(d)' => Owed(d)
    BY DEF Owed, Dropped
  <2> QED
    BY <2>1, <2>2 DEF Balanced
<1>4. RetriesAreFailures' /\ OutcomeIsEarned'
  BY DEF RetriesAreFailures, OutcomeIsEarned, Dropped, NotHeld
<1>5. FinalStatusIsEarned'
  BY DEF FinalStatusIsEarned, OutcomeIsEarned
<1> QED
  BY <1>1, <1>2, <1>3, <1>4, <1>5

\* A lost acceptance pays for the submission that is owed again.
LEMMA LoggedIInv == ASSUME IInv, NEW c \in Claim, StatusLogged(c) PROVE IInv'
<1> USE ClaimAssumption DEF IInv, TypeOK, StatusLogged
<1>1. TypeOK'
  BY NextTypeOK DEF Next
<1>2. HeldWhileWritten'
  BY DEF HeldWhileWritten
<1>3. Balanced'
  <2>1. \A d \in Claim \ {c} : (Owed(d)' => Owed(d)) /\ lost'[d] = lost[d]
    BY DEF Owed, Dropped, Lost
  <2>2. CASE outcome = "submitted"
    BY <2>1, <2>2 DEF Balanced, Owed, Lost
  <2>3. CASE outcome # "submitted"
    BY <2>1, <2>3 DEF Balanced, Owed, Lost, HeldWhileWritten
  <2> QED
    BY <2>2, <2>3
<1>4. RetriesAreFailures' /\ OutcomeIsEarned'
  BY DEF RetriesAreFailures, OutcomeIsEarned, Dropped, NotHeld, Lost
<1>5. FinalStatusIsEarned'
  BY DEF FinalStatusIsEarned, Lost
<1> QED
  BY <1>1, <1>2, <1>3, <1>4, <1>5

\* So it does when the update raises, which counts as a retry.
LEMMA RaisesIInv == ASSUME IInv, NEW c \in Claim, StatusRaises(c) PROVE IInv'
<1> USE ClaimAssumption DEF IInv, TypeOK, StatusRaises
<1>1. TypeOK'
  BY NextTypeOK DEF Next
<1>2. HeldWhileWritten'
  BY RefusedSubmission DEF HeldWhileWritten
<1>3. Balanced'
  <2>1. \A d \in Claim \ {c} : (Owed(d)' => Owed(d)) /\ lost'[d] = lost[d]
    BY DEF Owed, Lost
  <2>2. CASE outcome = "submitted"
    BY <2>1, <2>2 DEF Balanced, Owed, Lost
  <2>3. CASE outcome # "submitted"
    BY <2>1, <2>3 DEF Balanced, Owed, Lost, HeldWhileWritten
  <2> QED
    BY <2>2, <2>3
<1>4. RetriesAreFailures' /\ OutcomeIsEarned'
  BY RefusedSubmission DEF RetriesAreFailures, OutcomeIsEarned, Lost, Submission
<1>5. FinalStatusIsEarned'
  BY DEF FinalStatusIsEarned, Lost
<1> QED
  BY <1>1, <1>2, <1>3, <1>4, <1>5

\* A crash between an acceptance and its status loses the acceptance.
LEMMA CrashIInv == ASSUME IInv, Crash PROVE IInv'
<1> USE ClaimAssumption DEF IInv, TypeOK, Crash, NotHeld
<1>1. TypeOK'
  BY NextTypeOK DEF Next
<1>2. HeldWhileWritten'
  BY DEF HeldWhileWritten
<1>3. Balanced'
  <2> SUFFICES ASSUME NEW d \in Claim
               PROVE  accepted[d] + (IF Owed(d)' THEN 1 ELSE 0) <= calls[d] + lost'[d]
    BY DEF Balanced
  <2>1. CASE current = d /\ outcome = "submitted"
    BY <2>1 DEF Balanced, Owed, Lost
  <2>2. CASE ~(current = d /\ outcome = "submitted")
    BY <2>2 DEF Balanced, Owed, Lost
  <2> QED
    BY <2>1, <2>2
<1>4. RetriesAreFailures' /\ OutcomeIsEarned'
  BY DEF RetriesAreFailures, OutcomeIsEarned, Lost
<1>5. FinalStatusIsEarned'
  BY DEF FinalStatusIsEarned, Lost
<1> QED
  BY <1>1, <1>2, <1>3, <1>4, <1>5

\* The other steps touch none of the balances.
LEMMA QuietIInv ==
  ASSUME IInv,
         \/ \E c \in Claim : Wake(c) \/ Expire(c)
         \/ start_background_retry
         \/ stop_background_retry
         \/ UNCHANGED vars
  PROVE  IInv'
<1> USE ClaimAssumption DEF IInv, TypeOK, vars, service_vars, history_vars, bound_vars
<1>1. TypeOK'
  BY NextTypeOK DEF Next
<1>2. /\ \A c \in Claim : /\ pending'[c].held = pending[c].held
                          /\ pending'[c].retry_count = pending[c].retry_count
                          /\ expired[c] => expired'[c]
      /\ UNCHANGED <<current, outcome, rows, calls, accepted, refused, lost>>
  BY DEF Wake, Expire, start_background_retry, stop_background_retry, Submission
<1>3. HeldWhileWritten' /\ Balanced'
  BY <1>2 DEF HeldWhileWritten, Balanced, Owed
<1>4. RetriesAreFailures' /\ OutcomeIsEarned' /\ FinalStatusIsEarned'
  BY <1>2 DEF RetriesAreFailures, OutcomeIsEarned, FinalStatusIsEarned
<1> QED
  BY <1>1, <1>3, <1>4

-----------------------------------------------------------------------------
\* The inductive invariant holds of every run.
THEOREM Invariance == Spec => []IInv
<1>1. Init => IInv
  BY InitIInv
<1>2. IInv /\ [Next]_vars => IInv'
  BY SubmitClaimIInv, LoadIInv, AttemptIInv, RecordIInv, LoggedIInv, RaisesIInv,
     CrashIInv, QuietIInv DEF Next
<1> QED
  BY <1>1, <1>2, PTL DEF Spec

\* Every variable keeps its type, however many claims and faults there are.
THEOREM TypeCorrect == Spec => []TypeOK
<1>1. IInv => TypeOK
  BY DEF IInv
<1> QED
  BY <1>1, Invariance, PTL

\* Reloads, restarts, retries and repeated submissions alone never have a claim
\* accepted oftener than it was asked for.
THEOREM DuplicatesAreExplainedHolds == Spec => []DuplicatesAreExplained
<1>1. IInv => DuplicatesAreExplained
  BY DEF IInv, Balanced, DuplicatesAreExplained, TypeOK
<1> QED
  BY <1>1, Invariance, PTL

\* A row says submitted, expired or failed only of a claim that was.
THEOREM FinalStatusIsEarnedHolds == Spec => []FinalStatusIsEarned
<1>1. IInv => FinalStatusIsEarned
  BY DEF IInv
<1> QED
  BY <1>1, Invariance, PTL

-----------------------------------------------------------------------------
(* How often the callback is called.                                       *)

\* An acceptance whose status is being written: the claim will be dropped, or the
\* acceptance counted as a retry.
BeingAccepted(c) == current = c /\ outcome = "submitted"

\* The retries that a claim which is held still has.
Spare(c) ==
  IF pending[c].held
  THEN MaxRetries - pending[c].retry_count - (IF BeingAccepted(c) THEN 1 ELSE 0)
  ELSE 0

Allowed(c) == MaxRetries * (calls[c] + loads)

\* What was tried and what may still be tried was allowed by a submission or a
\* load, and no claim has less than no retries.
BudgetInv ==
  \A c \in Claim : Spare(c) \in Nat /\ accepted[c] + refused[c] + Spare(c) <= Allowed(c)

\* Arithmetic that SMT needs on its own.
LEMMA OneMore ==
  ASSUME NEW m \in Nat, NEW n \in Nat
  PROVE  m * (n + 1) = m * n + m /\ m * n \in Nat
OBVIOUS

\* One submission or load more allows max_retries attempts more.
LEMMA AllowedGrows ==
  ASSUME IInv, NEW c \in Claim
  PROVE  /\ Allowed(c) \in Nat /\ MaxRetries \in Nat
         /\ accepted[c] \in Nat /\ refused[c] \in Nat
         /\ calls'[c] + loads' = calls[c] + loads => Allowed(c)' = Allowed(c)
         /\ calls'[c] + loads' = calls[c] + loads + 1 => Allowed(c)' = Allowed(c) + MaxRetries
<1>1. /\ calls[c] + loads \in Nat /\ MaxRetries \in Nat
      /\ accepted[c] \in Nat /\ refused[c] \in Nat
  BY ClaimAssumption DEF IInv, TypeOK
<1>2. /\ MaxRetries * (calls[c] + loads + 1) = MaxRetries * (calls[c] + loads) + MaxRetries
      /\ MaxRetries * (calls[c] + loads) \in Nat
  BY <1>1, OneMore
<1>3. Allowed(c) = MaxRetries * (calls[c] + loads) /\ Allowed(c)' = MaxRetries * (calls'[c] + loads')
  BY DEF Allowed
<1> QED
  BY <1>1, <1>2, <1>3

\* A new entry starts with all its retries.
LEMMA NewSpare ==
  ASSUME NEW c \in Claim, pending'[c] = NewSubmission, current' = NoClaim
  PROVE  Spare(c)' = MaxRetries
<1>1. ~BeingAccepted(c)'
  BY ClaimAssumption DEF BeingAccepted
<1> QED
  BY <1>1, ClaimAssumption DEF Spare, NewSubmission

\* A submission allows max_retries more and sets the claim's count to no retries.
LEMMA SubmitBudget ==
  ASSUME IInv, BudgetInv, NEW c \in Claim, submit_claim(c) PROVE BudgetInv'
<1> SUFFICES ASSUME NEW d \in Claim
             PROVE  Spare(d)' \in Nat /\ accepted'[d] + refused'[d] + Spare(d)' <= Allowed(d)'
  BY DEF BudgetInv
<1>1. /\ current = NoClaim /\ current' = NoClaim /\ loads' = loads
      /\ UNCHANGED <<outcome, accepted, refused>>
      /\ pending' = [pending EXCEPT ![c] = NewSubmission]
      /\ calls' = [calls EXCEPT ![c] = @ + 1]
  BY DEF submit_claim
<1>2. calls[d] \in Nat /\ loads \in Nat
  BY DEF IInv, TypeOK
<1>3. CASE d = c
  <2>1. pending'[d] = NewSubmission /\ calls'[d] + loads' = calls[d] + loads + 1
    BY <1>1, <1>2, <1>3 DEF IInv, TypeOK
  <2> QED
    BY <1>1, <2>1, NewSpare, AllowedGrows DEF BudgetInv
<1>4. CASE d # c
  <2>1. pending'[d] = pending[d] /\ calls'[d] + loads' = calls[d] + loads
    BY <1>1, <1>4 DEF IInv, TypeOK
  <2>2. Spare(d)' = Spare(d)
    BY <1>1, <2>1 DEF Spare, BeingAccepted
  <2> QED
    BY <1>1, <2>1, <2>2, AllowedGrows DEF BudgetInv
<1> QED
  BY <1>3, <1>4

\* A load allows every claim max_retries more, and resets those it reads.
LEMMA LoadBudget ==
  ASSUME IInv, BudgetInv, load_pending_claims_from_db PROVE BudgetInv'
<1> SUFFICES ASSUME NEW d \in Claim
             PROVE  Spare(d)' \in Nat /\ accepted'[d] + refused'[d] + Spare(d)' <= Allowed(d)'
  BY DEF BudgetInv
<1>1. /\ current = NoClaim /\ current' = NoClaim /\ loads' = loads + 1
      /\ UNCHANGED <<outcome, accepted, refused, calls>>
      /\ pending'[d] = IF rows[d] = "pending" THEN NewSubmission ELSE pending[d]
  BY DEF load_pending_claims_from_db, history_vars
<1>2. calls'[d] + loads' = calls[d] + loads + 1
  BY <1>1 DEF IInv, TypeOK
<1>3. Allowed(d)' = Allowed(d) + MaxRetries
  BY <1>2, AllowedGrows
<1>4. Spare(d)' \in {MaxRetries, Spare(d)}
  <2>1. CASE rows[d] = "pending"
    BY <1>1, <2>1, NewSpare
  <2>2. CASE rows[d] # "pending"
    BY <1>1, <2>2 DEF Spare, BeingAccepted
  <2> QED
    BY <2>1, <2>2
<1> QED
  BY <1>1, <1>3, <1>4, AllowedGrows DEF BudgetInv

\* Every other step spends a retry on an attempt, or spends it on nothing.
Spends(d) ==
  /\ Spare(d)' \in Nat
  /\ accepted'[d] + refused'[d] + Spare(d)' <= accepted[d] + refused[d] + Spare(d)

LEMMA SpendsWithinBudget ==
  ASSUME IInv, BudgetInv, TypeOK', UNCHANGED <<calls, loads>>, \A d \in Claim : Spends(d)
  PROVE  BudgetInv'
<1> SUFFICES ASSUME NEW d \in Claim
             PROVE  Spare(d)' \in Nat /\ accepted'[d] + refused'[d] + Spare(d)' <= Allowed(d)'
  BY DEF BudgetInv
<1>1. Allowed(d)' = Allowed(d)
  BY DEF Allowed
<1>2. /\ accepted'[d] + refused'[d] + Spare(d)' <= accepted[d] + refused[d] + Spare(d)
      /\ Spare(d)' \in Nat /\ accepted'[d] \in Nat /\ refused'[d] \in Nat
  BY DEF Spends, TypeOK
<1>3. /\ accepted[d] + refused[d] + Spare(d) <= Allowed(d) /\ Allowed(d) \in Nat
      /\ Spare(d) \in Nat /\ accepted[d] \in Nat /\ refused[d] \in Nat
  BY AllowedGrows DEF BudgetInv
<1> QED
  BY <1>1, <1>2, <1>3

\* Nothing is spent on a claim that a step leaves alone.
LEMMA NotSpent ==
  ASSUME IInv, BudgetInv, NEW d \in Claim, BeingAccepted(d)' <=> BeingAccepted(d),
         /\ pending'[d].held = pending[d].held
         /\ pending'[d].retry_count = pending[d].retry_count,
         accepted'[d] = accepted[d] /\ refused'[d] = refused[d]
  PROVE  Spends(d)
<1>1. Spare(d)' = Spare(d)
  BY DEF Spare
<1>2. Spare(d) \in Nat /\ accepted[d] \in Nat /\ refused[d] \in Nat
  BY AllowedGrows DEF BudgetInv
<1> QED
  BY <1>1, <1>2 DEF Spends

\* Nor on one that is dropped.
LEMMA DroppedSpends ==
  ASSUME IInv, BudgetInv, NEW d \in Claim, ~pending'[d].held,
         accepted'[d] = accepted[d] /\ refused'[d] = refused[d]
  PROVE  Spends(d)
<1>1. Spare(d)' = 0
  BY DEF Spare
<1>2. Spare(d) \in Nat /\ accepted[d] \in Nat /\ refused[d] \in Nat
  BY AllowedGrows DEF BudgetInv
<1> QED
  BY <1>1, <1>2 DEF Spends

\* An attempt is made while there is a retry left, and spends it.
LEMMA AttemptBudget ==
  ASSUME IInv, BudgetInv, TypeOK', NEW c \in Claim, Attempt(c) PROVE BudgetInv'
<1>1. /\ current = NoClaim /\ current' = c /\ pending[c].held /\ Submit(c)
      /\ UNCHANGED <<calls, loads>>
  BY DEF Attempt, Due, bound_vars
<1>2. ASSUME NEW d \in Claim, d # c PROVE Spends(d)
  <2>1. pending'[d] = pending[d] /\ accepted'[d] = accepted[d] /\ refused'[d] = refused[d]
    BY <1>1, <1>2 DEF Submit, IInv, TypeOK
  <2>2. ~BeingAccepted(d)' /\ ~BeingAccepted(d)
    BY <1>1, <1>2, ClaimAssumption DEF BeingAccepted
  <2> QED
    BY <2>1, <2>2, NotSpent
<1>3. Spends(c)
  <2>1. ~BeingAccepted(c) /\ (BeingAccepted(c)' <=> outcome' = "submitted")
    BY <1>1, ClaimAssumption DEF BeingAccepted
  <2>2. /\ pending[c] \in Submission /\ pending[c].retry_count \in Nat /\ MaxRetries \in Nat
        /\ accepted[c] \in Nat /\ refused[c] \in Nat
    BY ClaimAssumption DEF IInv, TypeOK, Submission
  <2>3. Spare(c) = MaxRetries - pending[c].retry_count
    BY <1>1, <2>1, <2>2 DEF Spare
  <2>4. CASE outcome' \in {"expired", "failed"} /\ UNCHANGED <<pending, accepted, refused>>
    BY <2>1, <2>4, NotSpent
  <2>5. CASE /\ ~Exhausted(pending[c]) /\ outcome' = "submitted"
             /\ accepted' = [accepted EXCEPT ![c] = @ + 1] /\ UNCHANGED <<pending, refused>>
    <3>1. pending[c].retry_count < MaxRetries
      BY <2>2, <2>5 DEF Exhausted
    <3>2. Spare(c)' = MaxRetries - pending[c].retry_count - 1
      BY <1>1, <2>1, <2>5 DEF Spare
    <3>3. accepted'[c] = accepted[c] + 1 /\ refused'[c] = refused[c]
      BY <2>5 DEF IInv, TypeOK
    <3> QED
      BY <2>2, <2>3, <3>1, <3>2, <3>3 DEF Spends
  <2>6. CASE /\ ~Exhausted(pending[c]) /\ outcome' = "pending"
             /\ pending' = [pending EXCEPT ![c] = Refused(@)]
             /\ refused' = [refused EXCEPT ![c] = @ + 1] /\ UNCHANGED accepted
    <3>1. pending[c].retry_count < MaxRetries
      BY <2>2, <2>6 DEF Exhausted
    <3>2. pending'[c].held /\ pending'[c].retry_count = pending[c].retry_count + 1
      BY <1>1, <2>2, <2>6, RefusedSubmission DEF IInv, TypeOK
    <3>3. Spare(c)' = MaxRetries - (pending[c].retry_count + 1)
      BY <2>1, <2>2, <2>6, <3>2 DEF Spare
    <3>4. accepted'[c] = accepted[c] /\ refused'[c] = refused[c] + 1
      BY <2>6 DEF IInv, TypeOK
    <3> QED
      BY <2>2, <2>3, <3>1, <3>3, <3>4 DEF Spends
  <2> QED
    BY <1>1, <2>4, <2>5, <2>6 DEF Submit
<1> QED
  BY <1>1, <1>2, <1>3, SpendsWithinBudget

\* Whatever becomes of the status: the claim is kept as it was, dropped, or its
\* acceptance counted as a retry.
LEMMA StatusBudget ==
  ASSUME IInv, BudgetInv, TypeOK', NEW c \in Claim,
         RecordStatus(c) \/ StatusLogged(c) \/ StatusRaises(c)
  PROVE  BudgetInv'
<1>1. /\ current = c /\ UNCHANGED <<calls, loads, accepted, refused>>
      /\ \A d \in Claim \ {c} : pending'[d] = pending[d] /\ current' # d
  BY ClaimAssumption
  DEF RecordStatus, StatusLogged, StatusRaises, Dropped, history_vars, bound_vars, IInv, TypeOK
<1>2. ASSUME NEW d \in Claim, d # c PROVE Spends(d)
  <2>1. ~BeingAccepted(d)' /\ ~BeingAccepted(d)
    BY <1>1, <1>2 DEF BeingAccepted
  <2> QED
    BY <1>1, <1>2, <2>1, NotSpent
<1>3. Spends(c)
  <2>1. CASE ~pending'[c].held
    BY <1>1, <2>1, DroppedSpends
  <2>2. CASE pending'[c] = pending[c] /\ outcome # "submitted"
    <3>1. ~BeingAccepted(c) /\ ~BeingAccepted(c)'
      BY <1>1, <2>2 DEF RecordStatus, StatusLogged, StatusRaises, BeingAccepted
    <3> QED
      BY <1>1, <2>2, <3>1, NotSpent
  <2>3. CASE /\ outcome = "submitted" /\ outcome' = "pending"
             /\ pending' = [pending EXCEPT ![c] = Refused(@)]
    <3>1. pending[c] \in Submission /\ pending[c].retry_count \in Nat /\ pending[c].held
      BY <1>1 DEF IInv, TypeOK, HeldWhileWritten, Submission
    <3>2. pending'[c].held /\ pending'[c].retry_count = pending[c].retry_count + 1
      BY <2>3, <3>1, RefusedSubmission DEF IInv, TypeOK
    <3>3. BeingAccepted(c) /\ ~BeingAccepted(c)'
      BY <1>1, <2>3 DEF BeingAccepted
    <3>4. /\ Spare(c) = MaxRetries - pending[c].retry_count - 1
          /\ Spare(c)' = MaxRetries - (pending[c].retry_count + 1)
      BY <3>1, <3>2, <3>3, ClaimAssumption DEF Spare
    <3>5. Spare(c)' = Spare(c)
      BY <3>1, <3>4, ClaimAssumption
    <3>6. Spare(c) \in Nat /\ accepted[c] \in Nat /\ refused[c] \in Nat
      BY AllowedGrows DEF BudgetInv
    <3> QED
      BY <1>1, <3>5, <3>6 DEF Spends
  <2>4. CASE RecordStatus(c) \/ StatusLogged(c)
    <3>1. CASE outcome \in Final
      <4>1. ~pending'[c].held
        BY <2>4, <3>1 DEF RecordStatus, StatusLogged, Dropped, NotHeld, IInv, TypeOK
      <4> QED
        BY <2>1, <4>1
    <3>2. CASE outcome \notin Final
      BY <2>2, <2>4, <3>2 DEF RecordStatus, StatusLogged, Dropped, Final
    <3> QED
      BY <3>1, <3>2
  <2>5. CASE StatusRaises(c)
    BY <2>2, <2>3, <2>5 DEF StatusRaises
  <2> QED
    BY <2>4, <2>5
<1> QED
  BY <1>1, <1>2, <1>3, SpendsWithinBudget

\* A crash drops every claim; the other steps change no claim's retries.
LEMMA OtherBudget ==
  ASSUME IInv, BudgetInv, TypeOK',
         \/ \E c \in Claim : Wake(c) \/ Expire(c)
         \/ start_background_retry
         \/ stop_background_retry
         \/ Crash
         \/ UNCHANGED vars
  PROVE  BudgetInv'
<1>1. UNCHANGED <<calls, loads, accepted, refused>>
  BY DEF Wake, Expire, start_background_retry, stop_background_retry, Crash, vars,
         history_vars, bound_vars
<1>2. ASSUME NEW d \in Claim PROVE Spends(d)
  <2>1. CASE Crash
    <3>1. ~pending'[d].held
      BY <2>1 DEF Crash, NotHeld
    <3> QED
      BY <1>1, <3>1, DroppedSpends
  <2>2. CASE ~Crash
    <3>1. /\ UNCHANGED <<current, outcome>>
          /\ pending'[d].held = pending[d].held
          /\ pending'[d].retry_count = pending[d].retry_count
      BY <2>2 DEF Wake, Expire, start_background_retry, stop_background_retry, vars,
                  service_vars, IInv, TypeOK, Submission
    <3> QED
      BY <1>1, <3>1, NotSpent DEF BeingAccepted
  <2> QED
    BY <2>1, <2>2
<1> QED
  BY <1>1, <1>2, SpendsWithinBudget

\* However failures, lost statuses, restarts and repeated submissions meet, the
\* callback is called at most max_retries times for each submission and each load.
THEOREM AttemptsBoundedHolds == Spec => []AttemptsBounded
<1>1. Init => BudgetInv
  <2> SUFFICES ASSUME Init, NEW c \in Claim
               PROVE  Spare(c) \in Nat /\ accepted[c] + refused[c] + Spare(c) <= Allowed(c)
    BY DEF BudgetInv
  <2>1. Spare(c) = 0 /\ accepted[c] = 0 /\ refused[c] = 0 /\ IInv
    BY InitIInv DEF Init, Spare, NotHeld
  <2> QED
    BY <2>1, AllowedGrows
<1>2. IInv /\ BudgetInv /\ [Next]_vars => BudgetInv'
  BY NextTypeOK, SubmitBudget, LoadBudget, AttemptBudget, StatusBudget, OtherBudget
  DEF Next, IInv
<1>3. IInv /\ BudgetInv => AttemptsBounded
  <2> SUFFICES ASSUME IInv, BudgetInv, NEW c \in Claim
               PROVE  accepted[c] + refused[c] <= Allowed(c)
    BY DEF AttemptsBounded, Allowed
  <2>1. Spare(c) \in Nat /\ accepted[c] + refused[c] + Spare(c) <= Allowed(c)
    BY DEF BudgetInv
  <2> QED
    BY <2>1, AllowedGrows
<1> QED
  BY <1>1, <1>2, <1>3, Invariance, PTL DEF Spec
=============================================================================
