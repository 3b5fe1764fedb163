----------------------------- MODULE ClaimService -----------------------------
(***************************************************************************)
(* Claims submitted in the background until they are accepted              *)
(* (astroml/claims/claim_service.py, over the claim rows of the database). *)
(*                                                                         *)
(* The retry loop hands every claim that is due to submission_callback and *)
(* then writes the claim's status to its row.  The loop only suspends in   *)
(* its sleep between two passes, so no other coroutine runs between the    *)
(* callback and the write; the process can die there, and the write can    *)
(* fail: inside the transaction, which is logged and forgotten, or before  *)
(* it (get_engine), which raises into the loop.                            *)
(*                                                                         *)
(* Backoff is a flag, due, that time sets again.  The rows are created by  *)
(* other code; a claim may have none.                                      *)
(***************************************************************************)
EXTENDS Integers, FiniteSets

CONSTANTS
  Claim,          (* Claim references.                                     *)
  NoClaim,        (* The loop is between two claims, or asleep.            *)
  MaxRetries,     (* RetryConfig.max_retries: 3 by default.                *)
  MaxSubmits,     (* Bound: submit_claim calls.                            *)
  MaxLoads,       (* Bound: load_pending_claims_from_db calls.             *)
  MaxStarts,      (* Bound: start_background_retry calls.                  *)
  MaxFaults       (* Bound: crashes and failing status updates.            *)

ASSUME ClaimAssumption ==
  /\ NoClaim \notin Claim
  /\ MaxRetries \in Nat
  /\ MaxSubmits \in Nat /\ MaxLoads \in Nat /\ MaxStarts \in Nat /\ MaxFaults \in Nat

VARIABLES
  pending,        (* _pending_claims: "held" says whether there is one.    *)
  running,        (* _running, and the loop's task exists.                 *)
  current,        (* The claim whose status is being written, or NoClaim,  *)
  outcome,        (* and that status.                                      *)
  rows,           (* claim_status of the claim's row, or "none".           *)
  expired,        (* expires_at has passed.                                *)
  calls,          (* History: submissions asked for, a pending row at the  *)
                  (* start counting as one.                                *)
  accepted,       (* History: successful submission_callback calls.        *)
  refused,        (* History: failed ones.                                 *)
  lost,           (* History: acceptances whose status was never written.  *)
  submits, loads, starts, faults   (* Counters of the bounds.              *)

service_vars == <<pending, running, current, outcome>>
history_vars == <<calls, accepted, refused, lost>>
bound_vars == <<submits, loads, starts, faults>>
vars == <<service_vars, rows, expired, history_vars, bound_vars>>

Submission == [held : BOOLEAN, retry_count : Nat, due : BOOLEAN]

NotHeld == [held |-> FALSE, retry_count |-> 0, due |-> FALSE]

NewSubmission == [held |-> TRUE, retry_count |-> 0, due |-> TRUE]

Final == {"submitted", "failed", "expired"}

RowStatus == Final \cup {"none", "pending"}

Init ==
  /\ pending = [c \in Claim |-> NotHeld]
  /\ running = FALSE
  /\ current = NoClaim
  /\ outcome = "pending"
  /\ rows \in [Claim -> {"none", "pending"}]
  /\ expired = [c \in Claim |-> FALSE]
  /\ calls = [c \in Claim |-> IF rows[c] = "pending" THEN 1 ELSE 0]
  /\ accepted = [c \in Claim |-> 0]
  /\ refused = [c \in Claim |-> 0]
  /\ lost = [c \in Claim |-> 0]
  /\ submits = 0 /\ loads = 0 /\ starts = 0 /\ faults = 0

-----------------------------------------------------------------------------
(* What other coroutines call while the loop sleeps.                       *)

\* An entry that is already there is replaced, with its retry count.
submit_claim(c) ==
  /\ current = NoClaim
  /\ submits < MaxSubmits
  /\ pending' = [pending EXCEPT ![c] = NewSubmission]
  /\ calls' = [calls EXCEPT ![c] = @ + 1]
  /\ submits' = submits + 1
  /\ UNCHANGED <<running, current, outcome, rows, expired, accepted, refused, lost,
                 loads, starts, faults>>

\* The rows that are final are loaded as well.
load_pending_claims_from_dbBug ==
  /\ current = NoClaim
  /\ loads < MaxLoads
  /\ pending' = [c \in Claim |-> IF rows[c] # "none" THEN NewSubmission ELSE pending[c]]
  /\ loads' = loads + 1
  /\ UNCHANGED <<running, current, outcome, rows, expired, history_vars, submits,
                 starts, faults>>

\* Also while the service runs: retry counts start again.
load_pending_claims_from_db ==
  /\ current = NoClaim
  /\ loads < MaxLoads
  /\ pending' = [c \in Claim |-> IF rows[c] = "pending" THEN NewSubmission ELSE pending[c]]
  /\ loads' = loads + 1
  /\ UNCHANGED <<running, current, outcome, rows, expired, history_vars, submits,
                 starts, faults>>

start_background_retry ==
  /\ ~running
  /\ starts < MaxStarts
  /\ running' = TRUE
  /\ starts' = starts + 1
  /\ UNCHANGED <<pending, current, outcome, rows, expired, history_vars, submits,
                 loads, faults>>

\* The task is cancelled in its sleep.
stop_background_retry ==
  /\ current = NoClaim
  /\ running
  /\ running' = FALSE
  /\ UNCHANGED <<pending, current, outcome, rows, expired, history_vars, bound_vars>>

-----------------------------------------------------------------------------
(* _retry_loop and _submit_claim_async.                                    *)

Due(c) == pending[c].held /\ pending[c].due

\* A failed submission is not counted.
RefusedBug(s) == [held |-> s.held, retry_count |-> s.retry_count, due |-> FALSE]

Refused(s) == [held |-> s.held, retry_count |-> s.retry_count + 1, due |-> FALSE]

\* A claim gives up one retry too early.
ExhaustedBug(s) == s.retry_count + 1 >= MaxRetries

Exhausted(s) == s.retry_count >= MaxRetries

\* Expiry is checked first, then the retries; then the callback decides.
Submit(c) ==
  \/ /\ expired[c]
     /\ outcome' = "expired"
     /\ UNCHANGED <<pending, accepted, refused>>
  \/ /\ ~expired[c]
     /\ Exhausted(pending[c])
     /\ outcome' = "failed"
     /\ UNCHANGED <<pending, accepted, refused>>
  \/ /\ ~expired[c]
     /\ ~Exhausted(pending[c])
     /\ \/ /\ outcome' = "submitted"
           /\ accepted' = [accepted EXCEPT ![c] = @ + 1]
           /\ UNCHANGED <<pending, refused>>
        \/ /\ outcome' = "pending"
           /\ pending' = [pending EXCEPT ![c] = Refused(@)]
           /\ refused' = [refused EXCEPT ![c] = @ + 1]
           /\ UNCHANGED accepted

Attempt(c) ==
  /\ running
  /\ current = NoClaim
  /\ Due(c)
  /\ Submit(c)
  /\ current' = c
  /\ UNCHANGED <<running, rows, expired, calls, lost, bound_vars>>

\* Only a submitted claim is removed.
DroppedBug(c) == IF outcome = "submitted" THEN [pending EXCEPT ![c] = NotHeld] ELSE pending

Dropped(c) == IF outcome \in Final THEN [pending EXCEPT ![c] = NotHeld] ELSE pending

Lost(c) == IF outcome = "submitted" THEN [lost EXCEPT ![c] = @ + 1] ELSE lost

\* _update_claim_status, then the loop removes a claim that is done with.  A
\* claim without a row has nothing to update.
RecordStatus(c) ==
  /\ current = c
  /\ rows' = [rows EXCEPT ![c] = IF @ = "none" THEN @ ELSE outcome]
  /\ pending' = Dropped(c)
  /\ current' = NoClaim
  /\ UNCHANGED <<running, outcome, expired, history_vars, bound_vars>>

\* The transaction fails and is rolled back; the loop goes on as if it had not.
StatusLogged(c) ==
  /\ current = c
  /\ faults < MaxFaults
  /\ faults' = faults + 1
  /\ pending' = Dropped(c)
  /\ lost' = Lost(c)
  /\ current' = NoClaim
  /\ UNCHANGED <<running, outcome, rows, expired, calls, accepted, refused, submits,
                 loads, starts>>

\* The update raises.  After an acceptance that counts as a failed submission,
\* whose status is written next; otherwise the loop logs it and keeps the claim.
StatusRaises(c) ==
  /\ current = c
  /\ faults < MaxFaults
  /\ faults' = faults + 1
  /\ lost' = Lost(c)
  /\ IF outcome = "submitted"
     THEN /\ pending' = [pending EXCEPT ![c] = Refused(@)]
          /\ outcome' = "pending"
          /\ UNCHANGED current
     ELSE /\ current' = NoClaim
          /\ UNCHANGED <<pending, outcome>>
  /\ UNCHANGED <<running, rows, expired, calls, accepted, refused, submits,
                 loads, starts>>

-----------------------------------------------------------------------------
(* Time and failures.                                                      *)

\* next_retry_at passes.
Wake(c) ==
  /\ current = NoClaim
  /\ pending[c].held /\ ~pending[c].due
  /\ pending' = [pending EXCEPT ![c].due = TRUE]
  /\ UNCHANGED <<running, current, outcome, rows, expired, history_vars, bound_vars>>

Expire(c) ==
  /\ ~expired[c]
  /\ expired' = [expired EXCEPT ![c] = TRUE]
  /\ UNCHANGED <<service_vars, rows, history_vars, bound_vars>>

\* The process dies, perhaps between an acceptance and its status.
Crash ==
  /\ faults < MaxFaults
  /\ faults' = faults + 1
  /\ pending' = [c \in Claim |-> NotHeld]
  /\ running' = FALSE
  /\ lost' = IF current = NoClaim THEN lost ELSE Lost(current)
  /\ current' = NoClaim
  /\ UNCHANGED <<outcome, rows, expired, calls, accepted, refused, submits,
                 loads, starts>>

Next ==
  \/ \E c \in Claim :
       \/ submit_claim(c)
       \/ Attempt(c)
       \/ RecordStatus(c)
       \/ StatusLogged(c)
       \/ StatusRaises(c)
       \/ Wake(c)
       \/ Expire(c)
  \/ load_pending_claims_from_db
  \/ start_background_retry
  \/ stop_background_retry
  \/ Crash

\* Every pass of a running loop visits every claim that is due and writes its
\* status, and backoffs end.  Nothing makes anybody start the loop.
Fairness ==
  \A c \in Claim : /\ WF_vars(Attempt(c))
                   /\ WF_vars(RecordStatus(c))
                   /\ WF_vars(Wake(c))

Spec == Init /\ [][Next]_vars /\ Fairness

-----------------------------------------------------------------------------
(* Properties.                                                             *)

TypeOK ==
  /\ pending \in [Claim -> Submission]
  /\ running \in BOOLEAN
  /\ current \in Claim \cup {NoClaim}
  /\ outcome \in Final \cup {"pending"}
  /\ rows \in [Claim -> RowStatus]
  /\ expired \in [Claim -> BOOLEAN]
  /\ calls \in [Claim -> Nat]
  /\ accepted \in [Claim -> Nat]
  /\ refused \in [Claim -> Nat]
  /\ lost \in [Claim -> Nat]
  /\ submits \in Nat /\ loads \in Nat /\ starts \in Nat /\ faults \in Nat

\* A claim is accepted no oftener than it was asked for, except once more for
\* every acceptance whose status never reached its row: reloads, restarts,
\* retries and repeated submissions alone never pay a claim twice.
DuplicatesAreExplained ==
  \A c \in Claim : accepted[c] <= calls[c] + lost[c]

\* A final status is earned: a row says submitted only if the claim was
\* accepted, expired only if it had expired, and failed only after max_retries
\* failed submissions, whatever was reloaded, replaced or lost in between.
FinalStatusIsEarned ==
  \A c \in Claim :
    /\ rows[c] = "submitted" => accepted[c] >= 1
    /\ rows[c] = "expired" => expired[c]
    /\ rows[c] = "failed" => refused[c] + lost[c] >= MaxRetries

\* The callback is called at most max_retries times for every submission asked for
\* and every load, however failures, failed updates, crashes and restarts meet: a
\* retry that is not counted does not submit.
AttemptsBounded ==
  \A c \in Claim : accepted[c] + refused[c] <= MaxRetries * (calls[c] + loads)

\* A claim the service holds is given up or submitted, unless the loop is
\* stopped: retries run out.
PendingIsResolved ==
  \A c \in Claim : pending[c].held ~> (~pending[c].held \/ ~running)
=============================================================================
