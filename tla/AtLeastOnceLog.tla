---------------------------- MODULE AtLeastOnceLog ----------------------------
(***************************************************************************)
(* What ledger ingestion promises its callers, without saying how: ledgers *)
(* are processed, possibly more than once, and a durable record of the     *)
(* processed ledgers grows in batches.  The record never names a ledger    *)
(* that was not processed, never forgets one, and takes in no more than    *)
(* one batch at a time.                                                    *)
(***************************************************************************)
CONSTANTS
  Ledger,  (* The ledgers there may ever be.                               *)
  Batches  (* The sets of ledgers one write may add to the record.         *)

VARIABLES
  processed,  (* Ledgers whose processing has completed at least once.     *)
  durable     (* Ledgers the durable record names.                         *)

vars == <<processed, durable>>

Init == processed = {} /\ durable = {}

Apply(l) ==
  /\ processed' = processed \cup {l}
  /\ UNCHANGED durable

Commit(S) ==
  /\ S \subseteq processed
  /\ durable' = durable \cup S
  /\ UNCHANGED processed

Next == (\E l \in Ledger : Apply(l)) \/ (\E S \in Batches : Commit(S))

Spec == Init /\ [][Next]_vars
=============================================================================
