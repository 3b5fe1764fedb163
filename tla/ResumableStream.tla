---------------------------- MODULE ResumableStream ----------------------------
(***************************************************************************)
(* What a resumable stream promises, without saying how it reads: records  *)
(* reach the database in chunks, a chunk that cannot be written is lost as *)
(* a whole, and the position saved for the next start only ever covers     *)
(* records that are already in the database or known to be lost.           *)
(***************************************************************************)
EXTENDS Integers

CONSTANTS
  First,   (* The position the stream starts behind.                       *)
  Last,    (* The position of the last record there may ever be.           *)
  Chunks   (* The sets of records one commit may write.                    *)

VARIABLES
  stored,  (* Records in the database.                                     *)
  lost,    (* Records dropped.                                             *)
  saved    (* The position a restart resumes behind.                       *)

vars == <<stored, lost, saved>>

Init == stored = {} /\ lost = {} /\ saved = 0

Store(S) == stored' = stored \cup S /\ UNCHANGED <<lost, saved>>

Lose(S) == S \cap stored = {} /\ lost' = lost \cup S /\ UNCHANGED <<stored, saved>>

Save(c) ==
  /\ (First + 1)..c \subseteq stored \cup lost
  /\ saved' = c
  /\ UNCHANGED <<stored, lost>>

Next ==
  \/ \E S \in Chunks : Store(S) \/ Lose(S)
  \/ \E c \in 0..Last : Save(c)

Spec == Init /\ [][Next]_vars
=============================================================================
