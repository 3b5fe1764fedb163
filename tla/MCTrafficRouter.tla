---------------------------- MODULE MCTrafficRouter ----------------------------
(***************************************************************************)
(* A small instance of TrafficRouter: the rules differ in the hash of a    *)
(* session, and threads are interchangeable.                               *)
(***************************************************************************)
EXTENDS TrafficRouter, TLC

MCHash == [p \in Rule \X Session |-> IF p[1] = CHOOSE r \in Rule : TRUE THEN 1 ELSE 0]

Threads == Permutations(Thread)
=============================================================================
