-------------------------- MODULE TrafficRouter_proofs --------------------------
(***************************************************************************)
(* That reading weights without the lock is harmless: a call never goes to *)
(* a target that had no traffic throughout it, and is never turned away    *)
(* while one had, for any number of rules, targets, threads and updates.   *)
(*                                                                         *)
(* The invariant follows a call through its rule's list: what it has seen  *)
(* and what it has yet to see cover the targets that had traffic all the   *)
(* time, and the targets that have traffic now are among those that had it *)
(* at some time.                                                           *)
(***************************************************************************)
EXTENDS TrafficRouter, FiniteSetTheorems, TLAPS

CallInv(k) ==
  calls[k].pc # "idle" =>
    /\ rules[calls[k].rule].status # "absent"
    /\ calls[k].unread \subseteq rules[calls[k].rule].targets
    /\ calls[k].pc = "filter" <=> calls[k].unread # {}
    /\ calls[k].strategy = "sticky" => calls[k].session # NoSession
    /\ calls[k].candidates \subseteq live[k]
    /\ Positive(calls[k].rule) \subseteq live[k]
    /\ steady[k] \subseteq Positive(calls[k].rule)
    /\ steady[k] \subseteq calls[k].candidates \cup calls[k].unread

\* The lock is held by an update that has something left to write.
UpdateInv == ~Unlocked => update.unwritten # {}

IInv == TypeOK /\ UpdateInv /\ \A k \in Thread : CallInv(k)

-----------------------------------------------------------------------------
(* Elements of a list by their position.                                   *)

\* A finite set of naturals has an element with n others below it, for every n
\* short of its size: the numbers of elements below are all different.
LEMMA Position ==
  ASSUME NEW S, IsFiniteSet(S), S \subseteq Nat, NEW n \in Nat, n < Cardinality(S)
  PROVE  \E t \in S : Cardinality({u \in S : u < t}) = n
<1> DEFINE Below(t) == {u \in S : u < t}
<1> DEFINE size == Cardinality(S)
<1> DEFINE Rest == (0 .. size - 1) \ {n}
<1> DEFINE f == [t \in S |-> Cardinality(Below(t))]
<1>0. size \in Nat /\ n < size
  BY FS_CardinalityType
<1>a. \A t \in S : Below(t) \subseteq S /\ t \notin Below(t)
  OBVIOUS
<1>b. ASSUME NEW t \in S, NEW u \in S, t < u
      PROVE  Below(t) \cup {t} \subseteq Below(u)
  <2>1. t \in Nat /\ u \in Nat
    OBVIOUS
  <2>2. \A v \in S : v \in Nat /\ (v < t => v < u)
    BY <1>b, <2>1
  <2> QED
    BY <1>b, <2>2
<1>c. \A t, u \in S : t # u => t < u \/ u < t
  OBVIOUS
<1>d. (\E t \in S : Cardinality(Below(t)) = n) =>
        \E t \in S : Cardinality({u \in S : u < t}) = n
  OBVIOUS
<1> HIDE DEF Below, size
<1>1. ASSUME NEW t \in S
      PROVE  /\ IsFiniteSet(Below(t)) /\ Cardinality(Below(t)) \in Nat
             /\ IsFiniteSet(Below(t) \cup {t})
             /\ Cardinality(Below(t) \cup {t}) = Cardinality(Below(t)) + 1
  <2>1. IsFiniteSet(Below(t)) /\ t \notin Below(t)
    BY <1>a, FS_Subset
  <2> QED
    BY <2>1, FS_AddElement, FS_CardinalityType
<1>2. ASSUME NEW t \in S PROVE Cardinality(Below(t)) \in 0 .. size - 1
  <2>1. Below(t) \cup {t} \in SUBSET S
    BY <1>a
  <2>2. Cardinality(Below(t) \cup {t}) <= size
    BY <2>1, FS_Subset DEF size
  <2> QED
    BY <1>0, <1>1, <2>2
<1>3. ASSUME NEW t \in S, NEW u \in S, t < u
      PROVE  Cardinality(Below(t)) < Cardinality(Below(u))
  <2>1. Below(t) \cup {t} \in SUBSET Below(u)
    BY <1>b, <1>3
  <2>2. Cardinality(Below(t) \cup {t}) <= Cardinality(Below(u))
    BY <1>1, <2>1, FS_Subset
  <2>3. /\ Cardinality(Below(t)) \in Nat /\ Cardinality(Below(u)) \in Nat
        /\ Cardinality(Below(t) \cup {t}) = Cardinality(Below(t)) + 1
    BY <1>1
  <2> QED
    BY <2>2, <2>3
<1>4. SUFFICES ASSUME \A t \in S : Cardinality(Below(t)) # n PROVE FALSE
  BY <1>d
<1>5. IsFiniteSet(Rest) /\ Cardinality(Rest) < Cardinality(S)
  <2> DEFINE all == 0 .. size - 1
  <2>1. IsFiniteSet(all) /\ Cardinality(all) = size
    BY <1>0, FS_Interval
  <2>2. n \in all
    BY <1>0
  <2> HIDE DEF all
  <2>3. IsFiniteSet(all \ {n}) /\ Cardinality(all \ {n}) = size - 1
    BY <2>1, <2>2, FS_RemoveElement
  <2> QED
    BY <1>0, <2>3 DEF all, size
<1>6. f \in [S -> Rest]
  BY <1>2, <1>4
<1>7. PICK x, y \in S : x # y /\ f[x] = f[y]
  <2> HIDE DEF f, Rest
  <2> QED
    BY <1>5, <1>6, FS_PigeonHole
<1>8. Cardinality(Below(x)) = Cardinality(Below(y))
  BY <1>7
<1>9. Cardinality(Below(x)) \in Nat /\ Cardinality(Below(y)) \in Nat
  BY <1>1
<1>10. ASSUME x < y PROVE FALSE
  BY <1>3, <1>8, <1>9, <1>10
<1>11. ASSUME y < x PROVE FALSE
  BY <1>3, <1>8, <1>9, <1>11
<1> QED
  BY <1>7, <1>10, <1>11, <1>c

\* A position within a list names one of its elements.
LEMMA NthElement ==
  ASSUME NEW S, IsFiniteSet(S), S \subseteq Nat, NEW n \in Nat, n < Cardinality(S)
  PROVE  Nth(S, n) \in S
BY Position DEF Nth

\* So does the first position of a list that has one.
LEMMA FirstElement ==
  ASSUME NEW S, IsFiniteSet(S), S \subseteq Nat, S # {}
  PROVE  First(S) \in S
<1>1. 0 \in Nat /\ 0 < Cardinality(S)
  BY FS_CardinalityType, FS_EmptySet
<1>2. PICK t \in S : Cardinality({u \in S : u < t}) = 0
  BY <1>1, Position
<1>3. IsFiniteSet({u \in S : u < t})
  BY FS_Subset
<1>4. {u \in S : u < t} = {}
  BY <1>2, <1>3, FS_EmptySet
<1>5. \A u \in S : t <= u
  BY <1>4
<1> QED
  BY <1>5 DEF First

\* Lists of targets are finite sets of naturals.
LEMMA TargetLists ==
  ASSUME NEW S \in SUBSET Targets
  PROVE  IsFiniteSet(S) /\ S \subseteq Nat
BY RouterAssumption, FS_Subset

-----------------------------------------------------------------------------
(* Types.                                                                  *)

\* What a list of unread targets, or an update's, begins with is a target.
LEMMA FirstTarget == ASSUME NEW S \in SUBSET Targets, S # {} PROVE First(S) \in S
BY TargetLists, FirstElement

\* Weights, and the 0 of a target that is not written, are numbers.
LEMMA WeightsAreNumbers == \A w \in Weights \cup {0} : w \in Nat
BY RouterAssumption

\* A result is one of the candidates it was chosen from by position.
LEMMA NthCandidate ==
  ASSUME NEW S \in SUBSET Targets, S # {}, NEW i \in Nat
  PROVE  /\ Cardinality(S) \in Nat \ {0}
         /\ i % Cardinality(S) \in Nat
         /\ Nth(S, i % Cardinality(S)) \in S
<1>1. IsFiniteSet(S) /\ S \subseteq Nat
  BY TargetLists
<1>2. Cardinality(S) \in Nat \ {0}
  BY <1>1, FS_CardinalityType, FS_EmptySet
<1>3. i % Cardinality(S) \in Nat /\ i % Cardinality(S) < Cardinality(S)
  BY <1>2
<1> QED
  BY <1>1, <1>2, <1>3, NthElement

\* A call between two calls is one.
LEMMA IdleCall ==
  ASSUME NEW r \in Rule, NEW t \in Targets \cup {NoTarget},
         NEW by \in {"nothing", "session", "strategy", "default"}
  PROVE  Idle(r, t, by) \in Call /\ Idle(r, t, by).pc = "idle"
         /\ Idle(r, t, by).result = t /\ Idle(r, t, by).by = by
BY DEF Idle, Call

\* A dispatched call is one that has its rule's list to read.
LEMMA DispatchedCall ==
  ASSUME TypeOK, NEW r \in Rule, NEW session \in Session \cup {NoSession},
         NEW strategy \in Strategy
  PROVE  LET c == Dispatched(r, session, strategy) IN
         /\ c \in Call /\ c.pc = "filter" /\ c.rule = r
         /\ c.unread = rules[r].targets /\ c.candidates = {}
<1>1. rules[r].targets \in SUBSET Targets
  BY DEF TypeOK, RoutingRule
<1> QED
  BY <1>1 DEF Dispatched, Call

\* Every step keeps the types.
LEMMA NextTypeOK ==
  ASSUME TypeOK, UpdateInv, \A k \in Thread : CallInv(k), [Next]_vars
  PROVE  TypeOK'
<1> USE DEF TypeOK
<1>1. ASSUME NEW r \in Rule, NEW targets \in SUBSET Targets,
             NEW weight \in [Targets -> Weights], NEW sticky \in BOOLEAN,
             NEW default \in Targets \cup {NoTarget},
             add_rule(r, targets, weight, sticky, default)
      PROVE  TypeOK'
  <2>1. weight \in [Targets -> Nat]
    BY RouterAssumption
  <2>2. rules' \in [Rule -> RoutingRule]
    BY <1>1, <2>1 DEF add_rule, RoutingRule
  <2> QED
    BY <1>1, <2>2 DEF add_rule, history_vars, bound_vars
<1>2. ASSUME NEW r \in Rule, remove_rule(r) PROVE TypeOK'
  <2>1. rules' \in [Rule -> RoutingRule]
    BY <1>2 DEF remove_rule, RoutingRule
  <2> QED
    BY <1>2, <2>1 DEF remove_rule, history_vars, bound_vars
<1>3. ASSUME NEW r \in Rule, NEW weights \in [Targets -> Weights],
             NEW names \in SUBSET Targets, update_weights(r, weights, names)
      PROVE  TypeOK'
  <2>1. rules[r].targets \cap names \in SUBSET Targets
    BY <1>3
  <2>2. update' \in Update
    BY <1>3, <2>1 DEF update_weights, Update
  <2> QED
    BY <1>3, <2>2 DEF update_weights, history_vars
<1>4. CASE WriteWeight
  <2> DEFINE r == update.rule
  <2> DEFINE t == First(update.unwritten)
  <2>1. r \in Rule /\ update.unwritten \in SUBSET Targets /\ t \in Targets
    BY <1>4, FirstTarget DEF WriteWeight, UpdateInv, Unlocked, Update
  <2>a. update.weights \in [Targets -> Weights \cup {0}] /\ update \in Update
    BY DEF Update
  <2> HIDE DEF t
  <2>2. update.weights[t] \in Weights \cup {0} /\ update.weights[t] \in Nat
    <3>1. update.weights[t] \in Weights \cup {0}
      BY <2>1, <2>a
    <3> QED
      BY <3>1, WeightsAreNumbers
  <2>3. rules' \in [Rule -> RoutingRule]
    <3>1. rules' = [rules EXCEPT ![r].weight[t] = update.weights[t]]
      BY <1>4 DEF WriteWeight, t
    <3>2. [rules[r].weight EXCEPT ![t] = update.weights[t]] \in [Targets -> Nat]
      BY <2>1, <2>2 DEF RoutingRule
    <3>a. rules[r] \in RoutingRule
      BY <2>1
    <3>3. [rules[r] EXCEPT !.weight = [rules[r].weight EXCEPT ![t] = update.weights[t]]]
          \in RoutingRule
      BY <3>a, <3>2 DEF RoutingRule
    <3> QED
      BY <2>1, <3>1, <3>3
  <2>4. update' \in Update
    <3>1. [update.weights EXCEPT ![t] = 0] \in [Targets -> Weights \cup {0}]
      BY <2>a
    <3>2. update' = [update EXCEPT !.unwritten = update.unwritten \ {t}, !.weights[t] = 0,
                       !.rule = IF update.unwritten \ {t} = {} THEN NoUpdate ELSE @]
      BY <1>4 DEF WriteWeight, t
    <3> QED
      BY <2>1, <2>a, <3>1, <3>2 DEF Update
  <2>5. live' \in [Thread -> SUBSET Targets]
    BY <1>4, <2>1 DEF WriteWeight, t
  <2>6. steady' \in [Thread -> SUBSET Targets]
    BY <1>4 DEF WriteWeight
  <2> QED
    BY <1>4, <2>3, <2>4, <2>5, <2>6 DEF WriteWeight, bound_vars
<1>5. CASE clear_sessions
  BY <1>5 DEF clear_sessions, history_vars, bound_vars
<1>6. ASSUME NEW s \in Session, remove_session(s) PROVE TypeOK'
  BY <1>6 DEF remove_session, history_vars, bound_vars
<1>7. ASSUME NEW k \in Thread, NEW r \in Rule, NEW session \in Session \cup {NoSession},
             NEW strategy \in Strategy, route(k, r, session, strategy)
      PROVE  TypeOK'
  <2>1. /\ calls' \in [Thread -> Call]
        /\ live' \in [Thread -> SUBSET Targets] /\ steady' \in [Thread -> SUBSET Targets]
    <3>1. CASE Answered(k, r, NoTarget, "nothing")
      BY <3>1, IdleCall DEF Answered
    <3>2. ASSUME session # NoSession, Answered(k, r, sessions[session], "session")
          PROVE  <2>1
      BY <3>2, IdleCall DEF Answered
    <3>3. ASSUME calls' = [calls EXCEPT ![k] = Dispatched(r, session, strategy)],
                 live' = [live EXCEPT ![k] = Positive(r)],
                 steady' = [steady EXCEPT ![k] = Positive(r)]
          PROVE  <2>1
      <4>1. Positive(r) \in SUBSET Targets
        BY DEF Positive, RoutingRule
      <4> QED
        BY <3>3, <4>1, DispatchedCall
    <3> QED
      BY <1>7, <3>1, <3>2, <3>3 DEF route
  <2> QED
    BY <1>7, <2>1 DEF route
<1>8. ASSUME NEW k \in Thread, ReadWeight(k) PROVE TypeOK'
  <2> DEFINE c == calls[k]
  <2> DEFINE t == First(c.unread)
  <2> DEFINE left == c.unread \ {t}
  <2> DEFINE seen == IF rules[c.rule].weight[t] > 0 THEN c.candidates \cup {t} ELSE c.candidates
  <2> DEFINE pc == IF left = {} THEN "choose" ELSE c.pc
  <2>2. c \in Call /\ c.unread \in SUBSET Targets /\ c.candidates \in SUBSET Targets
    BY DEF Call
  <2>3. t \in Targets
    BY <1>8, <2>2, FirstTarget DEF CallInv, ReadWeight
  <2>4. calls' = [calls EXCEPT ![k] = [c EXCEPT !.unread = left, !.candidates = seen,
                                               !.pc = pc]]
    BY <1>8 DEF ReadWeight
  <2>5. left \in SUBSET Targets /\ seen \in SUBSET Targets
        /\ pc \in {"idle", "filter", "choose"}
    BY <2>2, <2>3 DEF Call
  <2> HIDE DEF c, t, left, seen, pc
  <2>6. [c EXCEPT !.unread = left, !.candidates = seen, !.pc = pc] \in Call
    BY <2>2, <2>5 DEF Call
  <2>1. calls' \in [Thread -> Call]
    BY <2>4, <2>6
  <2> QED
    BY <1>8, <2>1 DEF ReadWeight, history_vars, bound_vars
<1>9. ASSUME NEW k \in Thread, NEW t \in Targets \cup {NoTarget},
             NEW by \in {"nothing", "session", "strategy", "default"},
             Return(k, t, by)
      PROVE  /\ calls' \in [Thread -> Call]
             /\ live' \in [Thread -> SUBSET Targets]
             /\ steady' \in [Thread -> SUBSET Targets]
  <2>1. calls[k].rule \in Rule
    BY DEF Call
  <2> QED
    BY <1>9, <2>1, IdleCall DEF Return
<1>10. ASSUME NEW k \in Thread, FallBack(k) \/ RouteWeighted(k) \/ RouteCanary(k)
       PROVE  TypeOK'
  <2>1. calls[k] \in Call /\ rules[calls[k].rule].default_target \in Targets \cup {NoTarget}
    BY DEF Call, RoutingRule
  <2>2. \E t \in Targets \cup {NoTarget},
           by \in {"nothing", "session", "strategy", "default"} : Return(k, t, by)
    BY <1>10, <2>1 DEF FallBack, RouteWeighted, RouteCanary, Call
  <2>3. UNCHANGED <<rules, sessions, counters, update, turn, bound_vars>>
    BY <1>10 DEF FallBack, RouteWeighted, RouteCanary
  <2> QED
    BY <1>9, <2>2, <2>3 DEF bound_vars
<1>11. ASSUME NEW k \in Thread, RouteRoundRobin(k) PROVE TypeOK'
  <2> DEFINE c == calls[k]
  <2> DEFINE n == Cardinality(c.candidates)
  <2> DEFINE t == Nth(c.candidates, counters[c.rule] % n)
  <2>1. c \in Call /\ c.rule \in Rule /\ c.candidates \in SUBSET Targets
        /\ c.candidates # {} /\ counters[c.rule] \in Nat
    BY <1>11 DEF Call, RouteRoundRobin
  <2>2. t \in Targets /\ n \in Nat \ {0}
    BY <2>1, NthCandidate
  <2>3. Advanced(counters[c.rule], n) \in Nat
    BY <2>1, <2>2 DEF Advanced
  <2>4. /\ Return(k, t, "strategy")
        /\ counters' = [counters EXCEPT ![c.rule] = Advanced(@, n)]
        /\ turn' = [turn EXCEPT ![c.rule] = [candidates |-> c.candidates, target |-> t]]
        /\ UNCHANGED <<rules, sessions, update, bound_vars>>
    BY <1>11 DEF RouteRoundRobin
  <2> HIDE DEF c, n, t
  <2>5. counters' \in [Rule -> Nat]
    BY <2>1, <2>3, <2>4
  <2>6. turn' \in [Rule -> Turn]
    BY <2>1, <2>2, <2>4 DEF Turn
  <2> QED
    BY <1>9, <2>2, <2>4, <2>5, <2>6 DEF bound_vars
<1>12. ASSUME NEW k \in Thread, RouteSticky(k) PROVE TypeOK'
  <2> DEFINE c == calls[k]
  <2> DEFINE t == Nth(c.candidates, Hash[<<c.rule, c.session>>] % Cardinality(c.candidates))
  <2>1. /\ Return(k, t, "strategy")
        /\ sessions' = [sessions EXCEPT ![c.session] = t]
        /\ UNCHANGED <<rules, counters, update, turn, bound_vars>>
        /\ c.candidates # {} /\ c.pc = "choose" /\ c.strategy = "sticky"
    BY <1>12 DEF RouteSticky
  <2>2. c \in Call /\ c.rule \in Rule /\ c.candidates \in SUBSET Targets
    BY DEF Call
  <2>3. c.session \in Session
    BY <2>1, <2>2 DEF CallInv, Call
  <2>4. Hash[<<c.rule, c.session>>] \in Nat
    BY <2>2, <2>3, RouterAssumption
  <2>5. t \in Targets
    BY <2>1, <2>2, <2>4, NthCandidate
  <2> HIDE DEF c, t
  <2> QED
    BY <1>9, <2>1, <2>3, <2>5 DEF bound_vars
<1>13. CASE UNCHANGED vars
  BY <1>13 DEF vars, history_vars, bound_vars
<1> QED
  BY <1>1, <1>2, <1>3, <1>4, <1>5, <1>6, <1>7, <1>8, <1>10, <1>11, <1>12, <1>13 DEF Next

-----------------------------------------------------------------------------
(* Calls and the update.                                                   *)

\* The invariant of a call after a step, by the name of its rule.
LEMMA NextCall ==
  ASSUME NEW k \in Thread, NEW q \in Rule, calls'[k].rule = q
  PROVE  CallInv(k)' <=>
           (calls'[k].pc # "idle" =>
              /\ rules'[q].status # "absent" /\ calls'[k].unread \subseteq rules'[q].targets
              /\ calls'[k].pc = "filter" <=> calls'[k].unread # {}
              /\ calls'[k].strategy = "sticky" => calls'[k].session # NoSession
              /\ calls'[k].candidates \subseteq live'[k] /\ Positive(q)' \subseteq live'[k]
              /\ steady'[k] \subseteq Positive(q)'
              /\ steady'[k] \subseteq calls'[k].candidates \cup calls'[k].unread)
<1>1. Positive(calls[k].rule)' = Positive(q)'
  BY DEF Positive
<1> QED
  BY <1>1 DEF CallInv

\* A call that a step does not touch, and whose rule keeps its targets and their
\* weights, keeps its invariant.
LEMMA OtherCall ==
  ASSUME NEW k \in Thread, CallInv(k),
         calls'[k] = calls[k], live'[k] = live[k], steady'[k] = steady[k],
         calls[k].pc # "idle" =>
           /\ rules'[calls[k].rule].targets = rules[calls[k].rule].targets
           /\ rules'[calls[k].rule].weight = rules[calls[k].rule].weight
           /\ rules'[calls[k].rule].status # "absent"
  PROVE  CallInv(k)'
BY DEF CallInv, Positive

\* Rules come and go, sessions are dropped, an update begins.
LEMMA RuleIInv ==
  ASSUME IInv, UNCHANGED <<calls, live, steady>>,
         \/ \E r \in Rule, targets \in SUBSET Targets, weight \in [Targets -> Weights],
               sticky \in BOOLEAN, default \in Targets \cup {NoTarget} :
              add_rule(r, targets, weight, sticky, default)
         \/ \E r \in Rule : remove_rule(r)
         \/ \E r \in Rule, weights \in [Targets -> Weights], names \in SUBSET Targets :
              update_weights(r, weights, names)
         \/ clear_sessions
         \/ \E s \in Session : remove_session(s)
         \/ UNCHANGED vars
  PROVE  UpdateInv' /\ \A k \in Thread : CallInv(k)'
<1>1. UpdateInv'
  BY DEF IInv, UpdateInv, Unlocked, add_rule, remove_rule, update_weights,
         clear_sessions, remove_session, vars
<1>2. ASSUME NEW k \in Thread PROVE CallInv(k)'
  <2>1. CallInv(k) /\ rules \in [Rule -> RoutingRule] /\ calls[k] \in Call
    BY DEF IInv, TypeOK
  <2>2. calls[k].pc # "idle" =>
          calls[k].rule \in Rule /\ rules[calls[k].rule].status # "absent"
    BY <2>1 DEF CallInv, Call
  <2>3. calls[k].pc # "idle" =>
          /\ rules'[calls[k].rule].targets = rules[calls[k].rule].targets
          /\ rules'[calls[k].rule].weight = rules[calls[k].rule].weight
          /\ rules'[calls[k].rule].status # "absent"
    <3>1. CASE \E r \in Rule, targets \in SUBSET Targets, weight \in [Targets -> Weights],
                  sticky \in BOOLEAN, default \in Targets \cup {NoTarget} :
                 add_rule(r, targets, weight, sticky, default)
      BY <2>1, <2>2, <3>1 DEF add_rule
    <3>2. CASE \E r \in Rule : remove_rule(r)
      BY <2>1, <2>2, <3>2 DEF remove_rule, RoutingRule
    <3>3. CASE rules' = rules
      BY <2>2, <3>3
    <3> QED
      BY <3>1, <3>2, <3>3 DEF update_weights, clear_sessions, remove_session, vars
  <2> QED
    BY <2>1, <2>3, OtherCall
<1> QED
  BY <1>1, <1>2

\* An update writes a weight: the target joins what had traffic at some time, or
\* leaves what had it all the time.
LEMMA WriteIInv ==
  ASSUME IInv, WriteWeight
  PROVE  UpdateInv' /\ \A k \in Thread : CallInv(k)'
<1>0. PICK r \in Rule : r = update.rule
  BY DEF IInv, TypeOK, WriteWeight, Unlocked, Update
<1> DEFINE t == First(update.unwritten)
<1> DEFINE w == update.weights[t]
<1>1. r \in Rule /\ update.unwritten \in SUBSET Targets /\ t \in Targets
  BY <1>0, FirstTarget DEF IInv, TypeOK, WriteWeight, UpdateInv, Unlocked, Update
<1>2. /\ rules' = [rules EXCEPT ![r].weight[t] = w]
      /\ update' = [update EXCEPT !.unwritten = update.unwritten \ {t}, !.weights[t] = 0,
                      !.rule = IF update.unwritten \ {t} = {} THEN NoUpdate ELSE @]
      /\ UNCHANGED calls
  BY <1>0 DEF WriteWeight
<1>3. \A k \in Thread :
        /\ live'[k] = IF calls[k].pc # "idle" /\ calls[k].rule = r /\ w > 0
                      THEN live[k] \cup {t} ELSE live[k]
        /\ steady'[k] = IF calls[k].pc # "idle" /\ calls[k].rule = r /\ w = 0
                        THEN steady[k] \ {t} ELSE steady[k]
  BY <1>0 DEF WriteWeight
<1>4. /\ rules \in [Rule -> RoutingRule] /\ calls \in [Thread -> Call]
      /\ update \in Update
      /\ \A k \in Thread : CallInv(k)
  BY DEF IInv, TypeOK
<1>5. w \in Nat
  <2>1. w \in Weights \cup {0}
    BY <1>1, <1>4 DEF Update
  <2> HIDE DEF w
  <2> QED
    BY <2>1, WeightsAreNumbers
<1> HIDE DEF t, w
<1>6. UpdateInv'
  BY <1>2, <1>4 DEF UpdateInv, Unlocked, Update
<1>7. /\ rules'[r].targets = rules[r].targets /\ rules'[r].status = rules[r].status
      /\ rules'[r].weight = [rules[r].weight EXCEPT ![t] = w]
      /\ \A q \in Rule : q # r => rules'[q] = rules[q]
  BY <1>1, <1>2, <1>4 DEF RoutingRule
<1>8. /\ w > 0 => Positive(r)' \subseteq Positive(r) \cup {t} /\ Positive(r) \subseteq Positive(r)'
      /\ w = 0 => Positive(r)' = Positive(r) \ {t}
  <2>1. rules[r].targets \subseteq Targets /\ rules[r].weight \in [Targets -> Nat]
    BY <1>1, <1>4 DEF RoutingRule
  <2>2. \A u \in Targets : rules'[r].weight[u] = IF u = t THEN w ELSE rules[r].weight[u]
    BY <1>1, <1>7, <2>1
  <2>3. Positive(r)' = {u \in rules[r].targets : rules'[r].weight[u] > 0}
    BY <1>7 DEF Positive
  <2> QED
    BY <1>5, <2>1, <2>2, <2>3 DEF Positive
<1>9. ASSUME NEW k \in Thread PROVE CallInv(k)'
  <2>1. CASE calls[k].pc # "idle" /\ calls[k].rule = r
    <3> DEFINE c == calls[k]
    <3>a. CallInv(k) /\ calls'[k] = c /\ c.rule = r /\ c.pc # "idle"
      BY <1>2, <1>4, <2>1
    <3>b. /\ rules[r].status # "absent" /\ c.unread \subseteq rules[r].targets
          /\ c.pc = "filter" <=> c.unread # {}
          /\ c.strategy = "sticky" => c.session # NoSession
          /\ c.candidates \subseteq live[k] /\ Positive(r) \subseteq live[k]
          /\ steady[k] \subseteq Positive(r) /\ steady[k] \subseteq c.candidates \cup c.unread
      BY <3>a DEF CallInv
    <3>c. /\ w > 0 => live'[k] = live[k] \cup {t} /\ steady'[k] = steady[k]
          /\ w = 0 => live'[k] = live[k] /\ steady'[k] = steady[k] \ {t}
      <4>1. w \in Nat /\ ~(w > 0 /\ w = 0)
        BY <1>5
      <4>2. /\ live'[k] = IF w > 0 THEN live[k] \cup {t} ELSE live[k]
            /\ steady'[k] = IF w = 0 THEN steady[k] \ {t} ELSE steady[k]
        BY <1>3, <2>1
      <4> QED
        BY <4>1, <4>2
    <3>d. /\ Positive(r)' \subseteq live'[k] /\ steady'[k] \subseteq Positive(r)'
          /\ live[k] \subseteq live'[k] /\ steady'[k] \subseteq steady[k]
      BY <1>5, <1>8, <3>b, <3>c
    <3>e. CallInv(k)' <=>
            /\ rules'[r].status # "absent" /\ c.unread \subseteq rules'[r].targets
            /\ c.pc = "filter" <=> c.unread # {}
            /\ c.strategy = "sticky" => c.session # NoSession
            /\ c.candidates \subseteq live'[k] /\ Positive(r)' \subseteq live'[k]
            /\ steady'[k] \subseteq Positive(r)'
            /\ steady'[k] \subseteq c.candidates \cup c.unread
      BY <1>1, <3>a, NextCall
    <3> QED
      BY <1>7, <3>b, <3>d, <3>e
  <2>2. CASE calls[k].pc = "idle" \/ calls[k].rule # r
    <3>1. CallInv(k) /\ live'[k] = live[k] /\ steady'[k] = steady[k] /\ calls'[k] = calls[k]
      BY <1>2, <1>3, <1>4, <2>2
    <3>2. calls[k].pc # "idle" => /\ calls[k].rule \in Rule
                                  /\ rules'[calls[k].rule] = rules[calls[k].rule]
                                  /\ rules[calls[k].rule].status # "absent"
      BY <1>4, <1>7, <2>2 DEF CallInv, Call
    <3> QED
      BY <3>1, <3>2, OtherCall
  <2> QED
    BY <2>1, <2>2
<1> QED
  BY <1>6, <1>9

\* A thread that moves leaves the calls of the others alone.
LEMMA CallSteps ==
  ASSUME IInv, NEW k \in Thread, UNCHANGED <<rules, update>>,
         \A j \in Thread \ {k} :
           calls'[j] = calls[j] /\ live'[j] = live[j] /\ steady'[j] = steady[j],
         CallInv(k)'
  PROVE  UpdateInv' /\ \A j \in Thread : CallInv(j)'
<1>1. UpdateInv'
  BY DEF IInv, UpdateInv, Unlocked
<1>2. ASSUME NEW j \in Thread \ {k} PROVE CallInv(j)'
  <2>1. CallInv(j)
    BY DEF IInv
  <2>2. calls[j].pc # "idle" => rules[calls[j].rule].status # "absent"
    BY <2>1 DEF CallInv
  <2> QED
    BY <2>1, <2>2, OtherCall
<1> QED
  BY <1>1, <1>2

\* A call begins with nothing seen and its whole list to see.
LEMMA RouteIInv ==
  ASSUME IInv, NEW k \in Thread, NEW r \in Rule,
         NEW session \in Session \cup {NoSession}, NEW strategy \in Strategy,
         route(k, r, session, strategy)
  PROVE  UpdateInv' /\ \A j \in Thread : CallInv(j)'
<1>1. /\ TypeOK /\ calls \in [Thread -> Call]
      /\ live \in [Thread -> SUBSET Targets] /\ steady \in [Thread -> SUBSET Targets]
      /\ UNCHANGED <<rules, update>> /\ rules[r].status = "present"
  BY DEF IInv, TypeOK, route
<1>2. CASE Answered(k, r, NoTarget, "nothing")
  <2>1. calls'[k].pc = "idle"
    BY <1>1, <1>2, IdleCall DEF Answered
  <2>2. CallInv(k)'
    BY <2>1 DEF CallInv
  <2> QED
    BY <1>1, <1>2, <2>2, CallSteps DEF Answered
<1>3. CASE Answered(k, r, sessions[session], "session")
  <2>1. calls'[k].pc = "idle"
    BY <1>1, <1>3 DEF Answered, Idle
  <2>2. CallInv(k)'
    BY <2>1 DEF CallInv
  <2> QED
    BY <1>1, <1>3, <2>2, CallSteps DEF Answered
<1>4. ASSUME rules[r].targets # {},
             calls' = [calls EXCEPT ![k] = Dispatched(r, session, strategy)],
             live' = [live EXCEPT ![k] = Positive(r)],
             steady' = [steady EXCEPT ![k] = Positive(r)]
      PROVE  UpdateInv' /\ \A j \in Thread : CallInv(j)'
  <2>1. /\ calls'[k] = Dispatched(r, session, strategy)
        /\ live'[k] = Positive(r) /\ steady'[k] = Positive(r)
    BY <1>1, <1>4
  <2>2. /\ calls'[k].pc = "filter" /\ calls'[k].rule = r
        /\ calls'[k].unread = rules[r].targets /\ calls'[k].candidates = {}
        /\ calls'[k].strategy = "sticky" => calls'[k].session # NoSession
    BY <1>1, <2>1 DEF Dispatched
  <2>3. Positive(r)' = Positive(r) /\ Positive(r) \subseteq rules[r].targets
    BY <1>1 DEF Positive
  <2>4. CallInv(k)'
    BY <1>1, <1>4, <2>1, <2>2, <2>3 DEF CallInv
  <2> QED
    BY <1>1, <1>4, <2>4, CallSteps
<1> QED
  BY <1>2, <1>3, <1>4 DEF route

\* A target that is passed over has no traffic now.
LEMMA ReadIInv ==
  ASSUME IInv, NEW k \in Thread, ReadWeight(k)
  PROVE  UpdateInv' /\ \A j \in Thread : CallInv(j)'
<1> DEFINE c == calls[k]
<1> DEFINE t == First(c.unread)
<1>1. /\ calls \in [Thread -> Call] /\ c \in Call /\ CallInv(k) /\ c.pc = "filter"
      /\ UNCHANGED <<rules, update, live, steady>>
      /\ c.rule \in Rule /\ rules[c.rule] \in RoutingRule
  BY DEF IInv, TypeOK, ReadWeight, history_vars, Call
<1>2. /\ c.unread \in SUBSET Targets /\ t \in Targets
  BY <1>1, FirstTarget DEF CallInv, Call
<1>3. /\ calls'[k].rule = c.rule /\ calls'[k].unread = c.unread \ {t}
      /\ calls'[k].strategy = c.strategy /\ calls'[k].session = c.session
      /\ calls'[k].candidates = IF rules[c.rule].weight[t] > 0
                                THEN c.candidates \cup {t} ELSE c.candidates
      /\ calls'[k].pc = IF c.unread \ {t} = {} THEN "choose" ELSE "filter"
      /\ \A j \in Thread \ {k} : calls'[j] = calls[j]
  BY <1>1 DEF ReadWeight, Call
<1>0. PICK q \in Rule : q = c.rule
  BY <1>1
<1>4. Positive(q)' = Positive(q) /\ (rules[q].weight[t] > 0 <=> t \in Positive(q))
  <2>1. t \in rules[q].targets
    BY <1>0, <1>1, <1>2, FirstTarget DEF CallInv
  <2> HIDE DEF t
  <2> QED
    BY <1>1, <2>1 DEF Positive
<1> HIDE DEF t
<1>5. CallInv(k)'
  <2>1. /\ c.unread \subseteq rules[q].targets
        /\ rules[q].status # "absent"
        /\ c.strategy = "sticky" => c.session # NoSession
        /\ c.candidates \subseteq live[k] /\ Positive(q) \subseteq live[k]
        /\ steady[k] \subseteq Positive(q)
        /\ steady[k] \subseteq c.candidates \cup c.unread
    BY <1>0, <1>1 DEF CallInv
  <2>2. /\ calls'[k].candidates \subseteq live[k]
        /\ steady[k] \subseteq calls'[k].candidates \cup calls'[k].unread
    BY <1>0, <1>3, <1>4, <2>1
  <2> QED
    BY <1>0, <1>1, <1>3, <1>4, <2>1, <2>2, NextCall
<1> QED
  BY <1>1, <1>3, <1>5, CallSteps

\* A call that returns has nothing left to keep.
LEMMA ReturnIInv ==
  ASSUME IInv, NEW k \in Thread,
         \/ FallBack(k) \/ RouteWeighted(k) \/ RouteCanary(k)
         \/ RouteRoundRobin(k) \/ RouteSticky(k)
  PROVE  UpdateInv' /\ \A j \in Thread : CallInv(j)'
<1>1. /\ calls \in [Thread -> Call]
      /\ live \in [Thread -> SUBSET Targets] /\ steady \in [Thread -> SUBSET Targets]
  BY DEF IInv, TypeOK
<1>2. PICK t, by : Return(k, t, by)
  BY DEF FallBack, RouteWeighted, RouteCanary, RouteRoundRobin, RouteSticky
<1>3. UNCHANGED <<rules, update>>
  BY DEF FallBack, RouteWeighted, RouteCanary, RouteRoundRobin, RouteSticky
<1>4. calls'[k].pc = "idle"
  BY <1>1, <1>2 DEF Return, Idle
<1>5. CallInv(k)'
  BY <1>4 DEF CallInv
<1> QED
  BY <1>1, <1>2, <1>3, <1>5, CallSteps DEF Return

-----------------------------------------------------------------------------
(* The theorems.                                                           *)

\* At first no thread is in a call and nobody holds the lock.
LEMMA InitIInv == Init => IInv
<1> SUFFICES ASSUME Init PROVE IInv
  OBVIOUS
<1>1. \E r \in Rule : TRUE
  BY RouterAssumption
<1>2. (CHOOSE r \in Rule : TRUE) \in Rule
  BY <1>1
<1>3. Idle(CHOOSE r \in Rule : TRUE, NoTarget, "nothing") \in Call
      /\ Idle(CHOOSE r \in Rule : TRUE, NoTarget, "nothing").pc = "idle"
  BY <1>2, IdleCall
<1>4. TypeOK
  <2>1. rules \in [Rule -> RoutingRule]
    BY DEF Init, RoutingRule
  <2>2. update \in Update
    BY DEF Init, Update
  <2>3. turn \in [Rule -> Turn]
    BY DEF Init, Turn
  <2> QED
    BY <1>3, <2>1, <2>2, <2>3 DEF Init, TypeOK
<1>5. UpdateInv
  BY DEF Init, UpdateInv, Unlocked
<1>6. \A k \in Thread : CallInv(k)
  BY <1>3 DEF Init, CallInv
<1> QED
  BY <1>4, <1>5, <1>6 DEF IInv

\* Every step keeps the invariant.
LEMMA NextIInv == IInv /\ [Next]_vars => IInv'
<1> SUFFICES ASSUME IInv, [Next]_vars PROVE IInv'
  OBVIOUS
<1>1. TypeOK'
  BY NextTypeOK DEF IInv
<1>2. UpdateInv' /\ \A k \in Thread : CallInv(k)'
  <2>1. CASE \/ \E r \in Rule, targets \in SUBSET Targets, weight \in [Targets -> Weights],
                   sticky \in BOOLEAN, default \in Targets \cup {NoTarget} :
                  add_rule(r, targets, weight, sticky, default)
             \/ \E r \in Rule : remove_rule(r)
             \/ \E r \in Rule, weights \in [Targets -> Weights], names \in SUBSET Targets :
                  update_weights(r, weights, names)
             \/ clear_sessions
             \/ \E s \in Session : remove_session(s)
             \/ UNCHANGED vars
    <3>1. UNCHANGED <<calls, live, steady>>
      BY <2>1 DEF add_rule, remove_rule, update_weights, clear_sessions, remove_session,
                  vars, history_vars
    <3> QED
      BY <2>1, <3>1, RuleIInv
  <2>2. CASE WriteWeight
    BY <2>2, WriteIInv
  <2>3. ASSUME NEW k \in Thread, NEW r \in Rule, NEW session \in Session \cup {NoSession},
               NEW strategy \in Strategy, route(k, r, session, strategy)
        PROVE  UpdateInv' /\ \A j \in Thread : CallInv(j)'
    BY <2>3, RouteIInv
  <2>4. ASSUME NEW k \in Thread, ReadWeight(k)
        PROVE  UpdateInv' /\ \A j \in Thread : CallInv(j)'
    BY <2>4, ReadIInv
  <2>5. ASSUME NEW k \in Thread,
               \/ FallBack(k) \/ RouteWeighted(k) \/ RouteCanary(k)
               \/ RouteRoundRobin(k) \/ RouteSticky(k)
        PROVE  UpdateInv' /\ \A j \in Thread : CallInv(j)'
    BY <2>5, ReturnIInv
  <2> QED
    BY <2>1, <2>2, <2>3, <2>4, <2>5 DEF Next
<1> QED
  BY <1>1, <1>2 DEF IInv

\* The invariant holds in every state, whatever the interleaving of the calls with
\* the writes of update_weights.
THEOREM Invariance == Spec => []IInv
BY InitIInv, NextIInv, PTL DEF Spec

\* Rules, sessions, counters and calls keep their types: a session is only ever
\* assigned by a call that has one, and positions stay within the lists.
THEOREM TypeCorrect == Spec => []TypeOK
<1>1. IInv => TypeOK
  BY DEF IInv
<1> QED
  BY <1>1, Invariance, PTL

\* What ServedByLiveTarget says of one thread in one step.
ServedStep(k) ==
  calls[k].pc # "idle" /\ calls'[k].pc = "idle" =>
    /\ calls'[k].by = "strategy" => calls'[k].result \in live[k]
    /\ calls'[k].by \in {"default", "nothing"} => steady[k] = {}

\* A call that returns has chosen among the candidates it saw, and has none only if
\* no target had traffic all the time.
LEMMA ReturnServed ==
  ASSUME IInv, NEW k \in Thread,
         \/ FallBack(k) \/ RouteWeighted(k) \/ RouteCanary(k)
         \/ RouteRoundRobin(k) \/ RouteSticky(k)
  PROVE  ServedStep(k)
<1> DEFINE c == calls[k]
<1>1. calls \in [Thread -> Call] /\ c \in Call /\ CallInv(k) /\ TypeOK
  BY DEF IInv, TypeOK
<1>2. c.pc = "choose" /\ c.candidates \in SUBSET Targets /\ c.rule \in Rule
  BY <1>1 DEF FallBack, RouteWeighted, RouteCanary, RouteRoundRobin, RouteSticky, Call
<1>3. c.candidates \subseteq live[k] /\ steady[k] \subseteq c.candidates
      /\ (c.strategy = "sticky" => c.session # NoSession)
  BY <1>1, <1>2 DEF CallInv
<1>4. ASSUME NEW t, NEW by, Return(k, t, by)
      PROVE  calls'[k].result = t /\ calls'[k].by = by
  BY <1>1, <1>4 DEF Return, Idle
<1>5. CASE FallBack(k)
  <2>1. calls'[k].by \in {"default", "nothing"} /\ steady[k] = {}
    BY <1>3, <1>4, <1>5 DEF FallBack
  <2> QED
    BY <2>1 DEF ServedStep
<1>6. ASSUME NEW t \in c.candidates, Return(k, t, "strategy") PROVE ServedStep(k)
  BY <1>3, <1>4, <1>6 DEF ServedStep
<1>7. CASE RouteWeighted(k) \/ RouteCanary(k)
  BY <1>6, <1>7 DEF RouteWeighted, RouteCanary
<1>8. CASE RouteRoundRobin(k)
  <2>1. counters[c.rule] \in Nat
    BY <1>1, <1>2 DEF TypeOK
  <2>2. Nth(c.candidates, counters[c.rule] % Cardinality(c.candidates)) \in c.candidates
    BY <1>2, <1>8, <2>1, NthCandidate DEF RouteRoundRobin
  <2> QED
    BY <1>6, <1>8, <2>2 DEF RouteRoundRobin
<1>9. CASE RouteSticky(k)
  <2>1. c.session \in Session
    BY <1>1, <1>3, <1>9 DEF RouteSticky, Call
  <2>2. Hash[<<c.rule, c.session>>] \in Nat
    BY <1>2, <2>1, RouterAssumption
  <2>3. Nth(c.candidates, Hash[<<c.rule, c.session>>] % Cardinality(c.candidates))
        \in c.candidates
    BY <1>2, <1>9, <2>2, NthCandidate DEF RouteSticky
  <2> QED
    BY <1>6, <1>9, <2>3 DEF RouteSticky
<1> QED
  BY <1>5, <1>7, <1>8, <1>9

\* Every step serves every thread so: the others do not end a call.
LEMMA NextServed == IInv /\ [Next]_vars => \A k \in Thread : ServedStep(k)
<1> SUFFICES ASSUME IInv, [Next]_vars, NEW k \in Thread,
                    calls[k].pc # "idle", calls'[k].pc = "idle"
             PROVE  ServedStep(k)
  BY DEF ServedStep
<1>1. calls \in [Thread -> Call]
  BY DEF IInv, TypeOK
<1>2. calls'[k] # calls[k]
  OBVIOUS
<1>3. ASSUME NEW j \in Thread, NEW r \in Rule, NEW session \in Session \cup {NoSession},
             NEW strategy \in Strategy, route(j, r, session, strategy)
      PROVE  FALSE
  <2>1. calls[j].pc = "idle" /\ \E c : calls' = [calls EXCEPT ![j] = c]
    BY <1>3 DEF route, Answered
  <2> QED
    BY <1>1, <1>2, <2>1
<1>4. ASSUME NEW j \in Thread, ReadWeight(j) PROVE FALSE
  <2>1. /\ calls[j].pc = "filter" /\ calls[j] \in Call
        /\ calls'[j].pc \in {"choose", "filter"}
        /\ j # k => calls'[k] = calls[k]
    BY <1>1, <1>4 DEF ReadWeight, Call
  <2> QED
    BY <1>2, <2>1
<1>5. ASSUME NEW j \in Thread,
             \/ FallBack(j) \/ RouteWeighted(j) \/ RouteCanary(j)
             \/ RouteRoundRobin(j) \/ RouteSticky(j)
      PROVE  ServedStep(k)
  <2>1. PICK t, by : Return(j, t, by)
    BY <1>5 DEF FallBack, RouteWeighted, RouteCanary, RouteRoundRobin, RouteSticky
  <2>2. j = k
    BY <1>1, <1>2, <2>1 DEF Return
  <2> QED
    BY <1>5, <2>2, ReturnServed
<1>6. UNCHANGED calls \/ \E j \in Thread :
        \/ \E r \in Rule, session \in Session \cup {NoSession}, strategy \in Strategy :
             route(j, r, session, strategy)
        \/ ReadWeight(j) \/ FallBack(j) \/ RouteWeighted(j) \/ RouteCanary(j)
        \/ RouteRoundRobin(j) \/ RouteSticky(j)
  BY DEF Next, add_rule, remove_rule, update_weights, WriteWeight, clear_sessions,
         remove_session, vars
<1> QED
  BY <1>2, <1>3, <1>4, <1>5, <1>6

\* While update_weights rewrites the weights under a call, the call goes to a target
\* that had traffic at some time of it, and is turned away, or sent to the default,
\* only if none had traffic all the time: reading the weights without the lock costs
\* nothing more, for any number of threads, rules and targets.
THEOREM ServedByLiveTargetHolds == Spec => ServedByLiveTarget
<1>1. IInv /\ [Next]_vars =>
        [\A k \in Thread :
           calls[k].pc # "idle" /\ calls'[k].pc = "idle" =>
             /\ calls'[k].by = "strategy" => calls'[k].result \in live[k]
             /\ calls'[k].by \in {"default", "nothing"} => steady[k] = {}]_vars
  BY NextServed DEF ServedStep
<1> QED
  BY <1>1, Invariance, PTL DEF Spec, ServedByLiveTarget

-----------------------------------------------------------------------------
(* Round robin.                                                            *)

Below(S, t) == Cardinality({u \in S : u < t})

\* A rule's counter is the position after that of its last choice, in the list
\* that choice was made from.
TurnInv ==
  \A r \in Rule :
    LET S == turn[r].candidates
        t == turn[r].target
    IN S # {} => Below(S, t) < Cardinality(S)
                 /\ counters[r] = Advanced(Below(S, t), Cardinality(S))

\* A remainder lies below the divisor; a number below it is its own.
LEMMA Remainder ==
  ASSUME NEW n \in Nat \ {0}, NEW i \in Nat
  PROVE  i % n \in 0 .. n - 1 /\ (i < n => i % n = i)
OBVIOUS

\* In a list of two or more the position after another is a different one.
LEMMA AdvancedDiffers ==
  ASSUME NEW n \in Nat, n >= 2, NEW i \in Nat, i < n
  PROVE  Advanced(i, n) # i /\ Advanced(i, n) \in 0 .. n - 1
<1>1. CASE i + 1 < n
  <2>1. i + 1 \in Nat /\ n \in Nat \ {0} /\ (i + 1) % n = i + 1
    BY <1>1
  <2> QED
    BY <1>1, <2>1 DEF Advanced
<1>2. CASE i + 1 = n
  <2>1. n % n = 0
    OBVIOUS
  <2> QED
    BY <1>2, <2>1 DEF Advanced
<1> QED
  BY <1>1, <1>2

\* To advance a counter from a longer list is to advance its remainder.
LEMMA AdvancedRemainder ==
  ASSUME NEW n \in Nat \ {0}, NEW x \in Nat
  PROVE  Advanced(x, n) = Advanced(x % n, n)
<1> DEFINE i == x % n
<1>1. i \in 0 .. n - 1
  BY Remainder
<1>2. PICK q \in Nat : x = n * q + i
  <2>1. x \div n \in Nat /\ x = n * (x \div n) + i
    OBVIOUS
  <2> QED
    BY <2>1
<1> HIDE DEF i
<1>3. CASE i + 1 < n
  <2>1. (n * q + (i + 1)) % n = i + 1
    BY <1>1, <1>3
  <2> QED
    <3>1. x + 1 = n * q + (i + 1)
      BY <1>1, <1>2
    <3>2. (i + 1) % n = i + 1
      BY <1>1, <1>3
    <3>3. (x + 1) % n = (i + 1) % n
      BY <2>1, <3>1, <3>2
    <3> QED
      BY <3>3 DEF Advanced, i
<1>4. CASE i + 1 = n
  <2>1. (n * (q + 1)) % n = 0 /\ n % n = 0
    OBVIOUS
  <2> QED
    BY <1>1, <1>2, <1>4, <2>1 DEF Advanced, i
<1> QED
  BY <1>1, <1>3, <1>4

\* The position of the n-th element is n.
LEMMA NthPosition ==
  ASSUME NEW S \in SUBSET Targets, NEW n \in Nat, n < Cardinality(S)
  PROVE  Below(S, Nth(S, n)) = n
<1>1. \E t \in S : Cardinality({u \in S : u < t}) = n
  BY TargetLists, Position
<1> QED
  BY <1>1 DEF Nth, Below

\* A choice leaves the counter behind its own position.
LEMMA TakesTurn ==
  ASSUME IInv, NEW k \in Thread, RouteRoundRobin(k)
  PROVE  LET c == calls[k]
             n == Cardinality(c.candidates)
             i == counters[c.rule] % n
         IN /\ c.rule \in Rule /\ c.candidates \in SUBSET Targets /\ n \in Nat \ {0}
            /\ i \in 0 .. n - 1 /\ Below(c.candidates, Nth(c.candidates, i)) = i
            /\ turn' = [turn EXCEPT ![c.rule] =
                          [candidates |-> c.candidates, target |-> Nth(c.candidates, i)]]
            /\ counters' = [counters EXCEPT ![c.rule] = Advanced(@, n)]
            /\ calls'[k].result = Nth(c.candidates, i)
<1> DEFINE c == calls[k]
<1> DEFINE n == Cardinality(c.candidates)
<1> DEFINE i == counters[c.rule] % n
<1>1. c \in Call /\ calls \in [Thread -> Call] /\ counters \in [Rule -> Nat]
  BY DEF IInv, TypeOK
<1>2. c.rule \in Rule /\ c.candidates \in SUBSET Targets /\ counters[c.rule] \in Nat
  BY <1>1 DEF Call
<1>3. /\ c.candidates # {} /\ Return(k, Nth(c.candidates, i), "strategy")
      /\ turn' = [turn EXCEPT ![c.rule] =
                    [candidates |-> c.candidates, target |-> Nth(c.candidates, i)]]
      /\ counters' = [counters EXCEPT ![c.rule] = Advanced(@, n)]
  BY DEF RouteRoundRobin
<1>4. n \in Nat \ {0}
  BY <1>2, <1>3, NthCandidate
<1>5. i \in 0 .. n - 1
  BY <1>2, <1>4, Remainder
<1>6. Below(c.candidates, Nth(c.candidates, i)) = i
  BY <1>2, <1>4, <1>5, NthPosition
<1>7. calls'[k].result = Nth(c.candidates, i)
  BY <1>1, <1>3 DEF Return, Idle
<1> QED
  BY <1>2, <1>3, <1>4, <1>5, <1>6, <1>7

\* Every step keeps the counters behind the last choices.
LEMMA TurnStep == IInv /\ TurnInv /\ [Next]_vars => TurnInv'
<1> SUFFICES ASSUME IInv, TurnInv, [Next]_vars PROVE TurnInv'
  OBVIOUS
<1>1. turn \in [Rule -> Turn] /\ counters \in [Rule -> Nat]
  BY DEF IInv, TypeOK
<1>2. ASSUME NEW k \in Thread, RouteRoundRobin(k) PROVE TurnInv'
  <2>1. PICK q \in Rule : q = calls[k].rule
    BY <1>2, TakesTurn
  <2>2. PICK S \in SUBSET Targets : S = calls[k].candidates
    BY <1>2, TakesTurn
  <2>a. counters[q] % Cardinality(S) \in Nat
    <3>1. Cardinality(S) \in Nat \ {0} /\ counters[q] \in Nat
      BY <1>1, <1>2, <2>2, TakesTurn
    <3> QED
      BY <3>1, Remainder
  <2>3. PICK i \in Nat : i = counters[q] % Cardinality(S)
    BY <2>a
  <2>4. /\ Cardinality(S) \in Nat \ {0} /\ i < Cardinality(S)
        /\ Below(S, Nth(S, i)) = i
        /\ turn' = [turn EXCEPT ![q] = [candidates |-> S, target |-> Nth(S, i)]]
        /\ counters' = [counters EXCEPT ![q] = Advanced(counters[q], Cardinality(S))]
    BY <1>2, <2>1, <2>2, <2>3, TakesTurn
  <2>5. Advanced(counters[q], Cardinality(S)) = Advanced(i, Cardinality(S))
    BY <1>1, <2>3, <2>4, AdvancedRemainder
  <2>6. ASSUME NEW r \in Rule, turn'[r].candidates # {}
        PROVE  /\ Below(turn'[r].candidates, turn'[r].target) < Cardinality(turn'[r].candidates)
               /\ counters'[r] = Advanced(Below(turn'[r].candidates, turn'[r].target),
                                          Cardinality(turn'[r].candidates))
    <3>1. CASE r = q
      <4>1. turn'[r].candidates = S /\ turn'[r].target = Nth(S, i)
            /\ counters'[r] = Advanced(i, Cardinality(S))
        BY <1>1, <2>4, <2>5, <3>1
      <4> QED
        BY <2>4, <4>1
    <3>2. CASE r # q
      <4>1. turn'[r] = turn[r] /\ counters'[r] = counters[r]
        BY <1>1, <2>4, <3>2
      <4> QED
        BY <2>6, <4>1 DEF TurnInv
    <3> QED
      BY <3>1, <3>2
  <2> QED
    BY <2>6 DEF TurnInv
<1>3. CASE UNCHANGED <<turn, counters>>
  BY <1>3 DEF TurnInv
<1>4. UNCHANGED <<turn, counters>> \/ \E k \in Thread : RouteRoundRobin(k)
  <2>1. ASSUME NEW k \in Thread, NEW r \in Rule, NEW session \in Session \cup {NoSession},
               NEW strategy \in Strategy, route(k, r, session, strategy)
        PROVE  UNCHANGED <<turn, counters>>
    BY <2>1 DEF route
  <2>2. ASSUME NEW k \in Thread,
               \/ ReadWeight(k) \/ FallBack(k) \/ RouteWeighted(k)
               \/ RouteCanary(k) \/ RouteSticky(k)
        PROVE  UNCHANGED <<turn, counters>>
    BY <2>2 DEF ReadWeight, FallBack, RouteWeighted, RouteCanary, RouteSticky, history_vars
  <2>3. \/ \E k \in Thread :
             \/ \E r \in Rule, session \in Session \cup {NoSession}, strategy \in Strategy :
                  route(k, r, session, strategy)
             \/ ReadWeight(k) \/ FallBack(k) \/ RouteWeighted(k) \/ RouteCanary(k)
             \/ RouteRoundRobin(k) \/ RouteSticky(k)
        \/ UNCHANGED <<turn, counters>>
    BY DEF Next, add_rule, remove_rule, update_weights, WriteWeight, clear_sessions,
           remove_session, history_vars, vars
  <2> QED
    BY <2>1, <2>2, <2>3
<1> QED
  BY <1>2, <1>3, <1>4

\* A call that takes its turn over the list of the last choice goes elsewhere.
LEMMA TurnsDiffer ==
  ASSUME IInv, TurnInv, [Next]_vars, NEW k \in Thread,
         calls[k].pc = "choose", calls[k].strategy = "round_robin",
         Cardinality(calls[k].candidates) >= 2,
         calls[k].candidates = turn[calls[k].rule].candidates,
         calls'[k].pc = "idle"
  PROVE  calls'[k].result # turn[calls[k].rule].target
<1> DEFINE r == calls[k].rule
<1> DEFINE S == calls[k].candidates
<1> DEFINE n == Cardinality(S)
<1>1. calls \in [Thread -> Call] /\ counters \in [Rule -> Nat] /\ S # {}
  <2>1. calls \in [Thread -> Call] /\ counters \in [Rule -> Nat]
    BY DEF IInv, TypeOK
  <2>2. n >= 2
    OBVIOUS
  <2> HIDE DEF S
  <2>3. S # {}
    BY <2>2, FS_EmptySet
  <2> QED
    BY <2>1, <2>3
<1>2. RouteRoundRobin(k)
  <2>1. ASSUME NEW j \in Thread, NEW c, calls' = [calls EXCEPT ![j] = c] PROVE j = k
    BY <1>1, <2>1
  <2>2. ASSUME NEW j \in Thread,
               \/ FallBack(j) \/ RouteWeighted(j) \/ RouteCanary(j)
               \/ RouteRoundRobin(j) \/ RouteSticky(j)
        PROVE  RouteRoundRobin(k)
    <3>1. \E c : calls' = [calls EXCEPT ![j] = c]
      BY <2>2 DEF FallBack, RouteWeighted, RouteCanary, RouteRoundRobin, RouteSticky, Return
    <3>2. j = k
      BY <2>1, <3>1
    <3> QED
      BY <1>1, <2>2, <3>2 DEF FallBack, RouteWeighted, RouteCanary, RouteSticky
  <2>3. ASSUME NEW j \in Thread, NEW q \in Rule, NEW session \in Session \cup {NoSession},
               NEW strategy \in Strategy, route(j, q, session, strategy)
        PROVE  FALSE
    <3>1. calls[j].pc = "idle" /\ \E c : calls' = [calls EXCEPT ![j] = c]
      BY <2>3 DEF route, Answered
    <3> QED
      BY <2>1, <3>1
  <2>4. ASSUME NEW j \in Thread, ReadWeight(j) PROVE FALSE
    <3>1. calls[j].pc = "filter" /\ \E c : calls' = [calls EXCEPT ![j] = c]
      BY <2>4 DEF ReadWeight
    <3> QED
      BY <2>1, <3>1
  <2>5. calls' # calls
    OBVIOUS
  <2>6. \E j \in Thread :
          \/ \E q \in Rule, session \in Session \cup {NoSession}, strategy \in Strategy :
               route(j, q, session, strategy)
          \/ ReadWeight(j) \/ FallBack(j) \/ RouteWeighted(j) \/ RouteCanary(j)
          \/ RouteRoundRobin(j) \/ RouteSticky(j)
    BY <2>5 DEF Next, add_rule, remove_rule, update_weights, WriteWeight, clear_sessions,
                remove_session, vars
  <2> QED
    BY <2>2, <2>3, <2>4, <2>6
<1> DEFINE i == counters[r] % n
<1>3. /\ r \in Rule /\ n \in Nat \ {0} /\ Below(S, Nth(S, i)) = i
      /\ calls'[k].result = Nth(S, i)
  BY <1>2, TakesTurn
<1> DEFINE b == Below(S, turn[r].target)
<1>4. S = turn[r].candidates
  OBVIOUS
<1>5. b < n /\ counters[r] = Advanced(b, n)
  <2> HIDE DEF S, r
  <2> QED
    BY <1>1, <1>3, <1>4 DEF TurnInv
<1>6. b \in Nat
  <2>1. S \in SUBSET Targets
    BY <1>2, TakesTurn
  <2> HIDE DEF S, r
  <2>2. IsFiniteSet({u \in S : u < turn[r].target})
    BY <2>1, TargetLists, FS_Subset
  <2> QED
    BY <2>2, FS_CardinalityType DEF Below
<1>7. n >= 2
  OBVIOUS
<1>8. counters[r] # b /\ counters[r] \in 0 .. n - 1
  <2> HIDE DEF S, r, n, b
  <2> QED
    BY <1>3, <1>5, <1>6, <1>7, AdvancedDiffers
<1>9. i = counters[r]
  <2> HIDE DEF S, r, n, b
  <2>1. n \in Nat \ {0} /\ counters[r] \in Nat /\ counters[r] < n
    BY <1>1, <1>3, <1>8
  <2> QED
    BY <2>1, Remainder
<1> QED
  BY <1>3, <1>8, <1>9

\* Round-robin calls take turns: two in a row over the same list, on whatever
\* threads and with any rules and lists in between, never get the same target.
THEOREM RoundRobinTakesTurnsHolds == Spec => RoundRobinTakesTurns
<1>1. Init => TurnInv
  BY DEF Init, TurnInv
<1>2. IInv /\ TurnInv /\ [Next]_vars =>
        [\A k \in Thread :
           LET c == calls[k] IN
           /\ c.pc = "choose" /\ c.strategy = "round_robin"
           /\ Cardinality(c.candidates) >= 2
           /\ c.candidates = turn[c.rule].candidates
           /\ calls'[k].pc = "idle"
           => calls'[k].result # turn[c.rule].target]_vars
  BY TurnsDiffer
<1> QED
  BY <1>1, <1>2, TurnStep, Invariance, PTL DEF Spec, RoundRobinTakesTurns
=============================================================================
