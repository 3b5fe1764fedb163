----------------------------- MODULE TrafficRouter -----------------------------
(***************************************************************************)
(* Splitting requests between model versions                               *)
(* (astroml/deployment/traffic_router.py).                                 *)
(*                                                                         *)
(* Threads route requests while operators change rules.  The dictionaries  *)
(* are guarded by one lock, but a call reads the weights of its rule's     *)
(* targets without it, one after the other, while update_weights writes    *)
(* them one after the other.                                               *)
(*                                                                         *)
(* Targets are numbered in the order of the rule's list, and are the same  *)
(* target name in every rule.  Random choices are free, and the hash of a  *)
(* session is a constant.                                                  *)
(***************************************************************************)
EXTENDS Integers, FiniteSets

CONSTANTS
  Rule,           (* Routing rules; one is used for one model.             *)
  Targets,        (* Target names, as positions in the lists.              *)
  Weights,        (* Target weights callers pass; 0 turns a target off.    *)
  Thread,         (* Callers of route.                                     *)
  Session,        (* Session ids callers pass.                             *)
  Strategy,       (* Strategies callers pass.                              *)
  NoSession,      (* session_id is None.                                   *)
  NoTarget,       (* None: of a result, a default target or an assignment. *)
  NoUpdate,       (* The lock is free.                                     *)
  Hash,           (* The hash of a rule and a session.                     *)
  MaxCalls,       (* Bound: calls of route.                                *)
  MaxUpdates      (* Bound: calls of update_weights.                       *)

ASSUME RouterAssumption ==
  /\ Targets \subseteq Nat /\ IsFiniteSet(Targets)
  /\ Weights \subseteq Nat
  /\ NoSession \notin Session
  /\ NoTarget \notin Targets
  /\ NoUpdate \notin Rule /\ Rule # {}
  /\ Strategy \subseteq {"weighted", "round_robin", "sticky", "canary"}
  /\ Hash \in [Rule \X Session -> Nat]
  /\ MaxCalls \in Nat /\ MaxUpdates \in Nat

VARIABLES
  rules,          (* _rules, and the rules that were removed from it.      *)
  sessions,       (* _sessions: the target of a session, under any rule.   *)
  counters,       (* _round_robin_counters.                                *)
  update,         (* The update_weights call that holds the lock: its      *)
                  (* rule, its weights and the targets it has to write.    *)
  calls,          (* The call of route each thread is in, or its result.   *)
  turn,           (* History: a rule's last round-robin choice.            *)
  live,           (* History: targets with a weight at some time of the    *)
                  (* call a thread is in,                                  *)
  steady,         (* and targets with a weight all the time of it.         *)
  routed, updated (* Counters of the bounds.                               *)

history_vars == <<turn, live, steady>>
bound_vars == <<routed, updated>>
vars == <<rules, sessions, counters, update, calls, history_vars, bound_vars>>

RoutingRule ==
  [status : {"absent", "present", "removed"}, targets : SUBSET Targets,
   weight : [Targets -> Nat], sticky_sessions : BOOLEAN,
   default_target : Targets \cup {NoTarget}]

\* by: where a result comes from.
Call ==
  [pc : {"idle", "filter", "choose"}, rule : Rule,
   session : Session \cup {NoSession}, strategy : Strategy \cup {"weighted", "none"},
   unread : SUBSET Targets, candidates : SUBSET Targets,
   result : Targets \cup {NoTarget},
   by : {"nothing", "session", "strategy", "default"}]

Turn == [candidates : SUBSET Targets, target : Targets \cup {NoTarget}]

Update == [rule : Rule \cup {NoUpdate}, weights : [Targets -> Weights \cup {0}],
           unwritten : SUBSET Targets]

Unlocked == update.rule = NoUpdate

First(S) == CHOOSE t \in S : \A u \in S : t <= u

\* S[n]: the element of the list with n others before it.
Nth(S, n) == CHOOSE t \in S : Cardinality({u \in S : u < t}) = n

Positive(r) == {t \in rules[r].targets : rules[r].weight[t] > 0}

\* Between two calls: where the last result came from, and the result.
Idle(r, t, by) ==
  [pc |-> "idle", rule |-> r, session |-> NoSession, strategy |-> "none",
   unread |-> {}, candidates |-> {}, result |-> t, by |-> by]

Init ==
  /\ rules = [r \in Rule |->
       [status |-> "absent", targets |-> {}, weight |-> [t \in Targets |-> 0],
        sticky_sessions |-> FALSE, default_target |-> NoTarget]]
  /\ sessions = [s \in Session |-> NoTarget]
  /\ counters = [r \in Rule |-> 0]
  /\ update = [rule |-> NoUpdate, weights |-> [t \in Targets |-> 0], unwritten |-> {}]
  /\ calls = [k \in Thread |-> Idle(CHOOSE r \in Rule : TRUE, NoTarget, "nothing")]
  /\ turn = [r \in Rule |-> [candidates |-> {}, target |-> NoTarget]]
  /\ live = [k \in Thread |-> {}]
  /\ steady = [k \in Thread |-> {}]
  /\ routed = 0 /\ updated = 0

-----------------------------------------------------------------------------
(* Rules and sessions.                                                     *)

add_rule(r, targets, weight, sticky, default) ==
  /\ Unlocked
  /\ rules[r].status = "absent"
  /\ rules' = [rules EXCEPT ![r] =
       [status |-> "present", targets |-> targets, weight |-> weight,
        sticky_sessions |-> sticky, default_target |-> default]]
  /\ UNCHANGED <<sessions, counters, update, calls, history_vars, bound_vars>>

\* A call that has found the rule goes on with it.
remove_rule(r) ==
  /\ Unlocked
  /\ rules[r].status = "present"
  /\ rules' = [rules EXCEPT ![r].status = "removed"]
  /\ UNCHANGED <<sessions, counters, update, calls, history_vars, bound_vars>>

update_weights(r, weights, names) ==
  /\ Unlocked
  /\ rules[r].status = "present"
  /\ rules[r].targets \cap names # {}
  /\ updated < MaxUpdates
  /\ updated' = updated + 1
  /\ update' = [rule |-> r,
                weights |-> [t \in Targets |-> IF t \in names THEN weights[t] ELSE 0],
                unwritten |-> rules[r].targets \cap names]
  /\ UNCHANGED <<rules, sessions, counters, calls, history_vars, routed>>

\* The next target in the list; the lock is released after the last one.
WriteWeight ==
  LET r == update.rule
      t == First(update.unwritten)
      left == update.unwritten \ {t}
      Routing(k) == calls[k].pc # "idle" /\ calls[k].rule = r
  IN
  /\ ~Unlocked
  /\ rules' = [rules EXCEPT ![r].weight[t] = update.weights[t]]
  /\ update' = [update EXCEPT !.unwritten = left, !.weights[t] = 0,
                              !.rule = IF left = {} THEN NoUpdate ELSE @]
  /\ live' = [k \in Thread |-> IF Routing(k) /\ update.weights[t] > 0
                               THEN live[k] \cup {t} ELSE live[k]]
  /\ steady' = [k \in Thread |-> IF Routing(k) /\ update.weights[t] = 0
                                 THEN steady[k] \ {t} ELSE steady[k]]
  /\ UNCHANGED <<sessions, counters, calls, turn, bound_vars>>

clear_sessions ==
  /\ Unlocked
  /\ sessions' = [s \in Session |-> NoTarget]
  /\ UNCHANGED <<rules, counters, update, calls, history_vars, bound_vars>>

remove_session(s) ==
  /\ Unlocked
  /\ sessions' = [sessions EXCEPT ![s] = NoTarget]
  /\ UNCHANGED <<rules, counters, update, calls, history_vars, bound_vars>>

-----------------------------------------------------------------------------
(* route.                                                                  *)

\* The dispatch: a sticky call without a session is a weighted one.
Dispatched(r, session, strategy) ==
  [pc |-> "filter", rule |-> r,
   session |-> IF strategy = "sticky" THEN session ELSE NoSession,
   strategy |-> IF strategy = "sticky" /\ session = NoSession THEN "weighted"
                ELSE strategy,
   unread |-> rules[r].targets, candidates |-> {}, result |-> NoTarget,
   by |-> "nothing"]

Answered(k, r, t, by) ==
  /\ calls' = [calls EXCEPT ![k] = Idle(r, t, by)]
  /\ UNCHANGED <<live, steady>>

\* A rule without targets routes nowhere; a sticky rule answers with the session's
\* target, whatever its weight is now.  The rule and the session are read under
\* the lock, one after the other; nothing is read in between.
route(k, r, session, strategy) ==
  LET known == rules[r].sticky_sessions /\ session # NoSession
               /\ sessions[session] \in rules[r].targets
  IN
  /\ calls[k].pc = "idle"
  /\ Unlocked
  /\ rules[r].status = "present"
  /\ routed < MaxCalls
  /\ routed' = routed + 1
  /\ \/ /\ rules[r].targets = {}
        /\ Answered(k, r, NoTarget, "nothing")
     \/ /\ known
        /\ Answered(k, r, sessions[session], "session")
     \/ /\ rules[r].targets # {} /\ ~known
        /\ calls' = [calls EXCEPT ![k] = Dispatched(r, session, strategy)]
        /\ live' = [live EXCEPT ![k] = Positive(r)]
        /\ steady' = [steady EXCEPT ![k] = Positive(r)]
  /\ UNCHANGED <<rules, sessions, counters, update, turn, updated>>

Return(k, t, by) ==
  /\ calls' = [calls EXCEPT ![k] = Idle(@.rule, t, by)]
  /\ live' = [live EXCEPT ![k] = {}]
  /\ steady' = [steady EXCEPT ![k] = {}]

\* The last target of the list is not looked at.
ReadWeightBug(k) ==
  LET c == calls[k]
      t == First(c.unread)
      left == c.unread \ {t}
  IN
  /\ c.pc = "filter"
  /\ calls' = [calls EXCEPT ![k] =
       [c EXCEPT !.unread = left,
                 !.candidates = IF rules[c.rule].weight[t] > 0 THEN @ \cup {t} ELSE @,
                 !.pc = IF Cardinality(left) <= 1 THEN "choose" ELSE @]]
  /\ UNCHANGED <<rules, sessions, counters, update, history_vars, bound_vars>>

\* [t for t in rule.targets if t.weight > 0], which every strategy begins with:
\* one target's weight, without the lock.
ReadWeight(k) ==
  LET c == calls[k]
      t == First(c.unread)
      left == c.unread \ {t}
  IN
  /\ c.pc = "filter"
  /\ calls' = [calls EXCEPT ![k] =
       [c EXCEPT !.unread = left,
                 !.candidates = IF rules[c.rule].weight[t] > 0 THEN @ \cup {t} ELSE @,
                 !.pc = IF left = {} THEN "choose" ELSE @]]
  /\ UNCHANGED <<rules, sessions, counters, update, history_vars, bound_vars>>

\* No candidate: the default target, if the rule has it.
FallBack(k) ==
  LET c == calls[k]
      default == rules[c.rule].default_target
  IN
  /\ c.pc = "choose"
  /\ c.candidates = {}
  /\ IF default \in rules[c.rule].targets THEN Return(k, default, "default")
     ELSE Return(k, NoTarget, "nothing")
  /\ UNCHANGED <<rules, sessions, counters, update, turn, bound_vars>>

\* _route_weighted: the weights are read again for the draw, so that any
\* candidate can win.
RouteWeighted(k) ==
  LET c == calls[k] IN
  /\ c.pc = "choose"
  /\ c.strategy = "weighted"
  /\ \E t \in c.candidates : Return(k, t, "strategy")
  /\ UNCHANGED <<rules, sessions, counters, update, turn, bound_vars>>

\* _route_canary: one of the two heaviest candidates, sorted in one step; for
\* weights below 1 the draw can go either way.
RouteCanary(k) ==
  LET c == calls[k]
      weight == rules[c.rule].weight
      Heavier(u, t) == weight[u] > weight[t] \/ (weight[u] = weight[t] /\ u < t)
  IN
  /\ c.pc = "choose"
  /\ c.strategy = "canary"
  /\ \E t \in c.candidates :
       /\ Cardinality({u \in c.candidates : Heavier(u, t)}) < 2
       /\ Return(k, t, "strategy")
  /\ UNCHANGED <<rules, sessions, counters, update, turn, bound_vars>>

\* The counter stands still at the end of a list that has become shorter.
AdvancedBug(i, n) == IF i + 1 < n THEN i + 1 ELSE i

\* The counter may come from a longer list.
Advanced(i, n) == (i + 1) % n

RouteRoundRobin(k) ==
  LET c == calls[k]
      r == c.rule
      n == Cardinality(c.candidates)
      t == Nth(c.candidates, counters[r] % n)
  IN
  /\ c.pc = "choose"
  /\ c.strategy = "round_robin"
  /\ c.candidates # {}
  /\ Unlocked
  /\ Return(k, t, "strategy")
  /\ counters' = [counters EXCEPT ![r] = Advanced(@, n)]
  /\ turn' = [turn EXCEPT ![r] = [candidates |-> c.candidates, target |-> t]]
  /\ UNCHANGED <<rules, sessions, update, bound_vars>>

\* The assignment is stored for the session, whatever rule it came from.
RouteSticky(k) ==
  LET c == calls[k]
      t == Nth(c.candidates, Hash[<<c.rule, c.session>>] % Cardinality(c.candidates))
  IN
  /\ c.pc = "choose"
  /\ c.strategy = "sticky"
  /\ c.candidates # {}
  /\ Unlocked
  /\ Return(k, t, "strategy")
  /\ sessions' = [sessions EXCEPT ![c.session] = t]
  /\ UNCHANGED <<rules, counters, update, turn, bound_vars>>

Next ==
  \/ \E r \in Rule :
       \/ \E targets \in SUBSET Targets, weight \in [Targets -> Weights],
             sticky \in BOOLEAN, default \in Targets \cup {NoTarget} :
            add_rule(r, targets, weight, sticky, default)
       \/ remove_rule(r)
       \/ \E weights \in [Targets -> Weights], names \in SUBSET Targets :
            update_weights(r, weights, names)
  \/ WriteWeight
  \/ clear_sessions
  \/ \E s \in Session : remove_session(s)
  \/ \E k \in Thread :
       \/ \E r \in Rule, session \in Session \cup {NoSession}, strategy \in Strategy :
            route(k, r, session, strategy)
       \/ ReadWeight(k)
       \/ FallBack(k)
       \/ RouteWeighted(k)
       \/ RouteCanary(k)
       \/ RouteRoundRobin(k)
       \/ RouteSticky(k)

Spec == Init /\ [][Next]_vars

-----------------------------------------------------------------------------
(* Properties.                                                             *)

TypeOK ==
  /\ rules \in [Rule -> RoutingRule]
  /\ sessions \in [Session -> Targets \cup {NoTarget}]
  /\ counters \in [Rule -> Nat]
  /\ update \in Update
  /\ calls \in [Thread -> Call]
  /\ turn \in [Rule -> Turn]
  /\ live \in [Thread -> SUBSET Targets]
  /\ steady \in [Thread -> SUBSET Targets]
  /\ routed \in Nat /\ updated \in Nat

\* While weights are rewritten under a call's feet, a strategy still picks only
\* a target that had traffic at some time of the call, and a call is turned away,
\* or sent to the default, only if no target had traffic all the time.
ServedByLiveTarget ==
  [][\A k \in Thread :
       calls[k].pc # "idle" /\ calls'[k].pc = "idle" =>
         /\ calls'[k].by = "strategy" => calls'[k].result \in live[k]
         /\ calls'[k].by \in {"default", "nothing"} => steady[k] = {}]_vars

\* Two round-robin calls of a rule in a row, on whatever threads, that found the
\* same two or more candidates do not get the same target.
RoundRobinTakesTurns ==
  [][\A k \in Thread :
       LET c == calls[k] IN
       /\ c.pc = "choose" /\ c.strategy = "round_robin"
       /\ Cardinality(c.candidates) >= 2
       /\ c.candidates = turn[c.rule].candidates
       /\ calls'[k].pc = "idle"
       => calls'[k].result # turn[c.rule].target]_vars
=============================================================================
