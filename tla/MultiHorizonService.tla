------------------------- MODULE MultiHorizonService -------------------------
(***************************************************************************)
(* The multi-Horizon process: MultiHorizonService runs one StreamService   *)
(* per Horizon instance, each with a StreamStateManager of its own, and    *)
(* all of them, like the ledger worker's StateStore, keep their state in   *)
(* the same file.  How a stream reads and when it fails is the subject of  *)
(* StreamIngestion; here a stream only has a cursor that advances and is   *)
(* saved when the stream fails, ends or is cancelled.                      *)
(*                                                                         *)
(* asyncio keeps one handler per signal, the one installed last, and the   *)
(* services install theirs after MultiHorizonService has installed its     *)
(* own.  start_all suspends only after creating the services' tasks, and   *)
(* start() runs to its first await in one turn, so no signal is handled    *)
(* before every service has started.                                       *)
(***************************************************************************)
EXTENDS Integers, FiniteSets

CONSTANTS
  Services,    (* Number of Horizon services, started in the order 1, 2, ..*)
  Types,       (* Stream types: effects, operations.                       *)
  Multi,       (* The handler of MultiHorizonService itself.               *)
  MaxCursor,   (* Bound: records of a stream.                              *)
  MaxMarks,    (* Bound: ledgers the ledger worker marks.                  *)
  MaxLaunches  (* Bound: launches of the process.                          *)

ASSUME ServiceAssumption ==
  /\ Services \in Nat /\ MaxCursor \in Nat
  /\ MaxMarks \in Nat /\ MaxLaunches \in Nat

Service == 1..Services
Stream == Service \X Types
Owner(st) == st[1]

VARIABLES
  cursors,   (* The file's "cursors"; 0 where a stream has no entry.       *)
  ledgers,   (* The file's record of ledgers: how many were marked.        *)
  caches,    (* StreamStateManager._cursors of each service.               *)
  cursor,    (* stream._cursor of each stream.                             *)
  task,      (* Each stream's task: "none", "running", "done".             *)
  status,    (* Each service: "idle", "running", "stopping", "stopped".    *)
  shutdown,  (* The shutdown events that are set, by service and Multi.    *)
  handler,   (* Whose _handle_signal the event loop calls.                 *)
  process,   (* "down", "running", "stopping" (stop_all), "exited".        *)
  marking,   (* The ledger worker's mark: what it loaded, -1 when idle.    *)
  reached,   (* History: the furthest each stream ever got.                *)
  marks, launches  (* Counters of the bounds.                              *)

file == <<cursors, ledgers>>
streams == <<caches, cursor, task, reached>>
services == <<status, shutdown, handler, process>>
worker == <<marking, marks>>
vars == <<file, streams, services, worker, launches>>

Position == [Stream -> 0..MaxCursor]

TypeOK ==
  /\ cursors \in Position /\ ledgers \in 0..MaxMarks
  /\ caches \in [Service -> Position] /\ cursor \in Position /\ reached \in Position
  /\ task \in [Stream -> {"none", "running", "done"}]
  /\ status \in [Service -> {"idle", "running", "stopping", "stopped"}]
  /\ shutdown \subseteq Service \cup {Multi} /\ handler \in Service \cup {Multi}
  /\ process \in {"down", "running", "stopping", "exited"}
  /\ marking \in -1..MaxMarks /\ marks \in 0..MaxMarks /\ launches \in 0..MaxLaunches

Nowhere == [st \in Stream |-> 0]
NotStarted ==
  /\ cursor' = Nowhere /\ task' = [st \in Stream |-> "none"]
  /\ status' = [s \in Service |-> "idle"] /\ shutdown' = {} /\ handler' = Multi

Init ==
  /\ cursors = Nowhere /\ ledgers = 0 /\ caches = [s \in Service |-> Nowhere]
  /\ cursor = Nowhere /\ task = [st \in Stream |-> "none"] /\ reached = Nowhere
  /\ status = [s \in Service |-> "idle"] /\ shutdown = {} /\ handler = Multi
  /\ process = "down" /\ marking = -1 /\ marks = 0 /\ launches = 0

(***************************************************************************)
(* Start.  Each service's manager reads the whole file when the service is *)
(* added; start() takes the cursors of the service's streams from it and   *)
(* installs the service's signal handler over the one before.              *)
(***************************************************************************)
add_horizon_services_and_start_all ==
  /\ process \in {"down", "exited"} /\ launches < MaxLaunches
  /\ caches' = [s \in Service |-> cursors]
  /\ NotStarted
  /\ process' = "running" /\ launches' = launches + 1
  /\ UNCHANGED <<file, reached, worker>>

start(s) ==
  /\ process = "running" /\ status[s] = "idle"
  /\ \A t \in 1..(s - 1) : status[t] # "idle"
  /\ status' = [status EXCEPT ![s] = "running"] /\ handler' = s
  /\ cursor' = [st \in Stream |-> IF Owner(st) = s THEN caches[s][st] ELSE cursor[st]]
  /\ task' = [st \in Stream |-> IF Owner(st) = s THEN "running" ELSE task[st]]
  /\ UNCHANGED <<file, caches, reached, shutdown, process, worker, launches>>

Started == process \in {"running", "stopping"} /\ \A s \in Service : status[s] # "idle"

(***************************************************************************)
(* The streams.  Saving a cursor updates the manager's copy and replaces   *)
(* the file with it: nothing else the file held survives.                  *)
(***************************************************************************)
Advance(st) ==
  /\ Started /\ task[st] = "running" /\ cursor[st] < MaxCursor
  /\ cursor' = [cursor EXCEPT ![st] = @ + 1]
  /\ reached' = [reached EXCEPT ![st] = IF @ > cursor[st] THEN @ ELSE cursor[st] + 1]
  /\ UNCHANGED <<file, caches, task, services, worker, launches>>

(* Mutant of save_cursor: the position of the next record.                 *)
save_cursorNext(st) ==
  IF cursor[st] = 0
  THEN UNCHANGED <<file, caches>>
  ELSE /\ caches' = [caches EXCEPT ![Owner(st)][st] = cursor[st] + 1]
       /\ cursors' = caches'[Owner(st)] /\ ledgers' = 0

save_cursor(st) ==
  IF cursor[st] = 0
  THEN UNCHANGED <<file, caches>>
  ELSE /\ caches' = [caches EXCEPT ![Owner(st)][st] = cursor[st]]
       /\ cursors' = caches'[Owner(st)] /\ ledgers' = 0

(* An attempt fails; the cursor is saved and the stream goes on.           *)
Retry(st) ==
  /\ Started /\ task[st] = "running"
  /\ save_cursor(st)
  /\ UNCHANGED <<cursor, task, reached, services, worker, launches>>

(* Mutant of Finish: no final save.                                        *)
FinishUnsaved(st) ==
  /\ Started /\ task[st] = "running"
  /\ task' = [task EXCEPT ![st] = "done"]
  /\ UNCHANGED <<file, caches, cursor, reached, services, worker, launches>>

(* The stream ends by itself, or is cancelled once its service shuts down. *)
Finish(st) ==
  /\ Started /\ task[st] = "running"
  /\ task' = [task EXCEPT ![st] = "done"]
  /\ save_cursor(st)
  /\ UNCHANGED <<cursor, reached, services, worker, launches>>

(***************************************************************************)
(* Shutdown.                                                               *)
(***************************************************************************)
_handle_signal ==
  /\ Started /\ handler \notin shutdown
  /\ shutdown' = shutdown \cup {handler}
  /\ UNCHANGED <<file, streams, status, handler, process, worker, launches>>

_shutdown(s) ==
  /\ Started /\ s \in shutdown /\ status[s] = "running"
  /\ status' = [status EXCEPT ![s] = "stopping"]
  /\ UNCHANGED <<file, streams, shutdown, handler, process, worker, launches>>

\* A service waits for the tasks of all services.
StoppedWaitsForAll(s) ==
  /\ Started /\ status[s] = "stopping"
  /\ \A st \in Stream : task[st] = "done"
  /\ status' = [status EXCEPT ![s] = "stopped"]
  /\ UNCHANGED <<file, streams, shutdown, handler, process, worker, launches>>

(* gather has seen every task of the service end.                          *)
Stopped(s) ==
  /\ Started /\ status[s] = "stopping"
  /\ \A st \in Stream : Owner(st) = s => task[st] = "done"
  /\ status' = [status EXCEPT ![s] = "stopped"]
  /\ UNCHANGED <<file, streams, shutdown, handler, process, worker, launches>>

(* stop_all is called by start_all when Multi's event is set, and may be   *)
(* called by the program that embeds the service.  Mutant: the services    *)
(* are not told.                                                           *)
stop_allAlone ==
  /\ Started /\ process = "running"
  /\ shutdown' = shutdown \cup {Multi} /\ process' = "stopping"
  /\ UNCHANGED <<file, streams, status, handler, worker, launches>>

stop_all ==
  /\ Started /\ process = "running"
  /\ shutdown' = shutdown \cup Service \cup {Multi} /\ process' = "stopping"
  /\ UNCHANGED <<file, streams, status, handler, worker, launches>>

Exit ==
  /\ process = "stopping" /\ \A s \in Service : status[s] = "stopped"
  /\ process' = "exited"
  /\ UNCHANGED <<file, streams, status, shutdown, handler, worker, launches>>

(* The process is killed; only the file survives.                          *)
Kill ==
  /\ process \in {"running", "stopping"} /\ launches < MaxLaunches
  /\ process' = "down" /\ NotStarted /\ caches' = [s \in Service |-> Nowhere]
  /\ UNCHANGED <<file, reached, worker, launches>>

(***************************************************************************)
(* The ledger worker, another process: StateStore.mark_processed loads the *)
(* file, of which it keeps the ledgers only, and replaces it.              *)
(***************************************************************************)
load ==
  /\ marking = -1 /\ marks < MaxMarks
  /\ marking' = ledgers
  /\ UNCHANGED <<file, streams, services, marks, launches>>

save ==
  /\ marking # -1
  /\ ledgers' = marking + 1 /\ cursors' = Nowhere
  /\ marking' = -1 /\ marks' = marks + 1
  /\ UNCHANGED <<streams, services, launches>>

Next ==
  \/ add_horizon_services_and_start_all \/ _handle_signal \/ stop_all \/ Exit \/ Kill
  \/ \E s \in Service : start(s) \/ _shutdown(s) \/ Stopped(s)
  \/ \E st \in Stream : Advance(st) \/ Retry(st) \/ Finish(st)
  \/ load \/ save

Spec == Init /\ [][Next]_vars

(* The event loop runs what is ready: a started process's services start,  *)
(* an event that is set wakes its waiter, a cancelled task ends.           *)
Fairness ==
  /\ WF_vars(Multi \in shutdown /\ stop_all) /\ WF_vars(Exit)
  /\ \A s \in Service : WF_vars(start(s)) /\ WF_vars(_shutdown(s)) /\ WF_vars(Stopped(s))
  /\ \A st \in Stream : WF_vars(status[Owner(st)] = "stopping" /\ Finish(st))

FairSpec == Spec /\ Fairness

(***************************************************************************)
(* Properties.                                                             *)
(***************************************************************************)

(* However often managers overwrite one another's entries with the copies  *)
(* they loaded at their start, neither a copy nor the file is ever ahead   *)
(* of the stream: an outdated cursor replays records, it skips none.       *)
StaleIsSafe ==
  \A st \in Stream :
    cursors[st] <= reached[st] /\ \A s \in Service : caches[s][st] <= reached[st]

(* A service that has shut down has saved where its streams stood          *)
(* (enhanced_service.py:103-105 for every task that gather awaited).       *)
StoppedServiceSaved ==
  \A st \in Stream :
    status[Owner(st)] = "stopped" /\ cursor[st] # 0 => caches[Owner(st)][st] = cursor[st]

(* A service whose shutdown event is set comes to a stop, with all its     *)
(* streams, unless the process is killed first.                            *)
SignalledServiceStops ==
  \A s \in Service : s \in shutdown ~> (status[s] = "stopped" \/ process = "down")

(* stop_all ends the whole process, whichever streams are under way.       *)
StopAllCompletes == process = "stopping" ~> process \in {"exited", "down"}
=============================================================================
