---------------------- MODULE MultiHorizonService_proofs ----------------------
(***************************************************************************)
(* That the cursors in the shared file are never ahead of their streams,   *)
(* and that a service that has stopped has saved where its streams stood,  *)
(* for any number of services, stream types, records and launches.         *)
(*                                                                         *)
(* A cursor can come back from the file by way of a manager's copy, so the *)
(* first needs file, copies and cursors bounded together.  The second is   *)
(* carried by the tasks: a task that is done has saved, and a service has  *)
(* stopped only when its tasks are done.                                   *)
(***************************************************************************)
EXTENDS MultiHorizonService, TLAPS

\* A mark in progress can still be counted.
MarkInv ==
  /\ ledgers <= marks
  /\ marking # -1 => marking <= marks /\ marks < MaxMarks

\* A stream is never ahead of the furthest it got.
ReachedInv == \A st \in Stream : cursor[st] <= reached[st]

\* A task that is done has saved its cursor.
DoneInv ==
  \A st \in Stream :
    task[st] = "done" /\ cursor[st] # 0 => caches[Owner(st)][st] = cursor[st]

\* The tasks of a service that has stopped are done.
StoppedInv ==
  \A st \in Stream : status[Owner(st)] = "stopped" => task[st] = "done"

IInv ==
  /\ TypeOK /\ MarkInv /\ ReachedInv /\ StaleIsSafe /\ DoneInv /\ StoppedInv

-----------------------------------------------------------------------------
\* Every stream is owned by one of the services.
LEMMA OwnerIsService == \A st \in Stream : Owner(st) \in Service
BY DEF Stream, Owner

\* Nowhere is a position.
LEMMA NowhereIsPosition ==
  Nowhere \in Position /\ \A st \in Stream : Nowhere[st] = 0
BY ServiceAssumption DEF Nowhere, Position

\* Nothing has been read or written at first.
LEMMA InitIInv == ASSUME Init PROVE IInv
<1> USE ServiceAssumption, OwnerIsService, NowhereIsPosition DEF Init
<1>1. TypeOK
  BY DEF TypeOK
<1>2. MarkInv /\ ReachedInv /\ StaleIsSafe
  BY DEF MarkInv, ReachedInv, StaleIsSafe
<1>3. DoneInv /\ StoppedInv
  BY DEF DoneInv, StoppedInv
<1> QED
  BY <1>1, <1>2, <1>3 DEF IInv

\* Saving a cursor moves one entry of one copy to where the stream stands, and
\* makes the file that copy.
LEMMA SaveCursor ==
  ASSUME IInv, NEW st \in Stream, save_cursor(st)
  PROVE  /\ cursors' \in Position /\ ledgers' \in {0, ledgers}
         /\ caches' \in [Service -> Position]
         /\ \A s \in Service, u \in Stream :
              caches'[s][u] = IF s = Owner(st) /\ u = st /\ cursor[st] # 0
                              THEN cursor[st] ELSE caches[s][u]
         /\ cursors' = cursors \/ cursors' = caches'[Owner(st)]
<1> USE OwnerIsService DEF IInv, TypeOK, Position, file
<1>1. CASE cursor[st] = 0
  BY <1>1 DEF save_cursor
<1>2. CASE cursor[st] # 0
  <2>1. /\ caches' = [caches EXCEPT ![Owner(st)] = [caches[Owner(st)] EXCEPT ![st] = cursor[st]]]
        /\ cursors' = caches'[Owner(st)] /\ ledgers' = 0
    BY <1>2 DEF save_cursor
  <2>2. [caches[Owner(st)] EXCEPT ![st] = cursor[st]] \in Position
    BY DEF Position
  <2> QED
    BY <1>2, <2>1, <2>2
<1> QED
  BY <1>1, <1>2

\* What a save keeps: the copies and the file stay behind their streams.
LEMMA SaveKeepsInv ==
  ASSUME IInv, NEW st \in Stream, save_cursor(st), UNCHANGED <<cursor, reached>>
  PROVE  StaleIsSafe' /\ ReachedInv'
<1> USE OwnerIsService, SaveCursor DEF IInv, TypeOK, Position
<1>1. \A s \in Service, u \in Stream : caches'[s][u] <= reached[u]
  BY DEF StaleIsSafe, ReachedInv
<1>2. \A u \in Stream : cursors'[u] <= reached[u]
  BY <1>1 DEF StaleIsSafe
<1>3. reached' = reached /\ cursor' = cursor
  OBVIOUS
<1>4. StaleIsSafe'
  BY <1>1, <1>2, <1>3, Zenon DEF StaleIsSafe
<1>5. ReachedInv'
  BY <1>3, Zenon DEF ReachedInv
<1> QED
  BY <1>4, <1>5

-----------------------------------------------------------------------------
(* One lemma per action that touches a cursor or a status.                 *)

\* Copies of the file and streams that have not started are as safe as the file.
LEMMA LaunchIInv ==
  ASSUME IInv, add_horizon_services_and_start_all \/ Kill PROVE IInv'
<1> USE ServiceAssumption, OwnerIsService, NowhereIsPosition
      DEF IInv, add_horizon_services_and_start_all, Kill, NotStarted, file, worker
<1>1. TypeOK'
  BY DEF TypeOK, Position
<1>2. MarkInv'
  BY DEF MarkInv
<1>3. ReachedInv' /\ StaleIsSafe'
  BY DEF ReachedInv, StaleIsSafe, TypeOK, Position
<1>4. DoneInv' /\ StoppedInv'
  BY DEF DoneInv, StoppedInv
<1> QED
  BY <1>1, <1>2, <1>3, <1>4

\* A service's streams start from its copy.
LEMMA StartIInv == ASSUME IInv, NEW s \in Service, start(s) PROVE IInv'
<1> USE ServiceAssumption, OwnerIsService DEF IInv, start, file, worker
<1>1. TypeOK'
  BY DEF TypeOK, Position
<1>2. MarkInv'
  BY DEF MarkInv
<1>3. ReachedInv' /\ StaleIsSafe'
  BY DEF ReachedInv, StaleIsSafe, TypeOK, Position
<1>4. DoneInv' /\ StoppedInv'
  BY DEF DoneInv, StoppedInv, TypeOK
<1> QED
  BY <1>1, <1>2, <1>3, <1>4

\* A stream that advances is running, so it has neither saved nor stopped.
LEMMA AdvanceIInv == ASSUME IInv, NEW st \in Stream, Advance(st) PROVE IInv'
<1> USE ServiceAssumption, OwnerIsService DEF IInv, Advance, file, services, worker
<1>1. TypeOK'
  BY DEF TypeOK, Position
<1>2. MarkInv'
  BY DEF MarkInv
<1>3. ReachedInv' /\ StaleIsSafe'
  BY DEF ReachedInv, StaleIsSafe, TypeOK, Position
<1>4. DoneInv' /\ StoppedInv'
  BY DEF DoneInv, StoppedInv, TypeOK, Position
<1> QED
  BY <1>1, <1>2, <1>3, <1>4

\* A failed attempt saves; its task is not done, and nobody else's entry moves.
LEMMA RetryIInv == ASSUME IInv, NEW st \in Stream, Retry(st) PROVE IInv'
<1> USE ServiceAssumption, OwnerIsService, SaveCursor DEF IInv, Retry, services, worker
<1>1. TypeOK'
  BY DEF TypeOK
<1>2. MarkInv'
  BY DEF MarkInv, TypeOK
<1>3. ReachedInv' /\ StaleIsSafe'
  BY SaveKeepsInv
<1>4. DoneInv' /\ StoppedInv'
  BY DEF DoneInv, StoppedInv
<1> QED
  BY <1>1, <1>2, <1>3, <1>4

\* A task that ends has just saved.
LEMMA FinishIInv == ASSUME IInv, NEW st \in Stream, Finish(st) PROVE IInv'
<1> USE ServiceAssumption, OwnerIsService, SaveCursor DEF IInv, Finish, services, worker
<1>1. TypeOK'
  BY DEF TypeOK
<1>2. MarkInv'
  BY DEF MarkInv, TypeOK
<1>3. ReachedInv' /\ StaleIsSafe'
  BY SaveKeepsInv
<1>4. DoneInv' /\ StoppedInv'
  BY DEF DoneInv, StoppedInv, TypeOK
<1> QED
  BY <1>1, <1>2, <1>3, <1>4

\* A service stops when its tasks are done.
LEMMA StoppingIInv ==
  ASSUME IInv, NEW s \in Service, _shutdown(s) \/ Stopped(s) PROVE IInv'
<1> USE ServiceAssumption, OwnerIsService
      DEF IInv, _shutdown, Stopped, file, streams, worker
<1>1. TypeOK'
  BY DEF TypeOK
<1>2. MarkInv' /\ ReachedInv' /\ StaleIsSafe' /\ DoneInv'
  BY DEF MarkInv, ReachedInv, StaleIsSafe, DoneInv
<1>3. StoppedInv'
  BY DEF StoppedInv, TypeOK
<1> QED
  BY <1>1, <1>2, <1>3

\* The ledger worker forgets every cursor, and counts a mark it could still count.
LEMMA WorkerIInv == ASSUME IInv, load \/ save PROVE IInv'
<1> USE ServiceAssumption, OwnerIsService, NowhereIsPosition
      DEF IInv, load, save, file, streams, services
<1>1. TypeOK'
  BY DEF TypeOK, MarkInv
<1>2. MarkInv'
  BY DEF MarkInv, TypeOK
<1>3. ReachedInv' /\ StaleIsSafe'
  BY DEF ReachedInv, StaleIsSafe, TypeOK, Position
<1>4. DoneInv' /\ StoppedInv'
  BY DEF DoneInv, StoppedInv
<1> QED
  BY <1>1, <1>2, <1>3, <1>4

\* Signals, stop_all and the end of the process touch neither cursors nor tasks.
LEMMA QuietIInv ==
  ASSUME IInv, _handle_signal \/ stop_all \/ Exit \/ UNCHANGED vars PROVE IInv'
<1> USE DEF IInv, _handle_signal, stop_all, Exit, vars, file, streams, services, worker
<1>1. TypeOK'
  BY DEF TypeOK
<1>2. UNCHANGED <<file, streams, status, worker>>
  OBVIOUS
<1>3. MarkInv' /\ ReachedInv' /\ StaleIsSafe' /\ DoneInv' /\ StoppedInv'
  BY <1>2 DEF MarkInv, ReachedInv, StaleIsSafe, DoneInv, StoppedInv
<1> QED
  BY <1>1, <1>3

-----------------------------------------------------------------------------
\* The inductive invariant holds of every run.
THEOREM Invariance == Spec => []IInv
<1>1. Init => IInv
  BY InitIInv
<1>2. IInv /\ [Next]_vars => IInv'
  BY LaunchIInv, StartIInv, AdvanceIInv, RetryIInv, FinishIInv, StoppingIInv,
     WorkerIInv, QuietIInv DEF Next
<1> QED
  BY <1>1, <1>2, PTL DEF Spec

\* Every variable keeps its type, whoever overwrites the file.
THEOREM TypeCorrect == Spec => []TypeOK
<1>1. IInv => TypeOK
  BY DEF IInv
<1> QED
  BY <1>1, Invariance, PTL

\* Neither the file nor a manager's copy is ever ahead of a stream.
THEOREM StaleIsSafeHolds == Spec => []StaleIsSafe
<1>1. IInv => StaleIsSafe
  BY DEF IInv
<1> QED
  BY <1>1, Invariance, PTL

\* A service that has stopped has saved its streams' cursors.
THEOREM StoppedServiceSavedHolds == Spec => []StoppedServiceSaved
<1>1. IInv => StoppedServiceSaved
  BY DEF IInv, DoneInv, StoppedInv, StoppedServiceSaved
<1> QED
  BY <1>1, Invariance, PTL

-----------------------------------------------------------------------------
(***************************************************************************)
(* What a single stream may rely on.  furthest is the furthest position    *)
(* that the file ever had for each stream; StreamIngestion_proofs shows    *)
(* that a stream is safe as long as nobody else writes one beyond it.      *)
(***************************************************************************)
VARIABLE furthest

Further ==
  furthest' = [st \in Stream |-> IF cursors'[st] > furthest[st] THEN cursors'[st]
                                                               ELSE furthest[st]]

HistorySpec ==
  Init /\ furthest = Nowhere /\ [][Next /\ Further]_<<vars, furthest>>

\* The stream's own task saves where it stands.
SavesItself(st) == (Retry(st) \/ Finish(st)) /\ cursors'[st] = cursor[st]

\* Everybody else - the tasks of other streams and services, a launch, the ledger
\* worker - writes a position the file had before, or an older one, for a stream.
OnlyOwnersAdvance ==
  [][\A st \in Stream : SavesItself(st) \/ cursors'[st] <= furthest[st]]_<<vars, furthest>>

\* A stream starts at a position the file had.
StartsFromFile ==
  [][\A st \in Stream : start(Owner(st)) => cursor'[st] <= furthest[st]]_<<vars, furthest>>

\* What a copy holds, the file held at some time.
HistoryInv ==
  /\ furthest \in Position
  /\ \A st \in Stream :
       cursors[st] <= furthest[st] /\ \A s \in Service : caches[s][st] <= furthest[st]

\* The two of them grow together, but for the position a task saves itself.
HistoryBounds ==
  \A st \in Stream :
    /\ SavesItself(st) \/ cursors'[st] <= furthest[st]
    /\ \A s \in Service : caches'[s][st] <= furthest[st] \/ caches'[s][st] = cursors'[st]

\* A task that saves moves its own entry, and puts its service's copies of the
\* others into the file.
LEMMA SaveBounds ==
  ASSUME IInv, HistoryInv, NEW st \in Stream, Retry(st) \/ Finish(st)
  PROVE  HistoryBounds
<1>1. save_cursor(st)
  BY DEF Retry, Finish
<1>2. Owner(st) \in Service
  BY OwnerIsService
<1>3. /\ cursors' = cursors \/ cursors' = caches'[Owner(st)]
      /\ \A s \in Service, u \in Stream :
           caches'[s][u] = IF s = Owner(st) /\ u = st /\ cursor[st] # 0
                           THEN cursor[st] ELSE caches[s][u]
  BY <1>1, SaveCursor
<1>4. cursor[st] # 0 => cursors' = caches'[Owner(st)]
  BY <1>1 DEF save_cursor
<1>5. ASSUME NEW u \in Stream
      PROVE  /\ SavesItself(u) \/ cursors'[u] <= furthest[u]
             /\ \A s \in Service :
                  caches'[s][u] <= furthest[u] \/ caches'[s][u] = cursors'[u]
  <2>1. cursors[u] <= furthest[u] /\ \A s \in Service : caches[s][u] <= furthest[u]
    BY DEF HistoryInv
  <2>2. CASE u = st /\ cursor[st] # 0
    <3>1. cursors'[u] = cursor[u] /\ caches'[Owner(st)][u] = cursors'[u]
      BY <1>2, <1>3, <1>4, <2>2
    <3> QED
      BY <1>3, <2>1, <2>2, <3>1 DEF SavesItself
  <2>3. CASE ~(u = st /\ cursor[st] # 0)
    <3>1. \A s \in Service : caches'[s][u] = caches[s][u]
      BY <1>3, <2>3
    <3> QED
      BY <1>2, <1>3, <2>1, <3>1
  <2> QED
    BY <2>2, <2>3
<1> QED
  BY <1>5 DEF HistoryBounds

\* Every other step copies the file, forgets, or leaves both alone.
LEMMA NextBounds ==
  ASSUME IInv, HistoryInv, [Next]_vars
  PROVE  HistoryBounds
<1> USE ServiceAssumption, OwnerIsService, NowhereIsPosition
<1>0. furthest \in Position /\ \A st \in Stream : 0 <= furthest[st]
  BY DEF HistoryInv, Position
<1>1. CASE \E st \in Stream : Retry(st) \/ Finish(st)
  BY <1>1, SaveBounds
<1>2. CASE add_horizon_services_and_start_all
  BY <1>2
  DEF add_horizon_services_and_start_all, file, HistoryInv, HistoryBounds
<1>3. CASE Kill
  BY <1>0, <1>3 DEF Kill, file, HistoryInv, HistoryBounds
<1>4. CASE save
  BY <1>0, <1>4 DEF save, streams, HistoryInv, HistoryBounds
<1>5. CASE ~(\E st \in Stream : Retry(st) \/ Finish(st))
           /\ ~add_horizon_services_and_start_all /\ ~Kill /\ ~save
  <2>1. cursors' = cursors /\ caches' = caches
    BY <1>5
    DEF Next, _handle_signal, stop_all, Exit, start, _shutdown, Stopped, Advance, load,
        vars, file, streams
  <2> QED
    BY <2>1 DEF HistoryInv, HistoryBounds
<1> QED
  BY <1>1, <1>2, <1>3, <1>4, <1>5

\* So the copies stay behind the file's history.
LEMMA HistoryStep ==
  ASSUME IInv, HistoryInv, [Next /\ Further]_<<vars, furthest>>
  PROVE  HistoryInv'
<1>1. CASE UNCHANGED <<vars, furthest>>
  BY <1>1 DEF HistoryInv, vars, file, streams
<1>2. CASE Next /\ Further
  <2>1. HistoryBounds /\ IInv'
    BY <1>2, NextBounds, LaunchIInv, StartIInv, AdvanceIInv, RetryIInv, FinishIInv,
       StoppingIInv, WorkerIInv, QuietIInv DEF Next
  <2>2. cursors' \in Position /\ furthest \in Position /\ caches' \in [Service -> Position]
    BY <2>1 DEF IInv, TypeOK, HistoryInv
  <2>3. /\ furthest' \in Position
        /\ \A st \in Stream : cursors'[st] <= furthest'[st] /\ furthest[st] <= furthest'[st]
    BY <1>2, <2>2, ServiceAssumption DEF Further, Position
  <2> QED
    BY <2>1, <2>2, <2>3, ServiceAssumption DEF HistoryInv, HistoryBounds, Position
<1> QED
  BY <1>1, <1>2

\* The invariant with the history.
LEMMA HistoryInvariance == HistorySpec => [](IInv /\ HistoryInv)
<1>1. Init /\ furthest = Nowhere => IInv /\ HistoryInv
  BY InitIInv, NowhereIsPosition DEF Init, HistoryInv
<1>2. IInv /\ [Next /\ Further]_<<vars, furthest>> => IInv'
  <2>1. ASSUME IInv, [Next /\ Further]_<<vars, furthest>> PROVE [Next]_vars
    BY <2>1
  <2> QED
    BY <2>1, LaunchIInv, StartIInv, AdvanceIInv, RetryIInv, FinishIInv,
       StoppingIInv, WorkerIInv, QuietIInv DEF Next
<1> QED
  BY <1>1, <1>2, HistoryStep, PTL DEF HistorySpec

\* Only a stream's own task puts a position into the file that is beyond all the
\* file ever had for it: managers with outdated copies, launches and the ledger
\* worker put back older ones.  This is what SafeInSharedFile assumes of them.
THEOREM OnlyOwnersAdvanceHolds == HistorySpec => OnlyOwnersAdvance
<1>1. IInv /\ HistoryInv /\ [Next /\ Further]_<<vars, furthest>> =>
        [\A st \in Stream : SavesItself(st) \/ cursors'[st] <= furthest[st]]_<<vars, furthest>>
  BY NextBounds DEF HistoryBounds
<1> QED
  BY <1>1, HistoryInvariance, PTL DEF HistorySpec, OnlyOwnersAdvance

\* And a stream resumes from a position that was in the file.
THEOREM StartsFromFileHolds == HistorySpec => StartsFromFile
<1>1. IInv /\ HistoryInv /\ [Next /\ Further]_<<vars, furthest>> =>
        [\A st \in Stream : start(Owner(st)) => cursor'[st] <= furthest[st]]_<<vars, furthest>>
  <2> SUFFICES ASSUME IInv, HistoryInv, NEW st \in Stream, start(Owner(st))
               PROVE  cursor'[st] <= furthest[st]
    OBVIOUS
  <2>1. cursor'[st] = caches[Owner(st)][st]
    BY DEF start
  <2> QED
    BY <2>1, OwnerIsService DEF HistoryInv
<1> QED
  BY <1>1, HistoryInvariance, PTL DEF HistorySpec, StartsFromFile
=============================================================================
