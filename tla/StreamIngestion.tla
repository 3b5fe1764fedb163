---------------------------- MODULE StreamIngestion ----------------------------
(***************************************************************************)
(* One Horizon stream as the enhanced streaming service runs it.  The task *)
(* of StreamService pages through Horizon's records                        *)
(* (EnhancedStellarStream), collects them in a BatchBuffer that commits    *)
(* them to the database a chunk at a time, and writes the stream's cursor  *)
(* to the state file only when the stream is left: after a failure, at a   *)
(* cancellation, or at the end of the run.                                 *)
(*                                                                         *)
(* Everything between two awaits of the task is one turn of the event      *)
(* loop, so a cancellation is delivered at a request or at a sleep and     *)
(* never between two records.  A crash may fall between any two steps, so  *)
(* the steps here are the ones a crash can tell apart: handing over one    *)
(* record, closing the buffer, writing the cursor.                         *)
(*                                                                         *)
(* A rate-limited request (HTTP 429) only sleeps and asks again            *)
(* (enhanced_stream.py:452-454); it changes nothing modelled here and has  *)
(* no action.                                                              *)
(***************************************************************************)
EXTENDS Integers, Sequences, FiniteSets, Functions

CONSTANTS
  MaxToken,      (* Bound: records Horizon ever has.                       *)
  BatchSize,     (* config.batch_size: records of a page.                  *)
  ChunkSize,     (* config.persist_chunk_size: records of a commit.        *)
  MaxRetries,    (* config.max_retries, of the stream and of its service.  *)
  ConfigCursor,  (* config.cursor, 0 when it is not set.                   *)
  LinkQueries,   (* Whether the text behind "cursor=" in a page's next     *)
                 (* link goes on after the token ("&limit=.."): {TRUE} for *)
                 (* Horizon's links, {FALSE} for one that ends there.      *)
  MaxFaults,     (* Bound: failures of the network, parser or database.    *)
  MaxStarts      (* Bound: starts of the process.                          *)

ASSUME StreamAssumption ==
  /\ MaxToken \in Nat \ {0} /\ BatchSize \in Nat \ {0}
  /\ ChunkSize \in Nat \ {0} /\ MaxRetries \in Nat \ {0}
  /\ ConfigCursor \in 0..MaxToken
  /\ LinkQueries \subseteq BOOLEAN /\ LinkQueries # {}
  /\ MaxFaults \in Nat /\ MaxStarts \in Nat

VARIABLES
  head,      (* Paging token of Horizon's newest record.                   *)
  stored,    (* Records in the database.                                   *)
  saved,     (* The stream's cursor in the state file.                     *)
  phase,     (* Where the stream's task stands.                            *)
  outcome,   (* Why the stream was last left.                              *)
  cursor,    (* self._cursor.                                              *)
  builder,   (* The cursor the request builder asks from.                  *)
  page,      (* Records of the current page not yet handed over.           *)
  buffer,    (* BatchBuffer._buffer.                                       *)
  retries,   (* retry_count of _stream_with_retry.                         *)
  attempts,  (* retry_count of _run_stream_with_monitoring.                *)
  lost,      (* History: records dropped by a failed parse or flush.       *)
  faults,    (* Failures so far.                                           *)
  starts     (* Starts of the process so far.                              *)

remote == <<head, stored, saved>>
reading == <<cursor, builder, page, retries>>
control == <<phase, outcome, attempts>>
counters == <<faults, starts>>
vars == <<remote, reading, control, counters, buffer, lost>>

Token == 1..MaxToken

(* The text of a cursor: a paging token, behind which the rest of a link's *)
(* query may follow.  None is the cursor that is not there.                *)
Position == [token: 0..MaxToken, query: BOOLEAN]
At(t) == [token |-> t, query |-> FALSE]
None == At(0)

Phase == {"down", "fetching", "paging", "closing", "saving", "waiting", "over"}
Outcome == {"none", "completed", "cancelled", "failed"}

TypeOK ==
  /\ head \in 0..MaxToken /\ stored \subseteq Token /\ saved \in Position
  /\ phase \in Phase /\ outcome \in Outcome
  /\ cursor \in Position /\ builder \in Position
  /\ page \in Seq(Token) /\ buffer \in Seq(Token)
  /\ retries \in 0..MaxRetries /\ attempts \in 0..MaxRetries
  /\ lost \subseteq Token /\ faults \in 0..MaxFaults /\ starts \in 0..MaxStarts

Init ==
  /\ head = 0 /\ stored = {} /\ saved = None /\ phase = "down" /\ outcome = "none"
  /\ cursor = None /\ builder = None /\ page = <<>> /\ buffer = <<>>
  /\ retries = 0 /\ attempts = 0 /\ lost = {} /\ faults = 0 /\ starts = 0

Fault == faults < MaxFaults /\ faults' = faults + 1 /\ UNCHANGED starts

(***************************************************************************)
(* Horizon: records appear in the order of their paging tokens.            *)
(***************************************************************************)
Publish ==
  /\ head < MaxToken
  /\ head' = head + 1
  /\ UNCHANGED <<stored, saved, reading, control, counters, buffer, lost>>

(***************************************************************************)
(* StreamService.start in a new process: the saved cursor is used unless   *)
(* the configuration names one; the first request asks from it.            *)
(***************************************************************************)
start ==
  /\ phase \in {"down", "over"} /\ starts < MaxStarts
  /\ cursor' = IF saved # None /\ ConfigCursor = 0 THEN saved ELSE At(ConfigCursor)
  /\ builder' = cursor'
  /\ phase' = "fetching" /\ outcome' = "none" /\ attempts' = 0
  /\ page' = <<>> /\ buffer' = <<>> /\ retries' = 0
  /\ starts' = starts + 1
  /\ UNCHANGED <<remote, lost, faults>>

(***************************************************************************)
(* _stream_with_retry.  A page is the next batch_size records behind the   *)
(* builder's cursor.  An answer, even an empty one, resets retry_count.    *)
(***************************************************************************)
Remaining == head - builder.token
Page == [i \in 1..(IF Remaining < BatchSize THEN Remaining ELSE BatchSize)
          |-> builder.token + i]

FetchPage ==
  /\ phase = "fetching" /\ ~builder.query /\ Remaining > 0
  /\ page' = Page /\ retries' = 0 /\ phase' = "paging"
  /\ UNCHANGED <<remote, cursor, builder, outcome, attempts, counters, buffer, lost>>

FetchNothing ==
  /\ phase = "fetching" /\ ~builder.query /\ Remaining <= 0
  /\ retries' = 0
  /\ UNCHANGED <<remote, cursor, builder, page, control, counters, buffer, lost>>

(* The stream is left: __aexit__ and the service's bookkeeping follow.     *)
Leave(why) == phase' = "closing" /\ outcome' = why /\ UNCHANGED attempts

(* A failure counts; at the limit the stream is left.                      *)
Retry(why) ==
  /\ retries' = retries + 1
  /\ IF retries' < MaxRetries THEN UNCHANGED control ELSE Leave(why)
  /\ UNCHANGED <<remote, cursor, builder, page, buffer, lost>>

(* Connection errors and what Horizon answers with an error go the same    *)
(* way: when the retries are used up the loop just ends, and run() returns *)
(* as if it had succeeded.                                                 *)
FetchBroken == phase = "fetching" /\ Fault /\ Retry("completed")

(* Mutant: the retry is not counted, as it is not for HTTP 429.            *)
FetchRefusedBug ==
  /\ phase = "fetching" /\ builder.query
  /\ UNCHANGED vars

(* A cursor with the rest of a query behind it is no paging token: Horizon *)
(* refuses the request (HTTP 400), every time.                             *)
FetchRefused ==
  phase = "fetching" /\ builder.query /\ Retry("completed") /\ UNCHANGED counters

(* Any other exception counts too, but at the limit it is raised.          *)
FetchRaises == phase = "fetching" /\ Fault /\ Retry("failed")

(***************************************************************************)
(* BatchBuffer.  A flush merges all buffered records and commits; if that  *)
(* raises, the finally clause still empties the buffer, so the batch is    *)
(* gone.  A merge is an upsert: storing a record twice changes nothing.    *)
(***************************************************************************)
Flushed(batch) ==
  /\ buffer' = <<>>
  /\ \/ /\ stored' = stored \cup Range(batch)
        /\ UNCHANGED <<lost, counters>>
     \/ /\ batch # <<>> /\ Fault
        /\ lost' = lost \cup (Range(batch) \ stored)
        /\ UNCHANGED stored

(* Mutants of add: the buffer is flushed before the record joins it, and   *)
(* one record late.                                                        *)
addFlushesFirst(r) ==
  IF Len(buffer) + 1 >= ChunkSize
  THEN Flushed(buffer)
  ELSE buffer' = Append(buffer, r) /\ UNCHANGED <<stored, lost, counters>>

addFlushesLate(r) ==
  LET filled == Append(buffer, r)
  IN  IF Len(filled) > ChunkSize
      THEN Flushed(filled)
      ELSE buffer' = filled /\ UNCHANGED <<stored, lost, counters>>

add(r) ==
  LET filled == Append(buffer, r)
  IN  IF Len(filled) >= ChunkSize
      THEN Flushed(filled)
      ELSE buffer' = filled /\ UNCHANGED <<stored, lost, counters>>

(* _process_effect swallows what the parser and the buffer raise.          *)
_process_effect(r) ==
  \/ add(r)
  \/ /\ Fault                                       (* parse_effect raised. *)
     /\ lost' = lost \cup ({r} \ stored)
     /\ UNCHANGED <<buffer, stored>>

(* Behind a page's last record, by now the cursor, the text behind the     *)
(* last "cursor=" of the next link becomes cursor and builder, unless it   *)
(* is the cursor: then, or without a next link, the builder stays.         *)
AdvanceBuilder(last) ==
  \E q \in LinkQueries :
    LET text == [token |-> last, query |-> q]
    IN  /\ cursor' = text
        /\ builder' = IF text # At(last) THEN text ELSE builder

(* The record is handed to run(), which processes it; the cursor moves     *)
(* when the generator is resumed.                                          *)
HandOver ==
  /\ phase = "paging"
  /\ _process_effect(Head(page))
  /\ page' = Tail(page)
  /\ IF Len(page) = 1
     THEN phase' = "fetching" /\ AdvanceBuilder(Head(page))
     ELSE cursor' = At(Head(page)) /\ UNCHANGED <<phase, builder>>
  /\ UNCHANGED <<head, saved, outcome, attempts, retries>>

(***************************************************************************)
(* Shutdown: stop() makes the service cancel the task.  The cancellation   *)
(* surfaces at the request, leaves the stream through __aexit__, or at the *)
(* sleep before the next attempt, which ends the task on the spot.         *)
(***************************************************************************)
_shutdown ==
  /\ \/ phase = "fetching" /\ Leave("cancelled")
     \/ phase = "waiting" /\ phase' = "over" /\ UNCHANGED <<outcome, attempts>>
  /\ UNCHANGED <<remote, reading, counters, buffer, lost>>

(* Mutant: the buffer is discarded, not flushed.                           *)
__aexit__Discards ==
  /\ phase = "closing" /\ phase' = "saving"
  /\ buffer' = <<>>
  /\ UNCHANGED <<head, stored, saved, reading, outcome, attempts, lost, counters>>

(* __aexit__ closes the buffer, which flushes it; an error is swallowed.   *)
__aexit__ ==
  /\ phase = "closing" /\ phase' = "saving"
  /\ Flushed(buffer)
  /\ UNCHANGED <<head, saved, reading, outcome, attempts>>

(* _run_stream_with_monitoring saves the cursor, if there is one; after a  *)
(* failure it sleeps before the next attempt, unless that was the last.    *)
save_cursor ==
  /\ phase = "saving"
  /\ saved' = IF cursor = None THEN saved ELSE cursor
  /\ attempts' = IF outcome = "failed" THEN attempts + 1 ELSE attempts
  /\ phase' = IF outcome = "failed" /\ attempts' < MaxRetries THEN "waiting" ELSE "over"
  /\ UNCHANGED <<head, stored, reading, outcome, counters, buffer, lost>>

(* Mutant: the requests start over.                                        *)
ReenterBug ==
  /\ phase = "waiting" /\ phase' = "fetching"
  /\ builder' = At(ConfigCursor) /\ retries' = 0
  /\ UNCHANGED <<remote, cursor, page, outcome, attempts, counters, buffer, lost>>

(* The next attempt: __aenter__ makes a new buffer, and the requests start *)
(* from the cursor.                                                        *)
Reenter ==
  /\ phase = "waiting" /\ phase' = "fetching"
  /\ builder' = cursor /\ retries' = 0
  /\ UNCHANGED <<remote, cursor, page, outcome, attempts, counters, buffer, lost>>

(* The process dies: only the database and the state file survive.         *)
Crash ==
  /\ phase \notin {"down", "over"} /\ starts < MaxStarts
  /\ phase' = "down" /\ outcome' = "none" /\ attempts' = 0
  /\ cursor' = None /\ builder' = None /\ page' = <<>> /\ retries' = 0 /\ buffer' = <<>>
  /\ UNCHANGED <<remote, counters, lost>>

Next ==
  \/ Publish \/ start \/ FetchPage \/ FetchNothing \/ FetchBroken \/ FetchRefused
  \/ FetchRaises \/ HandOver \/ _shutdown \/ __aexit__ \/ save_cursor \/ Reenter \/ Crash

Spec == Init /\ [][Next]_vars

(* A started task runs on, a request is eventually answered, and a process *)
(* that died is started again (a restart policy, not this code); nothing   *)
(* is assumed of Horizon's growth, of faults, shutdowns or crashes.        *)
Fairness ==
  /\ WF_vars(FetchPage) /\ WF_vars(FetchRefused) /\ WF_vars(HandOver) /\ WF_vars(__aexit__)
  /\ WF_vars(save_cursor) /\ WF_vars(Reenter) /\ WF_vars(phase = "down" /\ start)

FairSpec == Spec /\ Fairness

(***************************************************************************)
(* Properties.                                                             *)
(***************************************************************************)
Handled == stored \cup lost \cup Range(buffer)

(* No record is skipped in memory: everything up to the cursor's token is  *)
(* in the database, in the buffer, or was dropped by a failure.  The       *)
(* cursor is moved apart from the buffer (enhanced_stream.py:418-419 and   *)
(* 511-523), and the exit handler empties the buffer (231).                *)
CursorAccountsForRecords == (ConfigCursor + 1)..cursor.token \subseteq Handled

(* The cursor in the state file never runs ahead of the database: a start  *)
(* that trusts it misses no record except those a failure dropped.  It     *)
(* rests on closing the buffer before saving (enhanced_service.py:73-105). *)
SavedIsAccountedFor == (ConfigCursor + 1)..saved.token \subseteq stored \cup lost

(* Requests are never ahead of the cursor and at most a page behind it,    *)
(* and the record handed over next is no further than the one behind it:   *)
(* where a next link leaves the builder (enhanced_stream.py:447), that     *)
(* page is asked for again, and no more than it.                           *)
RequestsFollowCursor ==
  /\ phase = "fetching" =>
       builder.token \in (cursor.token - BatchSize)..cursor.token
  /\ phase = "paging" =>
       Head(page) \in (cursor.token - BatchSize + 1)..(cursor.token + 1)

(* A failure costs at most one chunk of records (batch.py:112-118).        *)
LossPerFailureBounded == Cardinality(lost) <= ChunkSize * faults

(* Within one process the cursor falls back by less than a page: what is   *)
(* delivered again is the page that was asked for again, through all       *)
(* retries of the stream and attempts of the service.                      *)
ReplayBounded ==
  [][phase' # "down" /\ starts' = starts =>
       cursor'.token > cursor.token - BatchSize]_vars

(* A stream without a configured cursor never saves a position behind the  *)
(* one in the file.  Cursor and requests may fall back to the start of a   *)
(* page in between, but a stream is left only between two pages            *)
(* (enhanced_service.py:73-105, enhanced_stream.py:414-449).               *)
SavedNeverRegresses == [][ConfigCursor = 0 => saved'.token >= saved.token]_vars

(* A cursor that was saved with the rest of a link's query is the last     *)
(* one: every start loads it, no record is stored again and none saved     *)
(* over it (enhanced_stream.py:446-449, enhanced_service.py:46-49).        *)
StuckForGood ==
  [][ConfigCursor = 0 /\ saved.query => saved' = saved /\ stored' = stored]_vars

(* A stream whose requests Horizon refuses does not ask for ever: the      *)
(* stream's retries and the service's attempts run out, whatever failures, *)
(* and retries that reset a count, come in between                         *)
(* (enhanced_stream.py:368-370 and 451-458, enhanced_service.py:66-90).    *)
RefusedStreamEnds ==
  (phase = "fetching" /\ builder.query) ~> phase \in {"over", "down"}

(* Documented, not so: "Automatic cursor saving for resume capability"     *)
(* (README_enhanced_streaming.md:17): a start that finds a saved cursor    *)
(* asks for the records behind it.  What is saved behind a page with       *)
(* Horizon's next link is no cursor that Horizon takes.                    *)
SavedCanBeResumed == [][start /\ saved # None => ~builder'.query]_vars

(* The service implements the promise of ResumableStream.                  *)
Promise == INSTANCE ResumableStream
  WITH saved <- saved.token, First <- ConfigCursor, Last <- MaxToken,
       Chunks <- {S \in SUBSET Token : Cardinality(S) <= ChunkSize}
KeepsPromise == Promise!Spec
=============================================================================
