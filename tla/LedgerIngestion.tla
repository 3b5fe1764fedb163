--------------------------- MODULE LedgerIngestion ---------------------------
(***************************************************************************)
(* Ledger ingestion: IngestionService (ingestion/service.py) driving the   *)
(* StateStore (ingestion/state.py).                                        *)
(*                                                                         *)
(* One ingestion process walks a range of ledgers.  Every ledger that is   *)
(* not in the processed set is fetched and processed, recorded in the      *)
(* in-memory IngestionState, and the state is written to disk once per     *)
(* BatchSize recorded ledgers and once more when the generator ends.  The  *)
(* process may crash between any two steps; fetching, processing and       *)
(* saving may raise.                                                       *)
(*                                                                         *)
(* A ledger payload is abstracted away; only the fact that process_fn ran  *)
(* to completion for a ledger is kept (effects).  The processed set is a   *)
(* set here; LedgerRangeSet.tla shows that its interval representation     *)
(* behaves as one.                                                         *)
(***************************************************************************)
EXTENDS Integers, FiniteSets

CONSTANTS
  MaxLedger,  (* Bound: the highest ledger id upstream ever closes.        *)
  BatchSize,  (* batch_size: recorded ledgers per write of the state file. *)
  ChunkSize,  (* chunk_size of ingest_backfill_chunked.                    *)
  Calls,      (* The entry points this deployment uses.                    *)
  MaxFaults   (* Bound: crashes and raised exceptions in a behaviour.      *)

Ledger == 0 .. MaxLedger

\* ingest, ingest with end_ledger only, ingest with no bounds, ingest_stream
\* driven by the caller, ingest_incremental, ingest_backfill_chunked.
CallKinds == {"range", "upto", "next", "stream", "incremental", "chunked"}

ASSUME ConstantsAssumption ==
  /\ MaxLedger \in Nat
  /\ BatchSize \in Nat \ {0}
  /\ ChunkSize \in Nat \ {0}
  /\ MaxFaults \in Nat
  /\ Calls \subseteq CallKinds

VARIABLES
  file,     (* The IngestionState on disk.                                 *)
  mem,      (* The IngestionState the running generator holds.             *)
  pc,       (* Where the generator stands.                                 *)
  cur,      (* ledger_id of the loop.                                      *)
  stop,     (* end_ledger of the running generator.                        *)
  pending,  (* pending_flush.                                              *)
  call,     (* The last call: its kind, its range, whether it met errors.  *)
  outcome,  (* How the last call ended, or "running".                      *)
  head,     (* Newest ledger available upstream.                           *)
  effects,  (* History: times process_fn completed, per ledger.            *)
  errors,   (* History: exceptions raised by fetch, process or a save.     *)
  losses    (* History: crashes, and final saves that raised.              *)

vars == <<file, mem, pc, cur, stop, pending, call, outcome, head,
          effects, errors, losses>>

-----------------------------------------------------------------------------
(* IngestionState.  A last_processed_ledger of None is represented by -1.  *)

NoLedger == -1

State == [last : Ledger \cup {NoLedger}, done : SUBSET Ledger]

EmptyState == [last |-> NoLedger, done |-> {}]

Larger(a, b) == IF a >= b THEN a ELSE b
Smaller(a, b) == IF a <= b THEN a ELSE b

RecordProcessed(s, l) ==
  [last |-> IF s.last = NoLedger THEN l ELSE Larger(s.last, l),
   done |-> s.done \cup {l}]

-----------------------------------------------------------------------------
Init ==
  /\ file = EmptyState
  /\ mem = EmptyState
  /\ pc = "idle"
  /\ cur = 0
  /\ stop = 0
  /\ pending = 0
  /\ call = [kind |-> "range", lo |-> 0, hi |-> 0, bad |-> FALSE]
  /\ outcome = "none"
  /\ head = 0
  /\ effects = [l \in Ledger |-> 0]
  /\ errors = 0
  /\ losses = 0

MayFault == errors + losses < MaxFaults

-----------------------------------------------------------------------------
(* The entry points.  Each loads the state file and starts a generator.    *)

\* Begin a generator over lo..to for a call over lo..hi.
Start(kind, lo, hi, to) ==
  /\ mem' = file
  /\ pc' = "next"
  /\ cur' = lo
  /\ stop' = to
  /\ pending' = 0
  /\ call' = [kind |-> kind, lo |-> lo, hi |-> hi, bad |-> FALSE]
  /\ outcome' = "running"
  /\ UNCHANGED <<file, head, effects, errors, losses>>

\* A call that returns, or raises, before it attempts any ledger.
Return(kind, lo, hi, how) ==
  /\ call' = [kind |-> kind, lo |-> lo, hi |-> hi, bad |-> (how = "errors")]
  /\ outcome' = how
  /\ UNCHANGED <<file, mem, pc, cur, stop, pending, head, effects, errors, losses>>

\* An explicit range; an inverted one raises ValueError.
CallRange(kind, lo, hi) ==
  IF hi < lo THEN Return(kind, lo, hi, "errors") ELSE Start(kind, lo, hi, hi)

\* ingest(start_ledger, end_ledger) and ingest_stream(start_ledger, end_ledger).
Ingest(lo, hi) ==
  /\ pc = "idle"
  /\ "range" \in Calls
  /\ CallRange("range", lo, hi)

IngestStream(lo, hi) ==
  /\ pc = "idle"
  /\ "stream" \in Calls
  /\ CallRange("stream", lo, hi)

\* ingest(end_ledger = hi): resumes after the watermark, if there is one.
IngestUpTo(hi) ==
  /\ pc = "idle"
  /\ "upto" \in Calls
  /\ IF file.last = NoLedger
     THEN Return("upto", 0, hi, "empty")
     ELSE CallRange("upto", file.last + 1, hi)

\* ingest() with no bounds: the ledger after the watermark, if there is one.
IngestNext ==
  /\ pc = "idle"
  /\ "next" \in Calls
  /\ file.last < MaxLedger
  /\ IF file.last = NoLedger
     THEN Return("next", 0, 0, "empty")
     ELSE Start("next", file.last + 1, file.last + 1, file.last + 1)

\* Faulty variants (names in Bug) are slips the code could contain; they are
\* kept to show that a property notices them.
\* The newest ledger counts as already ingested.
IngestIncrementalBug(cap, from) ==
  LET start == IF file.last = NoLedger THEN from ELSE file.last + 1
      end   == Smaller(head, start + cap - 1)
  IN  /\ pc = "idle"
      /\ "incremental" \in Calls
      /\ IF start >= head
         THEN Return("incremental", start, head, "empty")
         ELSE Start("incremental", start, end, end)

\* ingest_incremental(max_ledgers = cap, start_from = from): a cap above
\* MaxLedger stands for no cap, and from = head for start_from = None.
IngestIncremental(cap, from) ==
  LET start == IF file.last = NoLedger THEN from ELSE file.last + 1
      end   == Smaller(head, start + cap - 1)
  IN  /\ pc = "idle"
      /\ "incremental" \in Calls
      /\ IF start > head
         THEN Return("incremental", start, head, "empty")
         ELSE Start("incremental", start, end, end)

\* latest_ledger_fn returned None.
IngestHeadUnknown ==
  /\ pc = "idle"
  /\ "incremental" \in Calls
  /\ Return("incremental", 0, 0, "empty")

BackfillChunked(lo, hi) ==
  /\ pc = "idle"
  /\ "chunked" \in Calls
  /\ IF hi < lo
     THEN Return("chunked", lo, hi, "errors")
     ELSE Start("chunked", lo, hi, Smaller(lo + ChunkSize - 1, hi))

-----------------------------------------------------------------------------
(* The loop of ingest_stream.                                              *)

\* The ledger is already recorded: yield it as skipped.
Skip ==
  /\ pc = "next" /\ cur <= stop /\ cur \in mem.done
  /\ pc' = "yield"
  /\ UNCHANGED <<file, mem, cur, stop, pending, call, outcome, head, effects,
                 errors, losses>>

\* fetch and process return.
Process ==
  /\ pc = "next" /\ cur <= stop /\ cur \notin mem.done
  /\ effects' = [effects EXCEPT ![cur] = @ + 1]
  /\ pc' = "record"
  /\ UNCHANGED <<file, mem, cur, stop, pending, call, outcome, head, errors, losses>>

\* The exception is swallowed and the ledger recorded all the same.
ProcessRaisesBug ==
  /\ pc = "next" /\ cur <= stop /\ cur \notin mem.done
  /\ MayFault
  /\ errors' = errors + 1
  /\ pc' = "record"
  /\ UNCHANGED <<file, mem, cur, stop, pending, call, outcome, head, effects, losses>>

\* The exception is swallowed and the loop goes on with the next ledger.
ProcessRaisesBug2 ==
  /\ pc = "next" /\ cur <= stop /\ cur \notin mem.done
  /\ MayFault
  /\ errors' = errors + 1
  /\ pc' = "yield"
  /\ UNCHANGED <<file, mem, cur, stop, pending, call, outcome, head, effects, losses>>

\* fetch or process raises: the exception leaves the loop.
ProcessRaises ==
  /\ pc = "next" /\ cur <= stop /\ cur \notin mem.done
  /\ MayFault
  /\ errors' = errors + 1
  /\ call' = [call EXCEPT !.bad = TRUE]
  /\ pc' = "finally"
  /\ UNCHANGED <<file, mem, cur, stop, pending, outcome, head, effects, losses>>

\* The batch is one ledger too long.
RecordBug ==
  /\ pc = "record"
  /\ mem' = RecordProcessed(mem, cur)
  /\ pending' = pending + 1
  /\ pc' = IF pending + 1 > BatchSize THEN "save" ELSE "yield"
  /\ UNCHANGED <<file, cur, stop, call, outcome, head, effects, errors, losses>>

Record ==
  /\ pc = "record"
  /\ mem' = RecordProcessed(mem, cur)
  /\ pending' = pending + 1
  /\ pc' = IF pending + 1 >= BatchSize THEN "save" ELSE "yield"
  /\ UNCHANGED <<file, cur, stop, call, outcome, head, effects, errors, losses>>

\* StateStore.save: the temporary file replaces the state file atomically.
Save ==
  /\ pc = "save"
  /\ file' = mem
  /\ pending' = 0
  /\ pc' = "yield"
  /\ UNCHANGED <<mem, cur, stop, call, outcome, head, effects, errors, losses>>

\* The write raises before os.replace: the finally clause tries once more.
SaveRaises ==
  /\ pc = "save"
  /\ MayFault
  /\ errors' = errors + 1
  /\ call' = [call EXCEPT !.bad = TRUE]
  /\ pc' = "finally"
  /\ UNCHANGED <<file, mem, cur, stop, pending, outcome, head, effects, losses>>

\* The consumer asks for the next ledger.
Advance ==
  /\ pc = "yield"
  /\ cur' = cur + 1
  /\ pc' = "next"
  /\ UNCHANGED <<file, mem, stop, pending, call, outcome, head, effects, errors, losses>>

\* A caller driving ingest_stream stops iterating: GeneratorExit.
Abandon ==
  /\ pc = "yield" /\ call.kind = "stream"
  /\ outcome' = "abandoned"
  /\ pc' = "finally"
  /\ UNCHANGED <<file, mem, cur, stop, pending, call, head, effects, errors, losses>>

Exhaust ==
  /\ pc = "next" /\ cur > stop
  /\ pc' = "finally"
  /\ UNCHANGED <<file, mem, cur, stop, pending, call, outcome, head, effects,
                 errors, losses>>

-----------------------------------------------------------------------------
(* The end of a generator, the chunks of a backfill, crashes.              *)

MoreChunks == call.kind = "chunked" /\ stop < call.hi

\* The generator is gone: the next chunk, or the end of the call.
EndStream(bad) ==
  /\ mem' = EmptyState
  /\ pending' = 0
  /\ call' = [call EXCEPT !.bad = bad]
  /\ IF MoreChunks
     THEN pc' = "chunk" /\ UNCHANGED outcome
     ELSE /\ pc' = "idle"
          /\ outcome' = IF outcome = "abandoned" THEN outcome
                        ELSE IF bad THEN "errors" ELSE "done"
  /\ UNCHANGED <<cur, stop, head, effects, errors>>

\* The trailing partial batch is not written.
FinishBug ==
  /\ pc = "finally"
  /\ EndStream(call.bad)
  /\ UNCHANGED <<file, losses>>

\* finally: write what has not been written.
Finish ==
  /\ pc = "finally"
  /\ file' = IF pending > 0 THEN mem ELSE file
  /\ EndStream(call.bad)
  /\ UNCHANGED losses

FinishRaises ==
  /\ pc = "finally" /\ pending > 0
  /\ MayFault
  /\ losses' = losses + 1
  /\ EndStream(TRUE)
  /\ UNCHANGED file

\* The next chunk runs whether or not the last one failed; each one loads
\* the state file anew.
NextChunk ==
  /\ pc = "chunk"
  /\ mem' = file
  /\ cur' = stop + 1
  /\ stop' = Smaller(stop + ChunkSize, call.hi)
  /\ pc' = "next"
  /\ UNCHANGED <<file, pending, call, outcome, head, effects, errors, losses>>

\* The consumer of the per-chunk summaries stops iterating.
AbandonBackfill ==
  /\ pc = "chunk"
  /\ pc' = "idle"
  /\ outcome' = "abandoned"
  /\ UNCHANGED <<file, mem, cur, stop, pending, call, head, effects, errors, losses>>

Crash ==
  /\ pc # "idle"
  /\ MayFault
  /\ losses' = losses + 1
  /\ mem' = EmptyState
  /\ pending' = 0
  /\ pc' = "idle"
  /\ outcome' = "crashed"
  /\ UNCHANGED <<file, cur, stop, call, head, effects, errors>>

\* Upstream closes a ledger.
HeadAdvances ==
  /\ head < MaxLedger
  /\ head' = head + 1
  /\ UNCHANGED <<file, mem, pc, cur, stop, pending, call, outcome, effects,
                 errors, losses>>

-----------------------------------------------------------------------------
Incremental == \E cap \in 1 .. MaxLedger + 1, from \in Ledger :
                 IngestIncremental(cap, from)

CallStep ==
  \/ \E lo, hi \in Ledger : Ingest(lo, hi) \/ IngestStream(lo, hi)
                            \/ BackfillChunked(lo, hi)
  \/ \E hi \in Ledger : IngestUpTo(hi)
  \/ IngestNext
  \/ Incremental
  \/ IngestHeadUnknown

\* What the process does by itself once a call is running.
Progress == Skip \/ Process \/ Record \/ Save \/ Advance \/ Exhaust \/ Finish
            \/ NextChunk

Fault == ProcessRaises \/ SaveRaises \/ FinishRaises \/ Crash

Next == CallStep \/ Progress \/ Fault \/ Abandon \/ AbandonBackfill \/ HeadAdvances

Spec == Init /\ [][Next]_vars

\* A running call keeps running, and a scheduler calls ingest_incremental
\* again and again ("a scheduled run", service.py).
FairSpec == Spec /\ WF_vars(Progress) /\ WF_vars(Incremental)

-----------------------------------------------------------------------------
(* Properties.                                                             *)

\* Types, and pending_flush never exceeds batch_size.
TypeOK ==
  /\ file \in State
  /\ mem \in State
  /\ pc \in {"idle", "next", "record", "save", "yield", "finally", "chunk"}
  /\ cur \in Nat
  /\ stop \in Ledger
  /\ pending \in 0 .. BatchSize
  /\ call \in [kind : CallKinds, lo : Nat, hi : Ledger, bad : BOOLEAN]
  /\ outcome \in {"none", "running", "empty", "errors", "abandoned", "crashed", "done"}
  /\ head \in Ledger
  /\ effects \in [Ledger -> Nat]
  /\ errors \in Nat
  /\ losses \in Nat

\* A ledger is recorded, in memory or on disk, only after process_fn completed
\* for it: no crash, failed batch or resumed run records an unprocessed ledger.
RecordedWasProcessed ==
  \A l \in file.done \cup mem.done : effects[l] >= 1

IsWatermark(s) ==
  IF s.done = {} THEN s.last = NoLedger
  ELSE s.last \in s.done /\ \A l \in s.done : l <= s.last

\* last_processed_ledger, from which every resumption starts, is the greatest
\* processed ledger, in whatever order ranges were ingested (record_processed).
WatermarkIsMax == IsWatermark(file) /\ IsWatermark(mem)

\* The ledgers a crash now would make the next run process again.
Unrecorded ==
  (mem.done \ file.done) \cup (IF pc = "record" THEN {cur} ELSE {})

\* A crash never costs more than batch_size ledgers of reprocessing.
UnrecordedBounded == Cardinality(Unrecorded) <= BatchSize

\* process_fn runs again for a ledger only if a crash or a failed final save
\* lost the record of it: otherwise ingestion is exactly-once, across calls.
ReprocessedOnlyAfterLoss == \A l \in Ledger : effects[l] <= 1 + losses

\* A call that reports no errors leaves its whole range on disk, the trailing
\* partial batch and the ledgers of every chunk included.
CompletedRangeIsDurable ==
  outcome = "done" => call.lo .. call.hi \subseteq file.done

\* With ingest_incremental (and the next-ledger default) only, failures and
\* crashes leave no hole behind the watermark, where nothing would look again.
GapFree ==
  Calls \subseteq {"incremental", "next"} =>
    \A a, b \in file.done : a .. b \subseteq file.done

\* No step forgets a recorded ledger or moves the watermark back.
NothingForgotten ==
  [][file.done \subseteq file'.done /\ file.last <= file'.last]_vars

\* Once a watermark exists, a scheduler that keeps calling ingest_incremental
\* gets every ledger upstream closes after it recorded, faults notwithstanding.
CatchesUp ==
  \A l \in Ledger :
    (file.last # NoLedger /\ file.last < l /\ l <= head) ~> l \in file.done

\* Ingestion implements the abstract at-least-once log.
Log == INSTANCE AtLeastOnceLog
         WITH Ledger <- Ledger,
              Batches <- {S \in SUBSET Ledger : Cardinality(S) <= BatchSize},
              processed <- {l \in Ledger : effects[l] > 0},
              durable <- file.done

RefinesLog == Log!Spec
=============================================================================
