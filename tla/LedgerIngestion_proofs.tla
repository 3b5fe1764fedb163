------------------------ MODULE LedgerIngestion_proofs ------------------------
(***************************************************************************)
(* Proofs about LedgerIngestion, for every number of ledgers, batch size,  *)
(* chunk size, set of entry points and number of faults.                   *)
(*                                                                         *)
(* The invariants the model checker runs are not inductive.  What makes    *)
(* them so is the relation between the three copies of the truth: the file *)
(* on disk, the state the generator holds, and the ledgers that were in    *)
(* fact processed.                                                         *)
(***************************************************************************)
EXTENDS LedgerIngestion, LedgerRangeSet, FiniteSetTheorems, WellFoundedInduction, TLAPS

Running == pc \in {"next", "record", "save", "yield", "finally"}

\* The generator's state extends the file by exactly pending ledgers; between
\* generators there is no state in memory.
MemoryInv ==
  /\ Running => /\ file.done \subseteq mem.done
                /\ Cardinality(mem.done \ file.done) = pending
  /\ ~Running => mem = EmptyState /\ pending = 0
  /\ pc \in {"next", "record", "yield"} => pending < BatchSize

\* The loop stands on a ledger of its range; the one being recorded is new.
LoopInv ==
  /\ pc \in {"record", "save", "yield"} => cur <= stop
  /\ pc = "record" => cur \notin mem.done /\ effects[cur] >= 1

Held == file.done \cup mem.done \cup (IF pc = "record" THEN {cur} ELSE {})

\* A processed ledger is held somewhere, or its record was lost.
EffectInv == \A l \in Ledger : effects[l] <= losses + (IF l \in Held THEN 1 ELSE 0)

\* How much of the requested range is in the state, for a call without errors.
Covered ==
  /\ pc \in {"next", "record"} => call.lo .. (cur - 1) \subseteq mem.done
  /\ pc \in {"save", "yield"} => call.lo .. cur \subseteq mem.done
  /\ pc = "finally" => call.lo .. stop \subseteq mem.done
  /\ pc = "chunk" => call.lo .. stop \subseteq file.done

RangeInv ==
  /\ pc # "idle" => /\ stop <= call.hi
                    /\ call.kind # "chunked" => stop = call.hi
                    /\ pc = "chunk" => call.kind = "chunked"
                    /\ call.bad = FALSE /\ outcome = "running" => Covered
                    /\ outcome \in {"running", "abandoned"}
                    /\ outcome = "abandoned" => pc = "finally" /\ call.kind = "stream"
  /\ CompletedRangeIsDurable

IInv ==
  /\ TypeOK
  /\ RecordedWasProcessed
  /\ WatermarkIsMax
  /\ MemoryInv
  /\ LoopInv
  /\ EffectInv
  /\ RangeInv

USE DEF NoLedger

\* The sets of ledgers in play are finite.
LEMMA FiniteLedgers ==
  ASSUME ConstantsAssumption
  PROVE  \A S \in SUBSET Ledger : IsFiniteSet(S)
<1>1. IsFiniteSet(Ledger)
  BY FS_Interval DEF ConstantsAssumption, Ledger
<1> QED
  BY <1>1, FS_Subset

\* A file that trails the memory by no ledger has all of them.
LEMMA NothingPending ==
  ASSUME ConstantsAssumption, TypeOK, Running, MemoryInv, pending = 0
  PROVE  mem.done = file.done
<1>1. IsFiniteSet(mem.done \ file.done)
  BY FiniteLedgers DEF TypeOK, State
<1>2. mem.done \ file.done = {}
  BY <1>1, FS_EmptySet DEF MemoryInv
<1> QED
  BY <1>2 DEF MemoryInv

\* The initial state satisfies the invariant.
LEMMA InitIInv == ConstantsAssumption /\ Init => IInv
<1> SUFFICES ASSUME ConstantsAssumption, Init PROVE IInv
  OBVIOUS
<1>1. TypeOK
  BY DEF ConstantsAssumption, Init, TypeOK, State, EmptyState, Ledger, CallKinds
<1> QED
  BY <1>1 DEF Init, IInv, RecordedWasProcessed, WatermarkIsMax, IsWatermark,
     MemoryInv, Running, LoopInv, EffectInv, Held, RangeInv, Covered,
     CompletedRangeIsDurable, EmptyState, TypeOK

-----------------------------------------------------------------------------
(* Calls.                                                                  *)

\* A call that starts a generator preserves the invariant.
LEMMA StartIInv ==
  ASSUME ConstantsAssumption, IInv, pc = "idle",
         NEW kind \in CallKinds, NEW lo \in Nat, NEW hi \in Ledger, NEW to \in Ledger,
         to <= hi, kind # "chunked" => to = hi,
         Start(kind, lo, hi, to)
  PROVE  IInv'
<1> USE DEF Start
<1>1. TypeOK'
  BY DEF IInv, TypeOK, ConstantsAssumption
<1>2. RecordedWasProcessed' /\ WatermarkIsMax'
  BY DEF IInv, RecordedWasProcessed, WatermarkIsMax, IsWatermark
<1>3. MemoryInv'
  <2>1. mem'.done \ file'.done = {}
    OBVIOUS
  <2> QED
    BY <2>1, FS_EmptySet DEF MemoryInv, Running, ConstantsAssumption
<1>4. LoopInv' /\ EffectInv'
  BY DEF IInv, LoopInv, EffectInv, Held, MemoryInv, Running, EmptyState
<1>5. RangeInv'
  BY DEF RangeInv, Covered, CompletedRangeIsDurable, Ledger, ConstantsAssumption
<1> QED
  BY <1>1, <1>2, <1>3, <1>4, <1>5 DEF IInv

\* A call that returns at once preserves the invariant.
LEMMA ReturnIInv ==
  ASSUME ConstantsAssumption, IInv, pc = "idle",
         NEW kind \in CallKinds, NEW lo \in Nat, NEW hi \in Ledger,
         NEW how \in {"empty", "errors"}, Return(kind, lo, hi, how)
  PROVE  IInv'
BY DEF IInv, Return, TypeOK, RecordedWasProcessed, WatermarkIsMax, IsWatermark,
   MemoryInv, Running, LoopInv, EffectInv, Held, RangeInv, Covered,
   CompletedRangeIsDurable

\* So does every entry point.
LEMMA CallStepIInv ==
  ASSUME ConstantsAssumption, IInv, CallStep
  PROVE  IInv'
<1> USE DEF ConstantsAssumption, Ledger
<1>0. /\ Ledger \subseteq Nat /\ 0 \in Ledger /\ head \in Ledger
      /\ file.last \in Ledger \cup {NoLedger}
      /\ CallKinds = {"range", "upto", "next", "stream", "incremental", "chunked"}
  BY DEF IInv, TypeOK, State, CallKinds
<1>1. ASSUME NEW lo \in Ledger, NEW hi \in Ledger, Ingest(lo, hi) PROVE IInv'
  BY <1>0, <1>1, StartIInv, ReturnIInv DEF Ingest, CallRange
<1>2. ASSUME NEW lo \in Ledger, NEW hi \in Ledger, IngestStream(lo, hi) PROVE IInv'
  BY <1>0, <1>2, StartIInv, ReturnIInv DEF IngestStream, CallRange
<1>3. ASSUME NEW lo \in Ledger, NEW hi \in Ledger, BackfillChunked(lo, hi) PROVE IInv'
  <2>1. CASE hi < lo
    BY <1>0, <1>3, <2>1, ReturnIInv DEF BackfillChunked
  <2>2. CASE lo <= hi
    <3>1. Smaller(lo + ChunkSize - 1, hi) \in Ledger
          /\ Smaller(lo + ChunkSize - 1, hi) <= hi
      BY <2>2 DEF Smaller
    <3> QED
      BY <1>0, <1>3, <2>2, <3>1, StartIInv DEF BackfillChunked
  <2> QED
    BY <2>1, <2>2
<1>4. ASSUME NEW hi \in Ledger, IngestUpTo(hi) PROVE IInv'
  BY <1>0, <1>4, StartIInv, ReturnIInv DEF IngestUpTo, CallRange
<1>5. ASSUME IngestNext PROVE IInv'
  BY <1>0, <1>5, StartIInv, ReturnIInv DEF IngestNext
<1>6. ASSUME Incremental PROVE IInv'
  <2> PICK cap \in 1 .. MaxLedger + 1, from \in Ledger : IngestIncremental(cap, from)
    BY <1>6 DEF Incremental
  <2> DEFINE start == IF file.last = NoLedger THEN from ELSE file.last + 1
             end == Smaller(head, start + cap - 1)
  <2>1. start \in Nat
    BY <1>0
  <2>2. CASE start > head
    BY <1>0, <2>1, <2>2, ReturnIInv DEF IngestIncremental
  <2>3. CASE start <= head
    <3>1. end \in Ledger
      BY <1>0, <2>1, <2>3 DEF Smaller
    <3>2. Start("incremental", start, end, end) /\ pc = "idle"
      BY <1>0, <2>1, <2>3 DEF IngestIncremental
    <3> HIDE DEF start, end
    <3> QED
      BY <1>0, <2>1, <3>1, <3>2, StartIInv
  <2> QED
    BY <1>0, <2>1, <2>2, <2>3
<1>7. ASSUME IngestHeadUnknown PROVE IInv'
  BY <1>0, <1>7, ReturnIInv DEF IngestHeadUnknown
<1> QED
  BY <1>1, <1>2, <1>3, <1>4, <1>5, <1>6, <1>7 DEF CallStep

-----------------------------------------------------------------------------
(* The loop.                                                               *)

\* The steps that leave both states alone.
LEMMA QuietStepIInv ==
  ASSUME ConstantsAssumption, IInv,
         Skip \/ Advance \/ Exhaust \/ Abandon \/ AbandonBackfill \/ HeadAdvances
  PROVE  IInv'
<1> USE DEF Skip, Advance, Exhaust, Abandon, AbandonBackfill, HeadAdvances
<1>1. TypeOK'
  <2>1. cur \in Nat /\ head \in 0 .. MaxLedger /\ MaxLedger \in Nat
    BY DEF IInv, TypeOK, Ledger, ConstantsAssumption
  <2>2. cur' \in {cur, cur + 1}
    OBVIOUS
  <2>3. cur' \in Nat /\ head' \in Ledger
    <3>1. head' = head \/ (head < MaxLedger /\ head' = head + 1)
      OBVIOUS
    <3> QED
      BY <2>1, <2>2, <3>1 DEF Ledger
  <2> QED
    BY <2>3 DEF IInv, TypeOK
<1>2. RecordedWasProcessed' /\ WatermarkIsMax' /\ MemoryInv' /\ LoopInv'
  BY DEF IInv, TypeOK, Ledger, ConstantsAssumption, RecordedWasProcessed,
     WatermarkIsMax, IsWatermark, MemoryInv, Running, LoopInv
<1>3. EffectInv'
  BY DEF IInv, EffectInv, Held
<1>4. RangeInv'
  <2>1. CompletedRangeIsDurable'
    BY DEF IInv, RangeInv, CompletedRangeIsDurable
  <2>2. call.lo \in Nat /\ cur \in Nat /\ stop \in Nat
    BY DEF IInv, TypeOK, Ledger, ConstantsAssumption
  <2>3. ASSUME Covered, pc # "idle", ~Abandon PROVE Covered'
    <3>1. CASE Skip
      BY <2>2, <2>3, <3>1 DEF Covered
    <3>2. CASE Advance
      BY <2>2, <2>3, <3>2 DEF Covered
    <3>3. CASE Exhaust
      BY <2>2, <2>3, <3>3 DEF Covered
    <3>4. CASE AbandonBackfill \/ HeadAdvances
      BY <2>2, <2>3, <3>4 DEF Covered
    <3> QED
      BY <2>3, <3>1, <3>2, <3>3, <3>4
  <2>4. CASE Abandon
    BY <2>1, <2>4 DEF IInv, TypeOK, RangeInv
  <2> QED
    BY <2>1, <2>3, <2>4 DEF IInv, TypeOK, RangeInv
<1> QED
  BY <1>1, <1>2, <1>3, <1>4 DEF IInv

\* An exception in the loop marks the call and leads to the finally clause.
LEMMA RaiseIInv ==
  ASSUME ConstantsAssumption, IInv, ProcessRaises \/ SaveRaises
  PROVE  IInv'
<1>1. /\ UNCHANGED <<file, mem, cur, stop, pending, outcome, head, effects, losses>>
      /\ pc \in {"next", "save"} /\ pc' = "finally" /\ errors' = errors + 1
  BY DEF ProcessRaises, SaveRaises
<1>2. /\ call' \in [kind : CallKinds, lo : Nat, hi : Ledger, bad : BOOLEAN]
      /\ call'.kind = call.kind /\ call'.hi = call.hi /\ call'.bad = TRUE
  BY DEF ProcessRaises, SaveRaises, IInv, TypeOK
<1>3. TypeOK'
  BY <1>1, <1>2 DEF IInv, TypeOK
<1>4. RecordedWasProcessed' /\ WatermarkIsMax' /\ MemoryInv' /\ LoopInv' /\ EffectInv'
  BY <1>1 DEF IInv, RecordedWasProcessed, WatermarkIsMax, IsWatermark, MemoryInv,
     Running, LoopInv, EffectInv, Held
<1>5. RangeInv'
  BY <1>1, <1>2 DEF IInv, RangeInv, CompletedRangeIsDurable
<1> QED
  BY <1>3, <1>4, <1>5 DEF IInv

\* Processing a ledger that is recorded nowhere.
LEMMA ProcessIInv ==
  ASSUME ConstantsAssumption, IInv, Process
  PROVE  IInv'
<1> USE DEF Process
<1>0. cur \in Ledger /\ cur \notin mem.done /\ cur \notin file.done
  BY DEF IInv, TypeOK, Ledger, ConstantsAssumption, MemoryInv, Running
<1>1. TypeOK'
  BY <1>0 DEF IInv, TypeOK
<1>2. RecordedWasProcessed' /\ WatermarkIsMax' /\ MemoryInv' /\ LoopInv'
  BY <1>0 DEF IInv, TypeOK, RecordedWasProcessed, State, WatermarkIsMax,
     IsWatermark, MemoryInv, Running, LoopInv
<1>3. EffectInv'
  BY <1>0 DEF IInv, TypeOK, EffectInv, Held
<1>4. RangeInv'
  BY DEF IInv, RangeInv, CompletedRangeIsDurable, Covered
<1> QED
  BY <1>1, <1>2, <1>3, <1>4 DEF IInv

\* Recording it lengthens the unwritten batch by one.
LEMMA RecordIInv ==
  ASSUME ConstantsAssumption, IInv, Record
  PROVE  IInv'
<1> USE DEF Record
<1>0. /\ cur \in Ledger /\ cur \notin mem.done /\ cur \notin file.done
      /\ mem.done \in SUBSET Ledger /\ mem.last \in Ledger \cup {NoLedger}
      /\ Ledger \subseteq Nat /\ pending < BatchSize /\ pending \in Nat
  BY DEF IInv, TypeOK, State, Ledger, ConstantsAssumption, MemoryInv, Running, LoopInv
<1>1. /\ mem'.done = mem.done \cup {cur}
      /\ mem'.last = IF mem.last = NoLedger THEN cur ELSE Larger(mem.last, cur)
      /\ mem' \in State
  BY <1>0 DEF RecordProcessed, State, Larger
<1>2. TypeOK'
  BY <1>0, <1>1 DEF IInv, TypeOK, ConstantsAssumption
<1>3. RecordedWasProcessed'
  BY <1>1 DEF IInv, RecordedWasProcessed, LoopInv
<1>4. WatermarkIsMax'
  <2>1. IsWatermark(mem) /\ IsWatermark(file)
    BY DEF IInv, WatermarkIsMax
  <2>2. CASE mem.last = NoLedger
    <3>1. mem.done = {}
      BY <1>0, <2>1, <2>2 DEF IsWatermark
    <3> QED
      BY <1>0, <1>1, <2>1, <2>2, <3>1 DEF WatermarkIsMax, IsWatermark
  <2>3. CASE mem.last # NoLedger
    <3>1. mem.last \in mem.done /\ \A l \in mem.done : l <= mem.last
      BY <1>0, <2>1, <2>3 DEF IsWatermark
    <3>2. mem.last \in Nat /\ cur \in Nat /\ mem.done \subseteq Nat
      BY <1>0, <3>1
    <3>3. mem'.last \in mem'.done /\ \A l \in mem'.done : l <= mem'.last
      BY <1>1, <2>3, <3>1, <3>2 DEF Larger
    <3> QED
      BY <1>1, <2>1, <3>3 DEF WatermarkIsMax, IsWatermark
  <2> QED
    BY <2>2, <2>3
<1>5. MemoryInv'
  <2>1. mem'.done \ file'.done = (mem.done \ file.done) \cup {cur}
    BY <1>0, <1>1
  <2>2. Cardinality(mem'.done \ file'.done) = pending + 1
    BY <1>0, <2>1, FiniteLedgers, FS_AddElement DEF IInv, MemoryInv, Running
  <2> QED
    BY <1>0, <1>1, <2>2 DEF IInv, MemoryInv, Running, ConstantsAssumption
<1>6. LoopInv'
  BY DEF IInv, LoopInv
<1>7. EffectInv'
  BY <1>1 DEF IInv, EffectInv, Held
<1>8. RangeInv'
  <2>1. Covered /\ pc = "record" => Covered'
    BY <1>0, <1>1 DEF Covered, IInv, TypeOK
  <2> QED
    BY <2>1 DEF IInv, RangeInv, CompletedRangeIsDurable
<1> QED
  BY <1>2, <1>3, <1>4, <1>5, <1>6, <1>7, <1>8 DEF IInv

\* Writing the file.
LEMMA SaveIInv ==
  ASSUME ConstantsAssumption, IInv, Save
  PROVE  IInv'
<1> USE DEF Save
<1>1. TypeOK'
  BY DEF IInv, TypeOK, ConstantsAssumption
<1>2. RecordedWasProcessed' /\ WatermarkIsMax' /\ LoopInv'
  BY DEF IInv, RecordedWasProcessed, WatermarkIsMax, IsWatermark, LoopInv
<1>3. MemoryInv'
  <2>1. mem'.done \ file'.done = {}
    OBVIOUS
  <2> QED
    BY <2>1, FS_EmptySet DEF MemoryInv, Running, ConstantsAssumption
<1>4. EffectInv'
  BY DEF IInv, EffectInv, Held, MemoryInv, Running
<1>5. RangeInv'
  BY DEF IInv, RangeInv, CompletedRangeIsDurable, Covered
<1> QED
  BY <1>1, <1>2, <1>3, <1>4, <1>5 DEF IInv

-----------------------------------------------------------------------------
(* The end of a generator.                                                 *)

\* The generator ends with or without its last batch written: nothing is lost
\* without being counted.
LEMMA EndIInv ==
  ASSUME ConstantsAssumption, IInv, Finish \/ FinishRaises
  PROVE  IInv'
<1> DEFINE written == file'.done = mem.done
<1>0. /\ EndStream(call.bad) \/ EndStream(TRUE)
      /\ pc = "finally" /\ Running
      /\ mem' = EmptyState /\ pending' = 0
      /\ UNCHANGED <<cur, stop, head, effects, errors>>
  BY DEF Finish, FinishRaises, EndStream, Running
<1>1. \/ file' = mem /\ written /\ losses' = losses
      \/ file' = file /\ written /\ losses' = losses
      \/ file' = file /\ losses' = losses + 1 /\ EndStream(TRUE)
  <2>1. CASE FinishRaises
    BY <2>1 DEF FinishRaises
  <2>2. CASE Finish /\ pending > 0
    BY <2>2 DEF Finish
  <2>3. CASE Finish /\ ~(pending > 0)
    <3>1. pending = 0
      BY <2>3 DEF IInv, TypeOK, ConstantsAssumption
    <3> QED
      BY <1>0, <2>3, <3>1, NothingPending DEF Finish, IInv
  <2> QED
    BY <2>1, <2>2, <2>3
<1>2. /\ file' \in {file, mem}
      /\ \/ written /\ losses' = losses
         \/ losses' = losses + 1
  BY <1>1
<1>3. TypeOK'
  <2>1. EmptyState \in State
    BY DEF EmptyState, State
  <2>2. /\ pc' \in {"chunk", "idle"}
        /\ outcome' \in {"none", "running", "empty", "errors", "abandoned", "crashed", "done"}
        /\ call' \in [kind : CallKinds, lo : Nat, hi : Ledger, bad : BOOLEAN]
    BY <1>0 DEF EndStream, IInv, TypeOK
  <2>3. /\ file' \in State /\ losses' \in Nat /\ mem' \in State
        /\ pending' \in 0 .. BatchSize
    BY <1>0, <1>2, <2>1 DEF IInv, TypeOK, ConstantsAssumption
  <2> QED
    BY <1>0, <2>2, <2>3 DEF IInv, TypeOK
<1>4. RecordedWasProcessed' /\ WatermarkIsMax'
  BY <1>0, <1>2 DEF IInv, RecordedWasProcessed, WatermarkIsMax, IsWatermark, EmptyState
<1>5. MemoryInv' /\ LoopInv'
  BY <1>0 DEF EndStream, MemoryInv, LoopInv, Running
<1>6. EffectInv'
  <2>1. Held = mem.done
    BY <1>0 DEF IInv, MemoryInv, Held
  <2>2. Held' = file'.done
    BY <1>0 DEF EndStream, Held, EmptyState
  <2>3. \A l \in Ledger : effects[l] \in Nat /\ losses \in Nat
    BY DEF IInv, TypeOK
  <2>4. \A l \in Ledger : effects[l] <= losses + (IF l \in mem.done THEN 1 ELSE 0)
    BY <2>1 DEF IInv, EffectInv
  <2>5. ASSUME NEW l \in Ledger
        PROVE  effects[l] <= losses' + (IF l \in file'.done THEN 1 ELSE 0)
    BY <1>2, <2>3, <2>4
  <2> QED
    BY <1>0, <2>2, <2>5 DEF EffectInv
<1>7. RangeInv'
  <2>1. call'.lo = call.lo /\ call'.hi = call.hi /\ call'.kind = call.kind
    BY <1>0 DEF EndStream, IInv, TypeOK
  <2>2. ASSUME call'.bad = FALSE, outcome = "running"
        PROVE  call.lo .. stop \subseteq file'.done
    <3>1. EndStream(call.bad) /\ call.bad = FALSE /\ written
      BY <1>0, <1>1, <2>2 DEF EndStream, IInv, TypeOK
    <3> QED
      BY <1>0, <2>2, <3>1 DEF IInv, RangeInv, Covered
  <2>3. CASE MoreChunks
    <3>1. pc' = "chunk" /\ outcome' = outcome /\ stop' = stop
      BY <1>0, <2>3 DEF EndStream
    <3>2. outcome # "abandoned" /\ call.kind = "chunked"
      BY <1>0, <2>3 DEF MoreChunks, IInv, RangeInv
    <3> QED
      BY <1>0, <2>1, <2>2, <3>1, <3>2 DEF IInv, RangeInv, Covered, CompletedRangeIsDurable
  <2>4. CASE ~MoreChunks
    <3>1. pc' = "idle" /\ (outcome' = "done" => outcome = "running" /\ call'.bad = FALSE)
      BY <1>0, <2>4 DEF EndStream, IInv, RangeInv, TypeOK
    <3>2. stop = call.hi
      BY <1>0, <2>4 DEF MoreChunks, IInv, RangeInv, TypeOK, Ledger, ConstantsAssumption
    <3> QED
      BY <2>1, <2>2, <3>1, <3>2 DEF RangeInv, CompletedRangeIsDurable
  <2> QED
    BY <2>3, <2>4
<1> QED
  BY <1>3, <1>4, <1>5, <1>6, <1>7 DEF IInv

\* The next chunk starts from the file.
LEMMA NextChunkIInv ==
  ASSUME ConstantsAssumption, IInv, NextChunk
  PROVE  IInv'
<1> USE DEF NextChunk
<1>1. TypeOK' /\ stop' <= call'.hi
  BY DEF IInv, TypeOK, Ledger, ConstantsAssumption, Smaller
<1>2. RecordedWasProcessed' /\ WatermarkIsMax' /\ LoopInv'
  BY DEF IInv, RecordedWasProcessed, WatermarkIsMax, IsWatermark, LoopInv
<1>3. MemoryInv'
  <2>1. mem'.done \ file'.done = {} /\ pending = 0
    BY DEF IInv, MemoryInv, Running
  <2> QED
    BY <2>1, FS_EmptySet DEF MemoryInv, Running, ConstantsAssumption
<1>4. EffectInv'
  BY DEF IInv, EffectInv, Held, MemoryInv, Running, EmptyState
<1>5. RangeInv'
  <2>1. /\ call'.lo .. (cur' - 1) \subseteq mem'.done
           \/ call.bad = TRUE \/ outcome # "running"
        /\ outcome = "running" /\ pc' = "next"
    BY DEF IInv, TypeOK, RangeInv, Covered, Ledger
  <2>2. call.kind # "chunked" => stop' = call.hi
    BY DEF IInv, TypeOK, RangeInv, Smaller, Ledger, ConstantsAssumption
  <2> QED
    BY <1>1, <2>1, <2>2 DEF IInv, RangeInv, CompletedRangeIsDurable, Covered
<1> QED
  BY <1>1, <1>2, <1>3, <1>4, <1>5 DEF IInv

\* A crash leaves the file and loses, at most, one record of each ledger.
LEMMA CrashIInv ==
  ASSUME ConstantsAssumption, IInv, Crash
  PROVE  IInv'
<1> USE DEF Crash
<1>1. TypeOK'
  BY DEF IInv, TypeOK, EmptyState, State, ConstantsAssumption
<1>2. RecordedWasProcessed' /\ WatermarkIsMax' /\ MemoryInv' /\ LoopInv' /\ RangeInv'
  BY DEF IInv, RecordedWasProcessed, WatermarkIsMax, IsWatermark, LoopInv,
     MemoryInv, Running, RangeInv, CompletedRangeIsDurable, EmptyState
<1>3. EffectInv'
  <2>1. \A l \in Ledger : effects[l] \in Nat /\ losses \in Nat
    BY DEF IInv, TypeOK
  <2> QED
    BY <2>1 DEF IInv, EffectInv
<1> QED
  BY <1>1, <1>2, <1>3 DEF IInv

-----------------------------------------------------------------------------
(* The theorems.                                                           *)

\* Every step preserves the invariant.
LEMMA NextIInv == ConstantsAssumption /\ IInv /\ [Next]_vars => IInv'
<1> SUFFICES ASSUME ConstantsAssumption, IInv, [Next]_vars PROVE IInv'
  OBVIOUS
<1>1. CASE CallStep
  BY <1>1, CallStepIInv
<1>2. CASE Progress
  BY <1>2, QuietStepIInv, ProcessIInv, RecordIInv, SaveIInv, EndIInv, NextChunkIInv
     DEF Progress
<1>3. CASE Fault
  BY <1>3, RaiseIInv, EndIInv, CrashIInv DEF Fault
<1>4. CASE Abandon \/ AbandonBackfill \/ HeadAdvances
  BY <1>4, QuietStepIInv
<1>5. CASE UNCHANGED vars
  BY <1>5 DEF vars, IInv, TypeOK, RecordedWasProcessed, WatermarkIsMax, IsWatermark,
     MemoryInv, Running, LoopInv, EffectInv, Held, RangeInv, Covered,
     CompletedRangeIsDurable
<1> QED
  BY <1>1, <1>2, <1>3, <1>4, <1>5 DEF Next

\* The inductive invariant holds throughout.
THEOREM Invariance == Spec => []IInv
BY ConstantsAssumption, InitIInv, NextIInv, PTL DEF Spec

\* Types, and a batch that never exceeds batch_size.
THEOREM TypeCorrect == Spec => []TypeOK
BY Invariance, PTL DEF IInv

\* Nothing is recorded, in memory or in the state file, that process_fn did
\* not complete, whatever fails or crashes.
THEOREM RecordedWasProcessedHolds == Spec => []RecordedWasProcessed
BY Invariance, PTL DEF IInv

\* last_processed_ledger is the greatest recorded ledger at all times.
THEOREM WatermarkIsMaxHolds == Spec => []WatermarkIsMax
BY Invariance, PTL DEF IInv

\* A call that ends without errors has its whole range on disk.
THEOREM CompletedRangeIsDurableHolds == Spec => []CompletedRangeIsDurable
BY Invariance, PTL DEF IInv, RangeInv

\* A ledger is processed again at most once per lost record.
THEOREM ReprocessedOnlyAfterLossHolds == Spec => []ReprocessedOnlyAfterLoss
<1>1. ConstantsAssumption /\ IInv => ReprocessedOnlyAfterLoss
  <2> SUFFICES ASSUME IInv, NEW l \in Ledger PROVE effects[l] <= 1 + losses
    BY DEF ReprocessedOnlyAfterLoss
  <2>1. effects[l] \in Nat /\ losses \in Nat
    BY DEF IInv, TypeOK
  <2> QED
    BY <2>1 DEF IInv, EffectInv
<1> QED
  BY <1>1, ConstantsAssumption, Invariance, PTL

\* A crash costs at most batch_size reprocessed ledgers.
THEOREM UnrecordedBoundedHolds == Spec => []UnrecordedBounded
<1>1. ConstantsAssumption /\ IInv => UnrecordedBounded
  <2> SUFFICES ASSUME ConstantsAssumption, IInv PROVE UnrecordedBounded
    OBVIOUS
  <2> DEFINE unsaved == mem.done \ file.done
  <2>1. unsaved \in SUBSET Ledger /\ pending \in 0 .. BatchSize /\ BatchSize \in Nat
    BY DEF IInv, TypeOK, State, ConstantsAssumption
  <2>2. Cardinality(unsaved) = pending
    <3>1. CASE Running
      BY <3>1 DEF IInv, MemoryInv
    <3>2. CASE ~Running
      <4>1. unsaved = {} /\ pending = 0
        BY <3>2 DEF IInv, MemoryInv, EmptyState
      <4> QED
        BY <4>1, FS_EmptySet
    <3> QED
      BY <3>1, <3>2
  <2>3. CASE pc = "record"
    <3>1. pending < BatchSize /\ cur \notin unsaved
      BY <2>3 DEF IInv, MemoryInv, LoopInv
    <3>2. Cardinality(unsaved \cup {cur}) = pending + 1
      BY <2>1, <2>2, <3>1, FiniteLedgers, FS_AddElement
    <3>3. Unrecorded = unsaved \cup {cur}
      BY <2>3 DEF Unrecorded
    <3> QED
      BY <2>1, <3>1, <3>2, <3>3 DEF UnrecordedBounded
  <2>4. CASE pc # "record"
    <3>1. Unrecorded = unsaved
      BY <2>4 DEF Unrecorded
    <3> QED
      BY <2>1, <2>2, <3>1 DEF UnrecordedBounded
  <2> QED
    BY <2>3, <2>4
<1> QED
  BY <1>1, ConstantsAssumption, Invariance, PTL

\* How a step may change the file and the processed ledgers: a write adds the
\* pending ledgers, a processed ledger is new, anything else leaves both alone.
LEMMA FileStep ==
  ASSUME ConstantsAssumption, IInv, [Next]_vars
  PROVE  \/ UNCHANGED <<file, effects>>
         \/ UNCHANGED effects /\ Running /\ file' = mem
         \/ UNCHANGED file /\ Process
<1>1. CASE CallStep
  BY <1>1 DEF CallStep, Ingest, IngestStream, BackfillChunked, IngestUpTo, IngestNext,
     Incremental, IngestIncremental, IngestHeadUnknown, CallRange, Start, Return
<1>2. CASE Progress
  BY <1>2 DEF Progress, Skip, Process, Record, Save, Advance, Exhaust, Finish, EndStream,
     NextChunk, Running
<1>3. CASE Fault
  BY <1>3 DEF Fault, ProcessRaises, SaveRaises, FinishRaises, EndStream, Crash
<1>4. CASE Abandon \/ AbandonBackfill \/ HeadAdvances \/ UNCHANGED vars
  BY <1>4 DEF Abandon, AbandonBackfill, HeadAdvances, vars
<1> QED
  BY <1>1, <1>2, <1>3, <1>4 DEF Next

\* The generator's watermark never trails the file's.
LEMMA WatermarkAhead ==
  ASSUME ConstantsAssumption, IInv, Running
  PROVE  file.done \subseteq mem.done /\ file.last <= mem.last
<1>1. file.done \subseteq mem.done /\ IsWatermark(file) /\ IsWatermark(mem)
  BY DEF IInv, MemoryInv, WatermarkIsMax
<1>2. file.last \in Ledger \cup {NoLedger} /\ mem.last \in Ledger \cup {NoLedger}
      /\ Ledger \subseteq Nat
  BY DEF IInv, TypeOK, State, Ledger, ConstantsAssumption
<1> QED
  <2>1. CASE file.done = {}
    <3>1. file.last = NoLedger
      BY <1>1, <2>1 DEF IsWatermark
    <3>2. mem.last \in Nat \/ mem.last = NoLedger
      BY <1>2
    <3>3. NoLedger <= mem.last
      BY <3>2
    <3> QED
      BY <1>1, <3>1, <3>3
  <2>2. CASE file.done # {}
    <3>1. file.last \in mem.done /\ mem.done # {}
      BY <1>1, <2>2 DEF IsWatermark
    <3> QED
      BY <1>1, <3>1 DEF IsWatermark
  <2> QED
    BY <2>1, <2>2

\* No step forgets a recorded ledger or moves the watermark back.
THEOREM NothingForgottenHolds == Spec => NothingForgotten
<1>1. ASSUME ConstantsAssumption, IInv, [Next]_vars
      PROVE  file.done \subseteq file'.done /\ file.last <= file'.last
  <2>1. file.last \in Int
    BY <1>1 DEF IInv, TypeOK, State, Ledger, ConstantsAssumption
  <2> QED
    BY <1>1, <2>1, FileStep, WatermarkAhead
<1> QED
  BY <1>1, ConstantsAssumption, Invariance, PTL DEF Spec, NothingForgotten

-----------------------------------------------------------------------------
(* No holes, when only the resuming entry points are used.                 *)

Contiguous(S) == \A a, b \in S : a .. b \subseteq S

\* The generator stands right after the watermark it holds.
ResumeInv ==
  /\ pc # "idle" => call.kind # "chunked"
  /\ pc \in {"next", "record"} => mem.done = {} \/ mem.last = cur - 1
  /\ pc \in {"save", "yield"} => mem.last = cur
  /\ Contiguous(file.done)
  /\ Contiguous(mem.done)

\* Both resuming entry points start right after the watermark of the file.
LEMMA ResumeStart ==
  ASSUME ConstantsAssumption, IInv, ResumeInv, CallStep,
         Calls \subseteq {"incremental", "next"}
  PROVE  ResumeInv'
<1>1. CASE pc' = "idle"
  <2>1. UNCHANGED <<file, mem>>
    BY <1>1 DEF CallStep, Ingest, IngestStream, BackfillChunked, IngestUpTo, IngestNext,
       Incremental, IngestIncremental, IngestHeadUnknown, CallRange, Start, Return
  <2> QED
    BY <1>1, <2>1 DEF ResumeInv
<1>2. CASE pc' # "idle"
  <2>1. /\ mem' = file /\ file' = file /\ pc' = "next"
        /\ file.last = NoLedger \/ cur' = file.last + 1
        /\ call'.kind \in {"next", "incremental"}
    BY <1>2 DEF CallStep, Ingest, IngestStream, BackfillChunked, IngestUpTo, IngestNext,
       Incremental, IngestIncremental, IngestHeadUnknown, CallRange, Start, Return
  <2>2. file.last = NoLedger => file.done = {}
    BY DEF IInv, TypeOK, State, WatermarkIsMax, IsWatermark, Ledger, ConstantsAssumption
  <2>3. file.last \in Int
    BY DEF IInv, TypeOK, State, Ledger, ConstantsAssumption
  <2> QED
    BY <2>1, <2>2, <2>3 DEF ResumeInv
<1> QED
  BY <1>1, <1>2

\* Recording the ledger after the watermark leaves no hole.
LEMMA ResumeRecord ==
  ASSUME ConstantsAssumption, IInv, ResumeInv, Record
  PROVE  ResumeInv'
<1>1. /\ cur \in Nat /\ cur \notin mem.done
      /\ mem.done \subseteq Nat /\ mem.last \in Nat \cup {NoLedger}
      /\ mem.done # {} => mem.last \in mem.done /\ \A l \in mem.done : l <= mem.last
      /\ mem.done = {} => mem.last = NoLedger
  BY DEF Record, IInv, LoopInv, TypeOK, State, Ledger, WatermarkIsMax, IsWatermark,
     ConstantsAssumption
<1>2. mem'.done = mem.done \cup {cur} /\ mem'.last = cur
  BY <1>1 DEF Record, ResumeInv, RecordProcessed, Larger
<1>3. ASSUME NEW a \in mem'.done, NEW b \in mem'.done, NEW c \in a .. b
      PROVE  c \in mem'.done
  <2>1. CASE c = cur
    BY <1>2, <2>1
  <2>2. CASE c # cur
    <3>1. a \in Nat /\ b \in Nat /\ c \in Nat /\ a <= c /\ c <= b
      BY <1>1, <1>2, <1>3
    <3>2. mem.done # {} /\ mem.last = cur - 1 /\ mem.last \in mem.done
      BY <1>1, <1>2, <1>3, <2>2, <3>1 DEF Record, ResumeInv
    <3>3. c <= mem.last /\ a \in mem.done
      BY <1>1, <1>2, <1>3, <2>2, <3>1, <3>2
    <3>4. c \in a .. mem.last
      BY <1>1, <3>1, <3>2, <3>3
    <3> QED
      BY <1>2, <3>2, <3>3, <3>4 DEF ResumeInv, Contiguous
  <2> QED
    BY <2>1, <2>2
<1>4. Contiguous(mem'.done)
  BY <1>3 DEF Contiguous
<1> QED
  BY <1>2, <1>4 DEF Record, ResumeInv

\* The other steps keep, copy or drop a contiguous set.
LEMMA ResumeStep ==
  ASSUME ConstantsAssumption, IInv, ResumeInv, [Next]_vars,
         Calls \subseteq {"incremental", "next"}
  PROVE  ResumeInv'
<1>1. CASE CallStep
  BY <1>1, ResumeStart
<1>2. CASE Record
  BY <1>2, ResumeRecord
<1>3. CASE Skip
  <2>1. cur \in Nat /\ mem.done \subseteq Nat /\ cur \in mem.done /\ cur <= mem.last
    BY <1>3 DEF Skip, IInv, TypeOK, State, Ledger, WatermarkIsMax, IsWatermark,
       ConstantsAssumption
  <2> QED
    BY <1>3, <2>1 DEF Skip, ResumeInv
<1>4. CASE Process \/ Save \/ Exhaust \/ Abandon \/ HeadAdvances
  BY <1>4 DEF Process, Save, Exhaust, Abandon, HeadAdvances, ResumeInv
<1>5. CASE Advance
  <2>1. cur \in Nat
    BY DEF IInv, TypeOK
  <2> QED
    BY <1>5, <2>1 DEF Advance, ResumeInv
<1>6. CASE ProcessRaises \/ SaveRaises
  <2>1. call'.kind = call.kind
    BY <1>6 DEF ProcessRaises, SaveRaises, IInv, TypeOK
  <2> QED
    BY <1>6, <2>1 DEF ProcessRaises, SaveRaises, ResumeInv
<1>7. CASE Finish \/ FinishRaises \/ Crash \/ AbandonBackfill
  <2>1. pc # "idle"
    BY <1>7 DEF Finish, FinishRaises, Crash, AbandonBackfill
  <2>2. pc' = "idle" /\ (mem' = EmptyState \/ mem' = mem) /\ file' \in {file, mem}
    BY <1>7, <2>1 DEF Finish, FinishRaises, EndStream, MoreChunks, Crash,
       AbandonBackfill, ResumeInv
  <2> QED
    BY <2>2 DEF ResumeInv, EmptyState, Contiguous
<1>8. CASE NextChunk
  <2>1. call.kind = "chunked"
    BY <1>8 DEF NextChunk, IInv, RangeInv
  <2> QED
    BY <1>8, <2>1 DEF NextChunk, ResumeInv
<1>9. CASE UNCHANGED vars
  BY <1>9 DEF vars, ResumeInv
<1> QED
  BY <1>1, <1>2, <1>3, <1>4, <1>5, <1>6, <1>7, <1>8, <1>9 DEF Next, Progress, Fault

\* With ingest_incremental and the next-ledger default only, no failure or
\* crash leaves a hole behind the watermark.
THEOREM GapFreeHolds == Spec => []GapFree
<1> DEFINE Only == Calls \subseteq {"incremental", "next"}
           Inv == Only => ResumeInv
<1>1. Init => Inv
  BY DEF Init, ResumeInv, EmptyState, Contiguous
<1>2. ConstantsAssumption /\ IInv /\ Inv /\ [Next]_vars => Inv'
  BY ResumeStep
<1>3. Inv => GapFree
  BY DEF GapFree, ResumeInv, Contiguous
<1> QED
  <2> HIDE DEF Inv
  <2> QED
    BY <1>1, <1>2, <1>3, ConstantsAssumption, Invariance, PTL DEF Spec

-----------------------------------------------------------------------------
(* Refinement of AtLeastOnceLog.                                           *)

\* Every step is a step of the abstract log or leaves it alone.
LEMMA LogStep ==
  ASSUME ConstantsAssumption, IInv, [Next]_vars
  PROVE  [Log!Next]_(Log!vars)
<1> DEFINE done == {l \in Ledger : effects[l] > 0}
<1>1. CASE UNCHANGED <<file, effects>>
  BY <1>1 DEF Log!vars
<1>2. CASE UNCHANGED effects /\ Running /\ file' = mem
  <2> DEFINE S == mem.done \ file.done
  <2>1. S \in SUBSET Ledger /\ Cardinality(S) <= BatchSize
    BY <1>2 DEF IInv, TypeOK, State, MemoryInv, ConstantsAssumption
  <2>2. \A l \in Ledger : effects[l] \in Nat
    BY DEF IInv, TypeOK
  <2>3. S \subseteq done
    BY <2>1, <2>2 DEF IInv, RecordedWasProcessed
  <2>4. file'.done = file.done \cup S
    BY <1>2, WatermarkAhead
  <2> HIDE DEF S
  <2> QED
    BY <1>2, <2>1, <2>3, <2>4 DEF Log!Next, Log!Commit
<1>3. CASE UNCHANGED file /\ Process
  <2>1. cur \in Ledger /\ effects \in [Ledger -> Nat]
    BY <1>3 DEF Process, IInv, TypeOK, Ledger
  <2>2. {l \in Ledger : effects'[l] > 0} = done \cup {cur}
    BY <1>3, <2>1 DEF Process
  <2> QED
    BY <1>3, <2>1, <2>2 DEF Log!Next, Log!Apply
<1> QED
  BY <1>1, <1>2, <1>3, FileStep

\* Ingestion implements the at-least-once log, whatever fails.
THEOREM Refinement == Spec => RefinesLog
<1>1. ConstantsAssumption /\ Init => Log!Init
  BY DEF Init, Log!Init, EmptyState
<1>2. ConstantsAssumption /\ IInv /\ [Next]_vars => [Log!Next]_(Log!vars)
  BY LogStep
<1> QED
  BY <1>1, <1>2, ConstantsAssumption, Invariance, PTL DEF Spec, RefinesLog, Log!Spec

-----------------------------------------------------------------------------
(* Calls end.                                                              *)

\* The ledger the generator is at, and one behind its range when it has left the loop.
At == IF pc \in {"finally", "chunk"} THEN stop + 1 ELSE Smaller(cur, stop + 1)

\* The steps there may still be before the next ledger or the next chunk.
StepsLeft == [idle |-> 0, chunk |-> 1, finally |-> 2,
              yield |-> 3, save |-> 4, record |-> 5, next |-> 6]

\* The ledgers that are left, counted once for the chunks and once for the loop.
Work ==
  IF pc = "idle" THEN 0
  ELSE 7 * ((call.hi - stop) + (call.hi + 1 - At)) + StepsLeft[pc]

\* There is a next chunk.
ChunkInv == pc = "chunk" => stop < call.hi

\* Only the end of a generator decides for a next chunk.
LEMMA ChunkStep == IInv /\ ChunkInv /\ [Next]_vars => ChunkInv'
<1> SUFFICES ASSUME IInv, ChunkInv, [Next]_vars, pc' = "chunk" PROVE stop' < call'.hi
  BY DEF ChunkInv
<1>1. CASE Finish \/ FinishRaises
  BY <1>1 DEF Finish, FinishRaises, EndStream, MoreChunks, IInv, TypeOK
<1>2. CASE HeadAdvances \/ UNCHANGED vars
  BY <1>2 DEF HeadAdvances, vars, ChunkInv
<1>3. CASE CallStep
  <2>1. \A kind, lo, hi, to : Start(kind, lo, hi, to) => pc' = "next"
    BY DEF Start
  <2>2. \A kind, lo, hi, how : Return(kind, lo, hi, how) => pc' = pc
    BY DEF Return
  <2>3. \A kind, lo, hi : CallRange(kind, lo, hi) => pc' \in {"next", pc}
    BY <2>1, <2>2 DEF CallRange
  <2>4. pc = "idle"
    BY <1>3 DEF CallStep, Ingest, IngestStream, BackfillChunked, IngestUpTo, IngestNext,
                Incremental, IngestIncremental, IngestHeadUnknown
  <2>5. CASE Incremental
    BY <2>1, <2>2, <2>4, <2>5 DEF Incremental, IngestIncremental
  <2>6. CASE ~Incremental
    BY <1>3, <2>1, <2>2, <2>3, <2>4, <2>6
    DEF CallStep, Ingest, IngestStream, BackfillChunked, IngestUpTo, IngestNext,
        IngestHeadUnknown
  <2> QED
    BY <2>5, <2>6
<1>4. CASE \/ Progress /\ ~Finish
           \/ Fault /\ ~FinishRaises
           \/ Abandon
           \/ AbandonBackfill
  BY <1>4 DEF Progress, Skip, Process, Record, Save, Advance, Exhaust, NextChunk,
              Fault, ProcessRaises, SaveRaises, Crash, Abandon, AbandonBackfill
<1> QED
  BY <1>1, <1>2, <1>3, <1>4 DEF Next, Progress, Fault

\* The smaller of two numbers, for primed expressions.
LEMMA SmallerOf ==
  ASSUME NEW a \in Nat, NEW b \in Nat
  PROVE  /\ Smaller(a, b + 1) \in Nat /\ Smaller(a, b + 1) <= b + 1
         /\ b + 1 \in Nat /\ b + 1 <= b + 1
BY DEF Smaller

\* The generator is never further than one behind its range.
LEMMA WorkFacts ==
  ASSUME ConstantsAssumption, IInv
  PROVE  /\ cur \in Nat /\ stop \in Nat /\ call.hi \in Nat /\ At \in Nat /\ At <= stop + 1
         /\ StepsLeft[pc] \in 0 .. 6
         /\ Work \in Nat
         /\ pc # "idle" => stop <= call.hi /\ Work > 0
<1>1. cur \in Nat /\ stop \in Nat /\ call.hi \in Nat
  BY DEF IInv, TypeOK, Ledger, ConstantsAssumption
<1>2. pc # "idle" => stop <= call.hi
  BY DEF IInv, RangeInv
<1>3. At \in Nat /\ At <= stop + 1
  BY <1>1 DEF At, Smaller
<1>4. StepsLeft[pc] \in 0 .. 6 /\ (pc # "idle" => StepsLeft[pc] > 0)
  BY DEF IInv, TypeOK, StepsLeft
<1>5. pc # "idle" => call.hi - stop \in Nat /\ call.hi + 1 - At \in Nat
  BY <1>1, <1>2, <1>3
<1>6. Work \in Nat /\ (pc # "idle" => Work > 0)
  BY <1>4, <1>5 DEF Work
<1> QED
  BY <1>1, <1>2, <1>3, <1>4, <1>6

\* Every step of a call takes it to a later ledger, to a later chunk or nearer to
\* the end of what is done at a ledger.
LEMMA StepUsesUpWork ==
  ASSUME ConstantsAssumption, IInv, IInv', ChunkInv, pc # "idle", Next, ~HeadAdvances
  PROVE  Work' < Work
<1>1. CASE pc' = "idle"
  BY <1>1, WorkFacts DEF Work
<1>2. CASE pc' # "idle"
  <2>1. /\ cur \in Nat /\ stop \in Nat /\ call.hi \in Nat /\ stop <= call.hi
        /\ At \in Nat /\ At <= stop + 1 /\ StepsLeft[pc] \in 0 .. 6
    BY WorkFacts
  <2>2. cur' \in Nat /\ stop' \in Nat /\ call'.hi \in Nat /\ stop' <= call'.hi
    BY <1>2 DEF IInv, TypeOK, RangeInv, Ledger, ConstantsAssumption
  <2>3. At' \in Nat /\ At' <= stop' + 1
    <3>1. At' = stop' + 1 \/ At' = Smaller(cur', stop' + 1)
      BY DEF At
    <3> QED
      BY <2>2, <3>1, SmallerOf
  <2>4. StepsLeft[pc'] \in 0 .. 6
    BY DEF IInv, TypeOK, StepsLeft
  <2>5. pc \in {"record", "save", "yield"} => cur <= stop
    BY DEF IInv, LoopInv
  <2>6. CASE Skip \/ Process \/ Record \/ Save
    <3>1. stop' = stop /\ call'.hi = call.hi /\ At' = At
      BY <2>6 DEF Skip, Process, Record, Save, At
    <3>2. StepsLeft[pc'] < StepsLeft[pc]
      BY <2>6 DEF Skip, Process, Record, Save, StepsLeft
    <3> QED
      BY <1>2, <2>1, <2>4, <3>1, <3>2 DEF Work
  <2>7. CASE Advance \/ ProcessRaises \/ SaveRaises \/ Abandon
    <3>1. stop' = stop /\ call'.hi = call.hi
      BY <2>7 DEF Advance, ProcessRaises, SaveRaises, Abandon, IInv, TypeOK
    <3>2. At' > At
      BY <2>1, <2>5, <2>7 DEF Advance, ProcessRaises, SaveRaises, Abandon, At, Smaller
    <3> QED
      BY <1>2, <2>1, <2>2, <2>3, <2>4, <3>1, <3>2 DEF Work
  <2>8. CASE Exhaust \/ Finish \/ FinishRaises
    <3>1. stop' = stop /\ call'.hi = call.hi
      BY <2>8 DEF Exhaust, Finish, FinishRaises, EndStream, IInv, TypeOK
    <3>2. At' = At
      BY <1>2, <2>1, <2>8, <3>1
      DEF Exhaust, Finish, FinishRaises, EndStream, At, Smaller
    <3>3. StepsLeft[pc'] < StepsLeft[pc]
      BY <1>2, <2>8 DEF Exhaust, Finish, FinishRaises, EndStream, StepsLeft
    <3> QED
      BY <1>2, <2>1, <2>4, <3>1, <3>2, <3>3 DEF Work
  <2>9. CASE NextChunk
    <3>1. stop' > stop /\ call'.hi = call.hi
      BY <2>1, <2>9 DEF NextChunk, ChunkInv, Smaller, ConstantsAssumption
    <3>2. At' = At
      BY <2>1, <2>2, <2>9, <3>1 DEF NextChunk, At, Smaller
    <3> QED
      BY <1>2, <2>1, <2>2, <2>4, <3>1, <3>2 DEF Work
  <2>10. ~Crash /\ ~AbandonBackfill /\ ~CallStep
    BY <1>2
    DEF Crash, AbandonBackfill, CallStep, Ingest, IngestStream, BackfillChunked, IngestUpTo,
        IngestNext, Incremental, IngestIncremental, IngestHeadUnknown
  <2> QED
    BY <2>6, <2>7, <2>8, <2>9, <2>10 DEF Next, Progress, Fault
<1> QED
  BY <1>1, <1>2

\* Whatever it meets, a call takes finitely many steps: ledgers, failures, saves that
\* are tried again and failed chunks use up the range it was given, which an
\* advancing head does not extend.
CallsEnd == [][pc # "idle" => Work' < Work \/ head' # head]_vars

THEOREM CallsEndHolds == Spec => [](Work \in Nat) /\ CallsEnd
<1>1. Init => ChunkInv
  BY DEF Init, ChunkInv
<1>2. IInv => Work \in Nat
  BY ConstantsAssumption, WorkFacts
<1>3. IInv /\ IInv' /\ ChunkInv /\ [Next]_vars
        => [pc # "idle" => Work' < Work \/ head' # head]_vars
  <2>1. HeadAdvances /\ IInv => head' # head
    BY DEF HeadAdvances, IInv, TypeOK, Ledger
  <2> QED
    BY <2>1, ConstantsAssumption, StepUsesUpWork
<1> QED
  BY <1>1, <1>2, <1>3, ChunkStep, Invariance, PTL DEF Spec, CallsEnd

-----------------------------------------------------------------------------
(* The processed set as LedgerRangeSet keeps it: lists of ranges.          *)

SpanType == [lo : Int, hi : Int]

ScanType == [at : {"loop", "gap", "done"}, low : Int, high : Int, cursor : Int,
             next : Nat \ {0}, last : Int, gaps : Seq(SpanType), disturbed : BOOLEAN]

RangeTypeOK ==
  /\ ranges \in Seq(SpanType)
  /\ loading \in Seq(SpanType)
  /\ scan \in ScanType \cup {NoScan}
  /\ members \in SUBSET Int

\* What was added is in the list or still to be loaded; nothing is scanned
\* meanwhile.
SetInv ==
  /\ Normal(ranges)
  /\ \A i \in DOMAIN loading : loading[i].lo <= loading[i].hi
  /\ members = Values(ranges) \cup Values(loading)
  /\ loading # <<>> => scan = NoScan

\* The first integer a scan has not dealt with: behind a yield, the cursor it
\* will move to.
Frontier ==
  CASE scan.at = "loop" -> scan.cursor
    [] scan.at = "gap"  -> scan.last + 1
    [] scan.at = "done" -> scan.high + 1

ScanPosition ==
  /\ scan.at \in {"loop", "gap"} => scan.low <= scan.cursor /\ scan.cursor <= scan.high
  /\ scan.at = "gap" => scan.cursor <= scan.last

\* The gaps ascend, lie in the span and before the frontier.
GapsAscend ==
  /\ \A i \in DOMAIN scan.gaps : /\ scan.low <= scan.gaps[i].lo
                                 /\ scan.gaps[i].hi <= scan.high
                                 /\ scan.gaps[i].hi < Frontier
  /\ \A i, j \in DOMAIN scan.gaps : i < j => scan.gaps[i].hi < scan.gaps[j].lo

\* What lies before the frontier was yielded or is covered, whatever the caller
\* has added meanwhile.
NothingSkipped ==
  \A v \in scan.low .. scan.high : v < Frontier => v \in Yielded \cup members

\* As long as the caller has added nothing: no covered integer was yielded, and
\* the ranges the iterator has passed end before the frontier.
Undisturbed ==
  ~scan.disturbed =>
    /\ Yielded \cap members = {}
    /\ scan.at # "done" => \A i \in DOMAIN ranges : i < scan.next => ranges[i].hi < Frontier

ScanInv == scan # NoScan => ScanPosition /\ GapsAscend /\ NothingSkipped /\ Undisturbed

RangeIInv == RangeTypeOK /\ SetInv /\ ScanInv

\* A set of naturals that is not empty has a least element.
LEMMA LeastNumber ==
  ASSUME NEW S, S \subseteq Nat, S # {}
  PROVE  \E i \in S : \A j \in S : i <= j
<1>1. PICK i \in S : \A j \in S : ~(<<j, i>> \in OpToRel(<, Nat))
  BY NatLessThanWellFounded, WFMin
<1>2. \A j \in S : ~(j < i)
  BY <1>1, Zenon DEF OpToRel
<1> QED
  BY <1>2

\* A set of positions of a list that is not empty has a greatest one.
LEMMA GreatestPosition ==
  ASSUME NEW n \in Nat, NEW S \in SUBSET (1 .. n), S # {}
  PROVE  \E i \in S : \A j \in S : j <= i
<1> DEFINE Bounds == {k \in Nat : \A j \in S : j <= k}
<1>1. n \in Bounds
  OBVIOUS
<1>2. PICK k \in Bounds : \A l \in Bounds : k <= l
  BY <1>1, LeastNumber
<1>3. k \in S
  <2>1. SUFFICES ASSUME k \notin S PROVE FALSE
    OBVIOUS
  <2>2. \A j \in S : j <= k - 1
    BY <2>1
  <2>3. k >= 1
    <3>1. PICK j : j \in S
      OBVIOUS
    <3>2. j \in 1 .. n /\ j <= k
      BY <3>1
    <3> QED
      BY <3>2
  <2>4. k - 1 \in Bounds
    BY <2>2, <2>3
  <2> QED
    BY <1>2, <2>4
<1> QED
  BY <1>2, <1>3

\* The least and the greatest element of a set of integers that has one.
LEMMA MaxIs ==
  ASSUME NEW S \in SUBSET Int, NEW m \in S, \A i \in S : i <= m
  PROVE  Max(S) = m
<1>1. \A x \in S : (\A y \in S : x >= y) => x = m
  OBVIOUS
<1>2. \A y \in S : m >= y
  OBVIOUS
<1> QED
  BY <1>1, <1>2 DEF Max

LEMMA MinIs ==
  ASSUME NEW S \in SUBSET Int, NEW m \in S, \A i \in S : m <= i
  PROVE  Min(S) = m
<1>1. \A x \in S : (\A y \in S : x =< y) => x = m
  OBVIOUS
<1>2. \A y \in S : m =< y
  OBVIOUS
<1> QED
  BY <1>1, <1>2 DEF Min

\* The positions and entries of a list of ranges.
LEMMA ListFacts ==
  ASSUME NEW r \in Seq(SpanType)
  PROVE  /\ Len(r) \in Nat /\ DOMAIN r = 1 .. Len(r)
         /\ \A i \in 1 .. Len(r) : /\ r[i] \in SpanType
                                   /\ r[i].lo \in Int /\ r[i].hi \in Int
<1>1. Len(r) \in Nat /\ DOMAIN r = 1 .. Len(r)
  OBVIOUS
<1>2. \A i \in 1 .. Len(r) : r[i] \in SpanType
  OBVIOUS
<1> QED
  BY <1>1, <1>2 DEF SpanType

\* Bisection of ranges in normal form.
LEMMA Bisection ==
  ASSUME NEW r \in Seq(SpanType), Normal(r), NEW v \in Int
  PROVE  /\ BeginBefore(r, v) \in 0 .. Len(r)
         /\ \A i \in 1 .. Len(r) : r[i].lo < v <=> i <= BeginBefore(r, v)
<1> DEFINE I == {i \in 1 .. Len(r) : r[i].lo < v}
<1>1. BeginBefore(r, v) = IF I # {} THEN Max(I) ELSE 0
  BY DEF BeginBefore, SelectLastInSeq
<1>2. /\ Len(r) \in Nat /\ DOMAIN r = 1 .. Len(r)
      /\ \A i \in 1 .. Len(r) : r[i].lo \in Int /\ r[i].hi \in Int
  BY ListFacts
<1>3. CASE I = {}
  BY <1>1, <1>2, <1>3, SMTT(20)
<1>4. CASE I # {}
  <2>1. PICK m \in I : \A i \in I : i <= m
    <3> HIDE DEF I
    <3>1. I \in SUBSET (1 .. Len(r))
      BY DEF I
    <3> QED
      BY <1>2, <1>4, <3>1, GreatestPosition
  <2>2. BeginBefore(r, v) = m
    <3>1. I \in SUBSET Int
      BY <1>2
    <3> HIDE DEF I
    <3> QED
      BY <1>1, <1>4, <2>1, <3>1, MaxIs
  <2>3. m \in 1 .. Len(r) /\ r[m].lo < v
    BY <2>1
  <2>4. \A i \in 1 .. Len(r) : i <= m => r[i].lo < v
    <3>1. SUFFICES ASSUME NEW i \in 1 .. Len(r), i < m PROVE r[i].lo < v
      BY <2>3
    <3>2. r[i].lo <= r[i].hi /\ r[i].hi + 1 < r[m].lo
      BY <1>2, <2>3, <3>1 DEF Normal
    <3> QED
      BY <1>2, <2>3, <3>2
  <2> QED
    BY <1>2, <2>1, <2>2, <2>3, <2>4
<1> QED
  BY <1>3, <1>4

\* Membership in a list of ranges.
LEMMA MemberOf ==
  ASSUME NEW r \in Seq(SpanType), NEW v
  PROVE  v \in Values(r) <=> v \in Int /\ \E i \in 1 .. Len(r) : r[i].lo <= v /\ v <= r[i].hi
  BY DEF Values, SpanType

\* Where add_range puts the new range: behind a ranges, in place of those up
\* to b, the ones that overlap or touch what is added.
LEMMA Placement ==
  ASSUME NEW r \in Seq(SpanType), Normal(r), NEW low \in Int, NEW high \in Int, low <= high
  PROVE  LET a == FirstMerged(r, low)
             b == LastMerged(r, high)
         IN  /\ a \in Nat /\ b \in Nat /\ a <= b /\ b <= Len(r)
             /\ \A i \in 1 .. a : r[i].hi + 1 < low
             /\ \A i \in a + 1 .. b : low <= r[i].hi + 1 /\ r[i].lo <= high + 1
             /\ \A i \in b + 1 .. Len(r) : high + 1 < r[i].lo
<1> DEFINE a == FirstMerged(r, low)
           b == LastMerged(r, high)
           before == BeginBefore(r, low - 1)
<1>1. /\ before \in 0 .. Len(r)
      /\ \A i \in 1 .. Len(r) : r[i].lo < low - 1 <=> i <= before
  <2>1. low - 1 \in Int
    OBVIOUS
  <2> QED
    BY <2>1, Bisection
<1>2. /\ b \in 0 .. Len(r)
      /\ \A i \in 1 .. Len(r) : r[i].lo < high + 2 <=> i <= b
  <2>1. high + 2 \in Int
    OBVIOUS
  <2> QED
    BY <2>1, Bisection DEF LastMerged
<1>3. a = IF before > 0 /\ r[before].hi >= low - 1 THEN before - 1 ELSE before
  BY DEF FirstMerged
<1>4. /\ Len(r) \in Nat
      /\ \A i \in 1 .. Len(r) : r[i].lo \in Int /\ r[i].hi \in Int
      /\ \A i \in 1 .. Len(r) : r[i].lo <= r[i].hi
      /\ \A i, j \in 1 .. Len(r) : i < j => r[i].hi + 1 < r[j].lo
  BY ListFacts DEF Normal
<1>5. a \in 0 .. Len(r)
  BY <1>1, <1>3, <1>4
<1> HIDE DEF a, b, before
<1>6. \A i \in 1 .. a : r[i].hi + 1 < low
  <2>1. SUFFICES ASSUME NEW i \in 1 .. a PROVE r[i].hi + 1 < low
    OBVIOUS
  <2>2. i \in 1 .. Len(r) /\ i <= before
    BY <1>1, <1>3, <1>4, <1>5
  <2>3. CASE i = before
    BY <1>1, <1>3, <1>4, <2>2, <2>3
  <2>4. CASE i < before
    <3>1. before \in 1 .. Len(r) /\ r[before].lo < low - 1
      BY <1>1, <2>2, <2>4
    <3>2. r[i].hi + 1 < r[before].lo
      BY <1>4, <2>2, <2>4, <3>1
    <3> QED
      BY <1>4, <2>2, <3>1, <3>2
  <2> QED
    BY <1>1, <2>2, <2>3, <2>4
<1>7. a <= b
  <2>1. SUFFICES ASSUME a > 0 PROVE a <= b
    BY <1>2, <1>5
  <2>2. r[a].lo < high + 2
    BY <1>4, <1>5, <1>6, <2>1
  <2> QED
    BY <1>2, <1>5, <2>1, <2>2
<1>8. \A i \in a + 1 .. b : low <= r[i].hi + 1 /\ r[i].lo <= high + 1
  <2>1. SUFFICES ASSUME NEW i \in a + 1 .. b
        PROVE  low <= r[i].hi + 1 /\ r[i].lo <= high + 1
    OBVIOUS
  <2>2. i \in 1 .. Len(r) /\ r[i].lo < high + 2
    BY <1>2, <1>4, <1>5
  <2>3. low <= r[i].hi + 1
    <3>1. CASE i = before
      BY <1>1, <1>3, <1>4, <2>1, <2>2, <3>1
    <3>2. CASE i > before
      BY <1>1, <1>4, <2>2, <3>2
    <3>3. i >= before
      BY <1>1, <1>3, <1>5
    <3> QED
      BY <1>1, <2>2, <3>1, <3>2, <3>3
  <2> QED
    BY <1>4, <2>2, <2>3
<1>9. \A i \in b + 1 .. Len(r) : high + 1 < r[i].lo
  BY <1>2, <1>4, SMTT(20)
<1> QED
  BY <1>2, <1>5, <1>6, <1>7, <1>8, <1>9 DEF a, b

\* The entries of a concatenation.
LEMMA Concatenated ==
  ASSUME NEW S, NEW p \in Seq(S), NEW q \in Seq(S)
  PROVE  /\ p \o q \in Seq(S) /\ Len(p \o q) = Len(p) + Len(q)
         /\ \A i \in 1 .. Len(p) : (p \o q)[i] = p[i]
         /\ \A i \in Len(p) + 1 .. Len(p) + Len(q) : (p \o q)[i] = q[i - Len(p)]
  OBVIOUS

\* The list add_range leaves: a ranges as before, the merged one, the rest.
IsSpliced(t, r, a, b, x) ==
  /\ t \in Seq(SpanType)
  /\ Len(t) = a + 1 + (Len(r) - b)
  /\ \A i \in 1 .. a : t[i] = r[i]
  /\ t[a + 1] = x
  /\ \A i \in a + 2 .. Len(t) : t[i] = r[i - a - 1 + b]

\* The slice assignment of add_range leaves such a list.
LEMMA SplicedEntries ==
  ASSUME NEW r \in Seq(SpanType), NEW a \in Nat, NEW b \in Nat, a <= b, b <= Len(r),
         NEW x \in SpanType
  PROVE  IsSpliced(Spliced(r, a, b, x), r, a, b, x)
<1> DEFINE t == Spliced(r, a, b, x)
           s == SubSeq(r, 1, a)
           q == SubSeq(r, b + 1, Len(r))
<1>1. /\ Len(r) \in Nat
      /\ \A i \in 1 .. Len(r) : r[i] \in SpanType
  BY ListFacts
<1>2. /\ s \in Seq(SpanType) /\ Len(s) = a
      /\ \A i \in 1 .. a : s[i] = r[i]
  BY <1>1
<1>3. /\ q \in Seq(SpanType) /\ Len(q) = Len(r) - b
      /\ \A i \in 1 .. Len(r) - b : q[i] = r[i + b]
  BY <1>1
<1> HIDE DEF s, q
<1>4. <<x>> \in Seq(SpanType) /\ Len(<<x>>) = 1 /\ <<x>>[1] = x
  OBVIOUS
<1>5. /\ s \o <<x>> \in Seq(SpanType) /\ Len(s \o <<x>>) = a + 1
      /\ \A i \in 1 .. a : (s \o <<x>>)[i] = s[i]
      /\ (s \o <<x>>)[a + 1] = x
  BY <1>2, <1>4
<1>6. t = (s \o <<x>>) \o q
  BY DEF s, q, Spliced
<1> HIDE DEF t
<1>7. /\ t \in Seq(SpanType) /\ Len(t) = a + 1 + (Len(r) - b)
      /\ \A i \in 1 .. a + 1 : t[i] = (s \o <<x>>)[i]
      /\ \A i \in a + 2 .. Len(t) : t[i] = q[i - a - 1]
  <2> DEFINE p == s \o <<x>>
  <2>1. p \in Seq(SpanType) /\ Len(p) = a + 1
    BY <1>5
  <2> HIDE DEF p
  <2>2. /\ p \o q \in Seq(SpanType) /\ Len(p \o q) = a + 1 + (Len(r) - b)
        /\ \A i \in 1 .. a + 1 : (p \o q)[i] = p[i]
        /\ \A i \in a + 2 .. a + 1 + (Len(r) - b) : (p \o q)[i] = q[i - (a + 1)]
    <3>1. /\ p \o q \in Seq(SpanType) /\ Len(p \o q) = Len(p) + Len(q)
          /\ \A i \in 1 .. Len(p) : (p \o q)[i] = p[i]
          /\ \A i \in Len(p) + 1 .. Len(p) + Len(q) : (p \o q)[i] = q[i - Len(p)]
      BY <1>3, <2>1, Concatenated
    <3>2. Len(p) + 1 = a + 2 /\ Len(p) + Len(q) = a + 1 + (Len(r) - b)
      BY <1>1, <1>3, <2>1
    <3> QED
      BY <2>1, <3>1, <3>2
  <2>3. \A i \in a + 2 .. a + 1 + (Len(r) - b) : i - (a + 1) = i - a - 1
    BY <1>1
  <2>4. t = p \o q
    BY <1>6 DEF p
  <2> QED
    BY <2>2, <2>3, <2>4 DEF p
<1>8. \A i \in 1 .. a : t[i] = r[i]
  <2>1. SUFFICES ASSUME NEW i \in 1 .. a PROVE t[i] = r[i]
    OBVIOUS
  <2>2. i \in 1 .. a + 1
    OBVIOUS
  <2>3. t[i] = (s \o <<x>>)[i]
    BY <1>7, <2>2
  <2> QED
    BY <1>2, <1>5, <2>3
<1>9. t[a + 1] = x
  <2>1. a + 1 \in 1 .. a + 1
    OBVIOUS
  <2> QED
    BY <1>5, <1>7, <2>1
<1>10. \A i \in a + 2 .. Len(t) : t[i] = r[i - a - 1 + b]
  <2>1. SUFFICES ASSUME NEW i \in a + 2 .. Len(t) PROVE t[i] = r[i - a - 1 + b]
    OBVIOUS
  <2>2. i - a - 1 \in 1 .. Len(r) - b
    <3>1. Len(t) = a + 1 + (Len(r) - b) /\ Len(r) \in Nat
      BY <1>1, <1>7
    <3>2. i \in Int /\ a + 2 <= i /\ i <= a + 1 + (Len(r) - b)
      BY <3>1
    <3> QED
      BY <3>1, <3>2
  <2>3. t[i] = q[i - a - 1] /\ q[i - a - 1] = r[i - a - 1 + b]
    BY <1>3, <1>7, <2>2
  <2> QED
    BY <2>3
<1> QED
  BY <1>7, <1>8, <1>9, <1>10 DEF IsSpliced, t

\* The new range: the ends of what is added, moved outwards by the first and
\* the last of the ranges it replaces.
LEMMA MergedEnds ==
  ASSUME NEW r \in Seq(SpanType), Normal(r), NEW low \in Int, NEW high \in Int, low <= high,
         NEW a \in Nat, NEW b \in Nat, a <= b, b <= Len(r)
  PROVE  /\ MergedLow(r, a, b, low) = IF a < b /\ r[a + 1].lo < low THEN r[a + 1].lo ELSE low
         /\ MergedHigh(r, a, b, high) = IF a < b /\ r[b].hi > high THEN r[b].hi ELSE high
<1> DEFINE Lows == {low} \cup {r[i].lo : i \in a + 1 .. b}
           Highs == {high} \cup {r[i].hi : i \in a + 1 .. b}
           l == IF a < b /\ r[a + 1].lo < low THEN r[a + 1].lo ELSE low
           h == IF a < b /\ r[b].hi > high THEN r[b].hi ELSE high
<1>1. /\ Len(r) \in Nat
      /\ \A i \in 1 .. Len(r) : r[i].lo \in Int /\ r[i].hi \in Int
      /\ \A i \in 1 .. Len(r) : r[i].lo <= r[i].hi
      /\ \A i, j \in 1 .. Len(r) : i < j => r[i].hi + 1 < r[j].lo
  BY ListFacts DEF Normal
<1>2. a + 1 .. b \subseteq 1 .. Len(r)
  BY <1>1
<1>3. Lows \in SUBSET Int /\ Highs \in SUBSET Int
  BY <1>1, <1>2
<1>4. l \in Lows /\ h \in Highs
  <2>1. a < b => a + 1 \in a + 1 .. b /\ b \in a + 1 .. b
    OBVIOUS
  <2> QED
    BY <2>1
<1>5. \A i \in a + 1 .. b : r[a + 1].lo <= r[i].lo /\ r[i].hi <= r[b].hi /\ a < b
  <2>1. SUFFICES ASSUME NEW i \in a + 1 .. b
        PROVE  r[a + 1].lo <= r[i].lo /\ r[i].hi <= r[b].hi
    BY <1>1
  <2>2. i \in 1 .. Len(r) /\ a + 1 \in 1 .. Len(r) /\ b \in 1 .. Len(r)
    BY <1>1, <1>2
  <2>3. r[a + 1].lo <= r[i].lo
    <3>1. i = a + 1 \/ a + 1 < i
      OBVIOUS
    <3> QED
      BY <1>1, <2>2, <3>1, SMTT(20)
  <2>4. r[i].hi <= r[b].hi
    <3>1. i = b \/ i < b
      OBVIOUS
    <3> QED
      BY <1>1, <2>2, <3>1
  <2> QED
    BY <2>3, <2>4
<1>6. ASSUME NEW v \in Lows PROVE l <= v
  <2>1. l \in Int /\ l <= low
    <3>1. a < b => r[a + 1].lo \in Int
      BY <1>1, <1>2
    <3> QED
      BY <3>1
  <2>2. CASE v = low
    BY <2>1, <2>2
  <2>3. ASSUME NEW i \in a + 1 .. b, v = r[i].lo PROVE l <= v
    <3>1. a < b /\ r[a + 1].lo <= r[i].lo /\ r[i].lo \in Int /\ r[a + 1].lo \in Int
      BY <1>1, <1>2, <1>5
    <3> QED
      BY <2>1, <2>3, <3>1
  <2> QED
    BY <1>6, <2>2, <2>3
<1>7. ASSUME NEW v \in Highs PROVE v <= h
  <2>1. h \in Int /\ high <= h
    <3>1. a < b => r[b].hi \in Int
      BY <1>1, <1>2
    <3> QED
      BY <3>1
  <2>2. CASE v = high
    BY <2>1, <2>2
  <2>3. ASSUME NEW i \in a + 1 .. b, v = r[i].hi PROVE v <= h
    <3>1. a < b /\ r[i].hi <= r[b].hi /\ r[i].hi \in Int /\ r[b].hi \in Int
      BY <1>1, <1>2, <1>5
    <3> QED
      BY <2>1, <2>3, <3>1
  <2> QED
    BY <1>7, <2>2, <2>3
<1> HIDE DEF Lows, Highs, l, h
<1>8. Min(Lows) = l
  BY <1>3, <1>4, <1>6, MinIs
<1>9. Max(Highs) = h
  BY <1>3, <1>4, <1>7, MaxIs
<1> QED
  BY <1>8, <1>9 DEF Lows, Highs, l, h, MergedLow, MergedHigh

\* Adding a range keeps the normal form and adds exactly its integers.
LEMMA AddRangeAdds ==
  ASSUME NEW r \in Seq(SpanType), Normal(r), NEW low \in Int, NEW high \in Int, low <= high
  PROVE  /\ AddRange(r, low, high) \in Seq(SpanType)
         /\ Normal(AddRange(r, low, high))
         /\ Values(AddRange(r, low, high)) = Values(r) \cup low .. high
<1> DEFINE a == FirstMerged(r, low)
           b == LastMerged(r, high)
           lo == MergedLow(r, a, b, low)
           hi == MergedHigh(r, a, b, high)
           t == AddRange(r, low, high)
<1>1. /\ Len(r) \in Nat /\ DOMAIN r = 1 .. Len(r)
      /\ \A i \in 1 .. Len(r) : r[i].lo \in Int /\ r[i].hi \in Int
      /\ \A i \in 1 .. Len(r) : r[i].lo <= r[i].hi
      /\ \A i, j \in 1 .. Len(r) : i < j => r[i].hi + 1 < r[j].lo
  BY ListFacts DEF Normal
<1>2. /\ a \in Nat /\ b \in Nat /\ a <= b /\ b <= Len(r)
      /\ \A i \in 1 .. a : r[i].hi + 1 < low
      /\ \A i \in a + 1 .. b : low <= r[i].hi + 1 /\ r[i].lo <= high + 1
      /\ \A i \in b + 1 .. Len(r) : high + 1 < r[i].lo
  BY Placement
<1>3. /\ lo = IF a < b /\ r[a + 1].lo < low THEN r[a + 1].lo ELSE low
      /\ hi = IF a < b /\ r[b].hi > high THEN r[b].hi ELSE high
  <2> HIDE DEF a, b
  <2> QED
    BY <1>2, MergedEnds
<1>4. t = Spliced(r, a, b, Span(lo, hi))
  BY DEF AddRange
<1> HIDE DEF a, b, lo, hi, t
<1>5. lo \in Int /\ hi \in Int /\ lo <= low /\ high <= hi
  BY <1>1, <1>2, <1>3
<1>6. Span(lo, hi) \in SpanType /\ Span(lo, hi).lo = lo /\ Span(lo, hi).hi = hi
  BY <1>5 DEF Span, SpanType
<1>7. /\ t \in Seq(SpanType)
      /\ Len(t) = a + 1 + (Len(r) - b)
      /\ \A i \in 1 .. a : t[i] = r[i]
      /\ t[a + 1].lo = lo /\ t[a + 1].hi = hi
      /\ \A i \in a + 2 .. Len(t) : t[i] = r[i - a - 1 + b]
  <2>1. IsSpliced(t, r, a, b, Span(lo, hi))
    BY <1>2, <1>4, <1>6, SplicedEntries
  <2> QED
    BY <1>6, <2>1 DEF IsSpliced
<1>8. Len(t) \in Nat /\ DOMAIN t = 1 .. Len(t)
  BY <1>7, ListFacts
<1>9. \A i \in 1 .. a : r[i].hi + 1 < lo /\ i \in 1 .. Len(r)
  BY <1>1, <1>2, <1>3
<1>10. \A i \in b + 1 .. Len(r) : hi + 1 < r[i].lo /\ i \in 1 .. Len(r)
  BY <1>1, <1>2, <1>3
<1>11. \A i \in a + 2 .. Len(t) : i - a - 1 + b \in b + 1 .. Len(r)
  BY <1>1, <1>2, <1>7, <1>8
<1>12. \A i \in 1 .. Len(t) : i \in 1 .. a \/ i = a + 1 \/ i \in a + 2 .. Len(t)
  BY <1>2, <1>8
<1>13. Normal(t)
  <2>1. ASSUME NEW i \in 1 .. Len(t) PROVE t[i].lo <= t[i].hi
    BY <1>1, <1>5, <1>7, <1>9, <1>10, <1>11, <1>12
  <2>2. ASSUME NEW i \in 1 .. Len(t), NEW j \in 1 .. Len(t), i < j
        PROVE  t[i].hi + 1 < t[j].lo
    <3>1. CASE i \in 1 .. a /\ j \in 1 .. a
      BY <1>1, <1>7, <1>9, <2>2, <3>1
    <3>2. CASE i \in 1 .. a /\ j = a + 1
      BY <1>7, <1>9, <3>2
    <3>3. CASE i \in 1 .. a /\ j \in a + 2 .. Len(t)
      <4>1. t[i] = r[i] /\ t[j] = r[j - a - 1 + b] /\ i < j - a - 1 + b
        BY <1>2, <1>7, <1>8, <1>11, <3>3
      <4> QED
        BY <1>1, <1>9, <1>10, <1>11, <3>3, <4>1
    <3>4. CASE i = a + 1 /\ j \in a + 2 .. Len(t)
      BY <1>7, <1>10, <1>11, <3>4
    <3>5. CASE i \in a + 2 .. Len(t) /\ j \in a + 2 .. Len(t)
      <4>1. /\ t[i] = r[i - a - 1 + b] /\ t[j] = r[j - a - 1 + b]
            /\ i - a - 1 + b < j - a - 1 + b
        BY <1>2, <1>7, <2>2, <3>5
      <4> QED
        BY <1>1, <1>10, <1>11, <3>5, <4>1
    <3> QED
      BY <1>2, <1>8, <1>12, <2>2, <3>1, <3>2, <3>3, <3>4, <3>5
  <2> QED
    BY <1>8, <2>1, <2>2 DEF Normal
<1>14. ASSUME NEW v \in Values(t) PROVE v \in Values(r) \cup low .. high
  <2>1. PICK i \in 1 .. Len(t) : v \in Int /\ t[i].lo <= v /\ v <= t[i].hi
    BY <1>7, <1>14, MemberOf
  <2>2. CASE i \in 1 .. a
    BY <1>7, <1>9, <2>1, <2>2, MemberOf
  <2>3. CASE i \in a + 2 .. Len(t)
    BY <1>7, <1>10, <1>11, <2>1, <2>3, MemberOf
  <2>4. CASE i = a + 1
    <3>1. lo <= v /\ v <= hi
      BY <1>7, <2>1, <2>4
    <3>2. CASE v < low
      <4>1. a < b /\ r[a + 1].lo <= v /\ a + 1 \in 1 .. Len(r) /\ a + 1 \in a + 1 .. b
        BY <1>1, <1>2, <1>3, <2>1, <3>1, <3>2
      <4>2. v <= r[a + 1].hi
        BY <1>1, <1>2, <2>1, <3>2, <4>1
      <4> QED
        BY <2>1, <4>1, <4>2, MemberOf
    <3>3. CASE high < v
      <4>1. a < b /\ v <= r[b].hi /\ b \in 1 .. Len(r) /\ b \in a + 1 .. b
        BY <1>1, <1>2, <1>3, <2>1, <3>1, <3>3
      <4>2. r[b].lo <= v
        BY <1>1, <1>2, <2>1, <3>3, <4>1
      <4> QED
        BY <2>1, <4>1, <4>2, MemberOf
    <3> QED
      BY <2>1, <3>2, <3>3
  <2> QED
    BY <1>12, <2>1, <2>2, <2>3, <2>4
<1>15. ASSUME NEW v \in Values(r) PROVE v \in Values(t)
  <2>1. PICK j \in 1 .. Len(r) : v \in Int /\ r[j].lo <= v /\ v <= r[j].hi
    BY <1>15, MemberOf
  <2>2. CASE j \in 1 .. a
    <3>1. j \in 1 .. Len(t)
      BY <1>1, <1>2, <1>7, <2>2
    <3> QED
      BY <1>7, <2>1, <2>2, <3>1, MemberOf
  <2>3. CASE j \in a + 1 .. b
    <3>1. a + 1 \in 1 .. Len(t) /\ a < b
      BY <1>1, <1>2, <1>7, <2>3
    <3>2. r[a + 1].lo <= r[j].lo /\ r[j].hi <= r[b].hi
      <4>1. a + 1 \in 1 .. Len(r) /\ b \in 1 .. Len(r)
        BY <1>1, <1>2, <3>1
      <4>2. r[a + 1].lo <= r[j].lo
        <5>1. r[j].lo \in Int /\ r[a + 1].hi \in Int /\ r[a + 1].lo \in Int
              /\ r[a + 1].lo <= r[a + 1].hi
          BY <1>1, <2>1, <4>1
        <5>2. j = a + 1 \/ r[a + 1].hi + 1 < r[j].lo
          <6>1. j = a + 1 \/ a + 1 < j
            BY <1>2, <2>3
          <6> QED
            BY <1>1, <2>1, <4>1, <6>1
        <5> QED
          BY <5>1, <5>2
      <4>3. r[j].hi <= r[b].hi
        <5>1. r[j].hi \in Int /\ r[b].hi \in Int /\ r[b].lo \in Int /\ r[b].lo <= r[b].hi
          BY <1>1, <2>1, <4>1
        <5>2. j = b \/ r[j].hi + 1 < r[b].lo
          <6>1. j = b \/ j < b
            BY <1>2, <2>3
          <6> QED
            BY <1>1, <2>1, <4>1, <6>1
        <5> QED
          BY <5>1, <5>2
      <4> QED
        BY <4>2, <4>3
    <3>3. lo <= v /\ v <= hi
      <4>1. a + 1 \in 1 .. Len(r) /\ b \in 1 .. Len(r)
        BY <1>1, <1>2, <3>1
      <4>2. lo <= r[a + 1].lo /\ r[b].hi <= hi
        BY <1>1, <1>3, <1>5, <3>1, <4>1
      <4> QED
        BY <1>1, <1>5, <2>1, <3>2, <4>1, <4>2
    <3> QED
      BY <1>7, <2>1, <3>1, <3>3, MemberOf
  <2>4. CASE j \in b + 1 .. Len(r)
    <3> DEFINE i == j - b + a + 1
    <3>1. i \in a + 2 .. Len(t) /\ i \in 1 .. Len(t) /\ i - a - 1 + b = j
      <4>1. /\ a \in Nat /\ b \in Nat /\ Len(r) \in Nat /\ Len(t) = a + 1 + (Len(r) - b)
            /\ j \in Nat /\ b + 1 <= j /\ j <= Len(r)
        BY <1>1, <1>2, <1>7, <2>4
      <4> QED
        BY <4>1
    <3> HIDE DEF i
    <3>2. t[i] = r[j]
      BY <1>7, <3>1
    <3> QED
      BY <1>7, <2>1, <3>1, <3>2, MemberOf
  <2> QED
    BY <1>1, <1>2, <2>1, <2>2, <2>3, <2>4
<1>16. ASSUME NEW v \in low .. high PROVE v \in Values(t)
  <2>1. a + 1 \in 1 .. Len(t) /\ v \in Int
    BY <1>1, <1>2, <1>7
  <2>2. t[a + 1].lo <= v /\ v <= t[a + 1].hi
    BY <1>5, <1>7
  <2> QED
    BY <1>7, <2>1, <2>2, MemberOf
<1> QED
  BY <1>7, <1>13, <1>14, <1>15, <1>16 DEF t

\* In normal form, the bisection of a membership test finds a range that holds
\* the integer if there is one.
LEMMA CoversMembers ==
  ASSUME NEW r \in Seq(SpanType), Normal(r), NEW v \in Int
  PROVE  Covers(r, v) <=> v \in Values(r)
<1> DEFINE last == BeginBefore(r, v + 1)
<1>1. /\ Len(r) \in Nat
      /\ \A i \in 1 .. Len(r) : r[i].lo \in Int /\ r[i].hi \in Int
      /\ \A i, j \in 1 .. Len(r) : i < j => r[i].hi + 1 < r[j].lo
  BY ListFacts DEF Normal
<1>2. /\ last \in 0 .. Len(r)
      /\ \A i \in 1 .. Len(r) : r[i].lo < v + 1 <=> i <= last
  <2>1. v + 1 \in Int
    OBVIOUS
  <2> QED
    BY <2>1, Bisection
<1>3. Covers(r, v) <=> last > 0 /\ r[last].lo <= v /\ v <= r[last].hi
  BY DEF Covers
<1> HIDE DEF last
<1>4. ASSUME Covers(r, v) PROVE v \in Values(r)
  BY <1>1, <1>2, <1>3, <1>4, MemberOf
<1>5. ASSUME v \in Values(r) PROVE Covers(r, v)
  <2>1. PICK i \in 1 .. Len(r) : r[i].lo <= v /\ v <= r[i].hi
    BY <1>5, MemberOf
  <2>2. i <= last /\ last \in 1 .. Len(r)
    BY <1>1, <1>2, <2>1
  <2>3. r[last].lo <= v
    BY <1>1, <1>2, <2>2
  <2>4. i = last
    BY <1>1, <2>1, <2>2, <2>3
  <2> QED
    BY <1>3, <2>1, <2>2, <2>4
<1> QED
  BY <1>4, <1>5

\* The list of gaps behind a yield.
IsAppended(h, g, x) ==
  /\ h \in Seq(SpanType)
  /\ DOMAIN h = 1 .. Len(g) + 1
  /\ \A i \in 1 .. Len(g) : h[i] = g[i]
  /\ h[Len(g) + 1] = x
  /\ Values(h) = Values(g) \cup x.lo .. x.hi

\* Yielding a gap appends it to those before.
LEMMA AppendedEntries ==
  ASSUME NEW g \in Seq(SpanType), NEW x \in SpanType
  PROVE  IsAppended(Append(g, x), g, x)
<1> DEFINE h == Append(g, x)
<1>1. /\ h \in Seq(SpanType) /\ Len(h) = Len(g) + 1 /\ Len(g) \in Nat
      /\ \A i \in 1 .. Len(g) : h[i] = g[i]
      /\ h[Len(g) + 1] = x
  OBVIOUS
<1> HIDE DEF h
<1>2. DOMAIN h = 1 .. Len(g) + 1
  BY <1>1
<1>3. x.lo \in Int /\ x.hi \in Int
  BY DEF SpanType
<1>4. \A i \in 1 .. Len(h) : i \in 1 .. Len(g) \/ i = Len(g) + 1
  BY <1>1
<1>5. \A i \in 1 .. Len(g) : i \in 1 .. Len(h)
  BY <1>1
<1>6. Len(g) + 1 \in 1 .. Len(h)
  BY <1>1
<1>7. ASSUME NEW v \in Values(h) PROVE v \in Values(g) \cup x.lo .. x.hi
  <2>1. PICK i \in 1 .. Len(h) : v \in Int /\ h[i].lo <= v /\ v <= h[i].hi
    BY <1>1, MemberOf
  <2>2. CASE i \in 1 .. Len(g)
    BY <1>1, <2>1, <2>2, MemberOf
  <2>3. CASE i = Len(g) + 1
    BY <1>1, <1>3, <2>1, <2>3
  <2> QED
    BY <1>4, <2>2, <2>3
<1>8. ASSUME NEW v \in Values(g) PROVE v \in Values(h)
  <2>1. PICK i \in 1 .. Len(g) : v \in Int /\ g[i].lo <= v /\ v <= g[i].hi
    BY MemberOf
  <2> QED
    BY <1>1, <1>5, <2>1, MemberOf
<1>9. ASSUME NEW v \in x.lo .. x.hi PROVE v \in Values(h)
  BY <1>1, <1>3, <1>6, MemberOf
<1> QED
  BY <1>1, <1>2, <1>7, <1>8, <1>9 DEF IsAppended, h

\* The entries from_list takes and leaves.
LEMMA FirstEntry ==
  ASSUME NEW r \in Seq(SpanType), r # <<>>
  PROVE  /\ Head(r) \in SpanType /\ Tail(r) \in Seq(SpanType)
         /\ 1 \in DOMAIN r /\ Head(r) = r[1]
         /\ \A i \in DOMAIN Tail(r) : i + 1 \in DOMAIN r /\ Tail(r)[i] = r[i + 1]
         /\ Values(r) = Values(Tail(r)) \cup Head(r).lo .. Head(r).hi
<1> DEFINE q == Tail(r)
           x == Head(r)
<1>1. /\ Len(r) \in Nat /\ Len(r) > 0 /\ DOMAIN r = 1 .. Len(r)
      /\ x = r[1] /\ x \in SpanType
      /\ q \in Seq(SpanType) /\ Len(q) = Len(r) - 1 /\ DOMAIN q = 1 .. Len(r) - 1
      /\ \A i \in 1 .. Len(r) - 1 : q[i] = r[i + 1]
  OBVIOUS
<1> HIDE DEF q, x
<1>2. x.lo \in Int /\ x.hi \in Int
  BY <1>1 DEF SpanType
<1>3. 1 \in 1 .. Len(r) /\ \A i \in 1 .. Len(q) : i + 1 \in 1 .. Len(r)
  BY <1>1
<1>4. ASSUME NEW v \in Values(r) PROVE v \in Values(q) \cup x.lo .. x.hi
  <2>1. PICK i \in 1 .. Len(r) : v \in Int /\ r[i].lo <= v /\ v <= r[i].hi
    BY MemberOf
  <2>2. CASE i = 1
    BY <1>1, <1>2, <2>1, <2>2
  <2>3. CASE i # 1
    <3>1. i - 1 \in 1 .. Len(q) /\ q[i - 1] = r[i]
      <4>1. i - 1 \in 1 .. Len(r) - 1 /\ (i - 1) + 1 = i
        BY <1>1, <2>3
      <4> QED
        BY <1>1, <4>1
    <3> QED
      BY <1>1, <2>1, <3>1, MemberOf
  <2> QED
    BY <2>2, <2>3
<1>5. ASSUME NEW v \in Values(q) PROVE v \in Values(r)
  <2>1. PICK i \in 1 .. Len(q) : v \in Int /\ q[i].lo <= v /\ v <= q[i].hi
    BY <1>1, MemberOf
  <2> QED
    BY <1>1, <1>3, <2>1, MemberOf
<1>6. ASSUME NEW v \in x.lo .. x.hi PROVE v \in Values(r)
  BY <1>1, <1>2, <1>3, MemberOf
<1> QED
  BY <1>1, <1>3, <1>4, <1>5, <1>6 DEF q, x

-----------------------------------------------------------------------------
(* The invariant of LedgerRangeSet.                                        *)

\* The fields of a scan that is under way or has ended.
LEMMA ScanFacts ==
  ASSUME RangeTypeOK, scan # NoScan
  PROVE  /\ scan \in ScanType /\ scan.at \in {"loop", "gap", "done"}
         /\ scan.low \in Int /\ scan.high \in Int /\ scan.cursor \in Int /\ scan.last \in Int
         /\ scan.next \in Nat /\ scan.next > 0 /\ scan.gaps \in Seq(SpanType)
         /\ scan.disturbed \in BOOLEAN
  BY DEF RangeTypeOK, ScanType

\* A scan that stands somewhere is one.
LEMMA ScanIsOn == scan.at # "off" => scan # NoScan
  BY DEF NoScan

\* An empty list holds nothing.
LEMMA EmptyList == <<>> \in Seq(SpanType) /\ DOMAIN <<>> = {} /\ Values(<<>>) = {}
  BY DEF Values

\* A new set, or one that is loaded from a list of ids, satisfies the invariant.
LEMMA RangeInitIInv == BoundsAssumption /\ RangeInit => RangeIInv
<1> SUFFICES ASSUME BoundsAssumption, RangeInit PROVE RangeIInv
  OBVIOUS
<1>1. PICK n \in 0 .. MaxIds : \E ids \in [1 .. n -> Value] :
        loading = [i \in 1 .. n |-> Span(ids[i], ids[i])]
  BY DEF RangeInit
<1>2. PICK ids \in [1 .. n -> Value] : loading = [i \in 1 .. n |-> Span(ids[i], ids[i])]
  BY <1>1
<1>3. n \in Nat /\ \A i \in 1 .. n : ids[i] \in Int
  BY <1>2 DEF BoundsAssumption, Value
<1>4. loading \in Seq(SpanType) /\ \A i \in DOMAIN loading : loading[i].lo <= loading[i].hi
  <2>1. \A i \in 1 .. n : Span(ids[i], ids[i]) \in SpanType
    BY <1>3 DEF Span, SpanType
  <2>2. loading \in [1 .. n -> SpanType] /\ DOMAIN loading = 1 .. n
    BY <1>2, <2>1
  <2>3. \A i \in 1 .. n : loading[i].lo <= loading[i].hi
    BY <1>2, <1>3 DEF Span
  <2> QED
    BY <1>3, <2>2, <2>3
<1>5. ranges = <<>> /\ members = Values(loading) /\ scan = NoScan
  BY DEF RangeInit
<1>6. members \in SUBSET Int
  BY <1>4, <1>5, MemberOf
<1>7. Normal(ranges) /\ ranges \in Seq(SpanType) /\ Values(ranges) = {}
  BY <1>5, EmptyList DEF Normal
<1> QED
  BY <1>4, <1>5, <1>6, <1>7 DEF RangeIInv, RangeTypeOK, SetInv, ScanInv

\* Adding a range: what a scan has to account for only grows.
LEMMA AddStep ==
  ASSUME RangeIInv, NEW low \in Int, NEW high \in Int, Add(low, high)
  PROVE  RangeIInv'
<1>1. /\ loading = <<>> /\ low <= high
      /\ ranges' = AddRange(ranges, low, high)
      /\ members' = members \cup (low .. high)
      /\ scan' = IF scan.at = "gap" THEN [scan EXCEPT !.disturbed = TRUE] ELSE NoScan
      /\ loading' = loading
  BY DEF Add, AtRest
<1>2. ranges' \in Seq(SpanType) /\ Normal(ranges') /\ Values(ranges') = Values(ranges) \cup low .. high
  BY <1>1, AddRangeAdds DEF RangeIInv, RangeTypeOK, SetInv
<1>3. SetInv'
  BY <1>1, <1>2, EmptyList DEF RangeIInv, SetInv
<1>4. CASE scan.at = "gap"
  <2>1. scan # NoScan /\ scan' = [scan EXCEPT !.disturbed = TRUE]
    BY <1>1, <1>4, ScanIsOn
  <2>2. scan \in ScanType
    BY <2>1, ScanFacts DEF RangeIInv
  <2>3. /\ scan' \in ScanType /\ scan'.disturbed = TRUE
        /\ scan'.at = scan.at /\ scan'.low = scan.low /\ scan'.high = scan.high
        /\ scan'.cursor = scan.cursor /\ scan'.last = scan.last /\ scan'.gaps = scan.gaps
    BY <2>1, <2>2 DEF ScanType
  <2>4. ScanPosition /\ GapsAscend /\ NothingSkipped
    BY <2>1 DEF RangeIInv, ScanInv
  <2>5. Frontier' = Frontier /\ Yielded' = Yielded
    BY <2>3 DEF Frontier, Yielded
  <2>6. ScanPosition' /\ GapsAscend'
    BY <2>3, <2>4, <2>5 DEF ScanPosition, GapsAscend
  <2>7. NothingSkipped' /\ Undisturbed'
    BY <1>1, <2>3, <2>4, <2>5 DEF NothingSkipped, Undisturbed
  <2> QED
    BY <1>1, <1>2, <1>3, <2>3, <2>6, <2>7 DEF RangeIInv, RangeTypeOK, ScanInv
<1>5. CASE scan.at # "gap"
  BY <1>1, <1>2, <1>3, <1>5 DEF RangeIInv, RangeTypeOK, ScanInv
<1> QED
  BY <1>4, <1>5

\* Saving and loading: what is to be loaded is what was held.
LEMMA ReloadStep ==
  ASSUME RangeIInv, Reload
  PROVE  RangeIInv'
<1>1. loading' = ranges /\ ranges' = <<>> /\ scan' = NoScan /\ members' = members /\ loading = <<>>
  BY DEF Reload, AtRest
<1>2. Normal(ranges') /\ ranges' \in Seq(SpanType) /\ Values(ranges') = {}
  BY <1>1, EmptyList DEF Normal
<1>3. Values(loading) = {}
  BY <1>1, EmptyList
<1> QED
  BY <1>1, <1>2, <1>3 DEF RangeIInv, RangeTypeOK, SetInv, ScanInv, Normal

\* Loading an entry moves its integers from the file to the list.
LEMMA LoadStep ==
  ASSUME RangeIInv, LoadEntry
  PROVE  RangeIInv'
<1> DEFINE x == Head(loading)
<1>1. /\ loading # <<>> /\ loading' = Tail(loading) /\ scan' = scan /\ members' = members
      /\ ranges' = AddRange(ranges, x.lo, x.hi)
  BY DEF LoadEntry
<1>2. /\ loading \in Seq(SpanType) /\ ranges \in Seq(SpanType) /\ Normal(ranges)
      /\ \A i \in DOMAIN loading : loading[i].lo <= loading[i].hi
      /\ scan = NoScan /\ members \in SUBSET Int
      /\ members = Values(ranges) \cup Values(loading)
  BY <1>1 DEF RangeIInv, RangeTypeOK, SetInv
<1>3. /\ x \in SpanType /\ Tail(loading) \in Seq(SpanType)
      /\ 1 \in DOMAIN loading /\ x = loading[1]
      /\ \A i \in DOMAIN Tail(loading) :
           i + 1 \in DOMAIN loading /\ Tail(loading)[i] = loading[i + 1]
      /\ Values(loading) = Values(Tail(loading)) \cup x.lo .. x.hi
  BY <1>1, <1>2, FirstEntry
<1> HIDE DEF x
<1>4. x.lo \in Int /\ x.hi \in Int /\ x.lo <= x.hi
  BY <1>2, <1>3 DEF SpanType
<1>5. /\ ranges' \in Seq(SpanType) /\ Normal(ranges')
      /\ Values(ranges') = Values(ranges) \cup x.lo .. x.hi
  BY <1>1, <1>2, <1>4, AddRangeAdds
<1>6. \A i \in DOMAIN Tail(loading) : Tail(loading)[i].lo <= Tail(loading)[i].hi
  BY <1>2, <1>3
<1>7. members' = Values(ranges') \cup Values(loading')
  BY <1>1, <1>2, <1>3, <1>5
<1> QED
  BY <1>1, <1>2, <1>3, <1>5, <1>6, <1>7 DEF RangeIInv, RangeTypeOK, SetInv, ScanInv

\* A scan that begins has nothing behind it.
LEMMA MissingInStep ==
  ASSUME RangeIInv, NEW low \in Int, NEW high \in Int, MissingIn(low, high)
  PROVE  RangeIInv'
<1>1. /\ scan' = [at |-> IF high < low THEN "done" ELSE "loop",
                  low |-> low, high |-> high, cursor |-> low, next |-> 1,
                  last |-> low, gaps |-> <<>>, disturbed |-> FALSE]
      /\ loading = <<>> /\ UNCHANGED <<ranges, loading, members>>
  BY DEF MissingIn, AtRest
<1>2. /\ scan'.at = (IF high < low THEN "done" ELSE "loop")
      /\ scan'.low = low /\ scan'.high = high /\ scan'.cursor = low /\ scan'.next = 1
      /\ scan'.gaps = <<>> /\ scan'.disturbed = FALSE
  BY <1>1
<1>3. scan' \in ScanType
  <2>1. <<>> \in Seq(SpanType)
    BY EmptyList
  <2> QED
    BY <1>1, <2>1 DEF ScanType
<1>4. Frontier' = IF high < low THEN high + 1 ELSE low
  BY <1>2 DEF Frontier
<1>5. Yielded' = {} /\ DOMAIN scan'.gaps = {}
  BY <1>2, EmptyList DEF Yielded
<1>6. ScanPosition' /\ GapsAscend'
  BY <1>2, <1>5 DEF ScanPosition, GapsAscend
<1>7. NothingSkipped'
  BY <1>2, <1>4 DEF NothingSkipped
<1>8. Undisturbed'
  <2>1. ranges \in Seq(SpanType)
    BY DEF RangeIInv, RangeTypeOK
  <2>2. \A i \in DOMAIN ranges : ~(i < 1)
    BY <2>1, ListFacts
  <2> QED
    BY <1>1, <1>2, <1>5, <2>2 DEF Undisturbed
<1> QED
  BY <1>1, <1>3, <1>6, <1>7, <1>8 DEF RangeIInv, RangeTypeOK, SetInv, ScanInv

\* A step of a scan leaves the set alone.
LEMMA ScanStep ==
  ASSUME RangeIInv, UNCHANGED <<ranges, loading, members>>, loading = <<>>,
         scan' \in ScanType, ScanInv'
  PROVE  RangeIInv'
  BY DEF RangeIInv, RangeTypeOK, SetInv

\* What is known while a scan stands at an entry, or waits at a gap.
LEMMA ScanUnderWay ==
  ASSUME RangeIInv, scan.at \in {"loop", "gap"}
  PROVE  /\ scan # NoScan /\ scan \in ScanType /\ loading = <<>>
         /\ scan.low \in Int /\ scan.high \in Int /\ scan.cursor \in Int /\ scan.last \in Int
         /\ scan.next \in Nat /\ scan.next > 0 /\ scan.gaps \in Seq(SpanType)
         /\ scan.disturbed \in BOOLEAN
         /\ scan.low <= scan.cursor /\ scan.cursor <= scan.high
         /\ scan.at = "gap" => scan.cursor <= scan.last
         /\ GapsAscend /\ NothingSkipped /\ Undisturbed
         /\ ranges \in Seq(SpanType) /\ Normal(ranges) /\ members = Values(ranges)
<1>1. scan # NoScan
  BY ScanIsOn
<1>2. ScanInv /\ SetInv /\ RangeTypeOK
  BY DEF RangeIInv
<1>3. loading = <<>> /\ members = Values(ranges)
  BY <1>1, <1>2, EmptyList DEF SetInv
<1>4. scan.low <= scan.cursor /\ scan.cursor <= scan.high /\ (scan.at = "gap" => scan.cursor <= scan.last)
  BY <1>1, <1>2 DEF ScanInv, ScanPosition
<1>5. GapsAscend /\ NothingSkipped /\ Undisturbed
  BY <1>1, <1>2 DEF ScanInv
<1>6. ranges \in Seq(SpanType) /\ Normal(ranges)
  BY <1>2 DEF RangeTypeOK, SetInv
<1> QED
  BY <1>1, <1>2, <1>3, <1>4, <1>5, <1>6, ScanFacts

\* The entry an iteration looks at, and those around it.
LEMMA ThisFacts ==
  ASSUME RangeIInv, HasRange
  PROVE  /\ scan.next \in DOMAIN ranges /\ This \in SpanType
         /\ This.lo \in Int /\ This.hi \in Int /\ This.lo <= This.hi
         /\ This.lo .. This.hi \subseteq members
         /\ \A i \in DOMAIN ranges : /\ i \in Nat /\ ranges[i].lo \in Int /\ ranges[i].hi \in Int
                                     /\ i < scan.next => ranges[i].hi < This.lo
                                     /\ i > scan.next => This.hi + 1 < ranges[i].lo
                                     /\ i < scan.next + 1 => i < scan.next \/ i = scan.next
<1>1. /\ scan.at = "loop" /\ scan.next <= Len(ranges)
  BY DEF HasRange
<1>2. /\ ranges \in Seq(SpanType) /\ Normal(ranges) /\ members = Values(ranges)
      /\ scan.next \in Nat /\ scan.next > 0
  BY <1>1, ScanUnderWay
<1>3. /\ Len(ranges) \in Nat /\ DOMAIN ranges = 1 .. Len(ranges)
      /\ \A i \in 1 .. Len(ranges) : /\ ranges[i] \in SpanType
                                     /\ ranges[i].lo \in Int /\ ranges[i].hi \in Int
  BY <1>2, ListFacts
<1>4. scan.next \in DOMAIN ranges
  BY <1>1, <1>2, <1>3
<1>5. This \in SpanType /\ This.lo \in Int /\ This.hi \in Int /\ This.lo <= This.hi
  BY <1>2, <1>3, <1>4 DEF Normal, This
<1>6. \A v \in This.lo .. This.hi : v \in members
  BY <1>2, <1>3, <1>4, <1>5, MemberOf DEF This
<1>7. \A i \in DOMAIN ranges : /\ i < scan.next => ranges[i].hi < This.lo
                               /\ i > scan.next => This.hi + 1 < ranges[i].lo
                               /\ i < scan.next + 1 => i < scan.next \/ i = scan.next
  BY <1>2, <1>3, <1>4, <1>5 DEF Normal, This
<1> QED
  BY <1>3, <1>4, <1>5, <1>6, <1>7

\* Passing a range before the cursor.
LEMMA PassStep ==
  ASSUME RangeIInv, PassRange
  PROVE  RangeIInv'
<1>1. /\ HasRange /\ scan.at = "loop" /\ This.hi < scan.cursor
      /\ scan' = [scan EXCEPT !.next = @ + 1] /\ UNCHANGED <<ranges, loading, members>>
  BY DEF PassRange, HasRange
<1>2. /\ scan \in ScanType /\ loading = <<>> /\ scan.next \in Nat
      /\ scan.low <= scan.cursor /\ scan.cursor <= scan.high
      /\ GapsAscend /\ NothingSkipped /\ Undisturbed
  BY <1>1, ScanUnderWay
<1>3. /\ scan' \in ScanType /\ scan'.next = scan.next + 1
      /\ scan'.at = scan.at /\ scan'.low = scan.low /\ scan'.high = scan.high
      /\ scan'.cursor = scan.cursor /\ scan'.gaps = scan.gaps
      /\ scan'.disturbed = scan.disturbed
  BY <1>1, <1>2 DEF ScanType
<1>4. Frontier' = Frontier /\ Frontier = scan.cursor /\ Yielded' = Yielded
  BY <1>1, <1>3 DEF Frontier, Yielded
<1>5. ScanPosition' /\ GapsAscend' /\ NothingSkipped'
  BY <1>1, <1>2, <1>3, <1>4 DEF ScanPosition, GapsAscend, NothingSkipped
<1>6. Undisturbed'
  <2>1. SUFFICES ASSUME ~scan.disturbed
        PROVE  /\ Yielded \cap members = {}
               /\ \A i \in DOMAIN ranges : i < scan.next + 1 => ranges[i].hi < scan.cursor
    BY <1>1, <1>3, <1>4 DEF Undisturbed
  <2>2. /\ Yielded \cap members = {}
        /\ \A i \in DOMAIN ranges : i < scan.next => ranges[i].hi < scan.cursor
    BY <1>1, <1>2, <1>4, <2>1 DEF Undisturbed
  <2>3. \A i \in DOMAIN ranges : i < scan.next + 1 => i < scan.next \/ i = scan.next
    BY <1>1, ThisFacts
  <2>4. ranges[scan.next].hi < scan.cursor
    BY <1>1 DEF This
  <2> QED
    BY <2>2, <2>3, <2>4
<1> QED
  BY <1>1, <1>2, <1>3, <1>5, <1>6, ScanStep DEF ScanInv

\* Where the cursor moves when a range ends at or behind it.
LEMMA AdvancedFacts ==
  ASSUME NEW s \in ScanType, NEW to \in Int, s.cursor <= to
  PROVE  /\ Advanced(s, to) \in ScanType
         /\ Advanced(s, to).cursor = to + 1
         /\ Advanced(s, to).at = IF to + 1 > s.high THEN "done" ELSE "loop"
         /\ Advanced(s, to).low = s.low /\ Advanced(s, to).high = s.high
         /\ Advanced(s, to).next = s.next /\ Advanced(s, to).gaps = s.gaps
         /\ Advanced(s, to).disturbed = s.disturbed
<1>1. s.cursor \in Int /\ ~(s.cursor >= to + 1) /\ to + 1 \in Int
  BY DEF ScanType
<1>2. Advanced(s, to) = [s EXCEPT !.cursor = to + 1,
                                  !.at = IF to + 1 > s.high THEN "done" ELSE "loop"]
  BY <1>1 DEF Advanced
<1> QED
  BY <1>1, <1>2 DEF ScanType

\* Behind a range that the cursor crosses, or whose gap was yielded, the
\* integers up to its end are accounted for.
LEMMA CrossedInv ==
  ASSUME RangeIInv, NEW to \in Int, scan.at \in {"loop", "gap"}, scan.cursor <= to,
         UNCHANGED <<ranges, loading, members>>,
         scan' \in ScanType, scan'.cursor = to + 1,
         scan'.at = IF to + 1 > scan.high THEN "done" ELSE "loop",
         scan'.low = scan.low, scan'.high = scan.high, scan'.gaps = scan.gaps,
         scan'.disturbed = scan.disturbed,
         Frontier \in Int, Frontier <= to + 1,
         \A v \in scan.low .. scan.high : Frontier <= v /\ v <= to => v \in members,
         ~scan.disturbed => \A i \in DOMAIN ranges : i < scan'.next => ranges[i].hi < to + 1
  PROVE  RangeIInv'
<1>1. /\ scan \in ScanType /\ loading = <<>>
      /\ scan.low \in Int /\ scan.high \in Int /\ scan.cursor \in Int
      /\ scan.low <= scan.cursor /\ scan.cursor <= scan.high
      /\ scan.gaps \in Seq(SpanType)
      /\ GapsAscend /\ NothingSkipped /\ Undisturbed
  BY ScanUnderWay
<1>2. /\ Frontier' \in Int /\ Frontier' <= to + 1 /\ Frontier' > scan.cursor
      /\ Frontier' = to + 1 \/ Frontier' = scan.high + 1
      /\ scan'.at = "loop" => Frontier' = to + 1
  BY <1>1 DEF Frontier
<1>3. Yielded' = Yielded
  BY DEF Yielded
<1>4. ScanPosition'
  BY <1>1 DEF ScanPosition
<1>5. GapsAscend'
  <2>1. \A i \in DOMAIN scan.gaps : scan.gaps[i].hi \in Int
    BY <1>1, ListFacts
  <2>2. \A i \in DOMAIN scan.gaps : scan.gaps[i].hi < Frontier'
    BY <1>1, <1>2, <2>1 DEF GapsAscend
  <2> QED
    BY <1>1, <2>2 DEF GapsAscend
<1>6. NothingSkipped'
  <2>1. SUFFICES ASSUME NEW v \in scan.low .. scan.high, v <= to
        PROVE  v \in Yielded \cup members
    BY <1>1, <1>2, <1>3 DEF NothingSkipped
  <2> QED
    BY <1>1, <2>1 DEF NothingSkipped
<1>7. Undisturbed'
  BY <1>1, <1>2, <1>3 DEF Undisturbed
<1> QED
  BY <1>1, <1>4, <1>5, <1>6, <1>7, ScanStep DEF ScanInv

\* Crossing a range that begins at or before the cursor.
LEMMA CrossStep ==
  ASSUME RangeIInv, CrossRange
  PROVE  RangeIInv'
<1> DEFINE s == [scan EXCEPT !.next = @ + 1]
<1>1. /\ HasRange /\ scan.at = "loop"
      /\ This.hi >= scan.cursor /\ This.lo <= scan.cursor
      /\ scan' = Advanced(s, This.hi)
      /\ UNCHANGED <<ranges, loading, members>>
  BY DEF CrossRange, HasRange
<1>2. /\ scan \in ScanType /\ scan.next \in Nat /\ scan.cursor \in Int
      /\ scan.low \in Int /\ scan.high \in Int /\ Undisturbed
  BY <1>1, ScanUnderWay
<1>3. /\ s \in ScanType /\ s.next = scan.next + 1 /\ s.cursor = scan.cursor
      /\ s.low = scan.low /\ s.high = scan.high /\ s.gaps = scan.gaps
      /\ s.disturbed = scan.disturbed
  BY <1>2 DEF ScanType
<1> HIDE DEF s
<1>4. PICK to \in Int : to = This.hi
  BY <1>1, ThisFacts
<1>5. scan.cursor <= to /\ scan' = Advanced(s, to)
  BY <1>1, <1>2, <1>4
<1>6. /\ scan' \in ScanType /\ scan'.cursor = to + 1
      /\ scan'.at = IF to + 1 > scan.high THEN "done" ELSE "loop"
      /\ scan'.low = scan.low /\ scan'.high = scan.high
      /\ scan'.next = scan.next + 1 /\ scan'.gaps = scan.gaps
      /\ scan'.disturbed = scan.disturbed
  BY <1>3, <1>5, AdvancedFacts
<1>7. Frontier = scan.cursor
  BY <1>1 DEF Frontier
<1>8. ASSUME NEW v \in scan.low .. scan.high, Frontier <= v, v <= to PROVE v \in members
  BY <1>1, <1>2, <1>4, <1>7, <1>8, ThisFacts
<1>9. ASSUME ~scan.disturbed, NEW i \in DOMAIN ranges, i < scan'.next
      PROVE  ranges[i].hi < to + 1
  <2>1. i < scan.next \/ i = scan.next
    BY <1>1, <1>6, <1>9, ThisFacts
  <2>2. CASE i < scan.next
    <3>1. ranges[i].hi < scan.cursor /\ ranges[i].hi \in Int
      BY <1>1, <1>2, <1>7, <1>9, <2>2, ThisFacts DEF Undisturbed
    <3> QED
      BY <1>2, <1>5, <3>1
  <2>3. CASE i = scan.next
    BY <1>4, <2>3 DEF This
  <2> QED
    BY <2>1, <2>2, <2>3
<1> QED
  BY <1>1, <1>2, <1>5, <1>6, <1>7, <1>8, <1>9, CrossedInv

\* Going on behind a yielded gap, with the end of the range read before it.
LEMMA GoOnStep ==
  ASSUME RangeIInv, Resume
  PROVE  RangeIInv'
<1>1. /\ scan.at = "gap" /\ scan' = Advanced(scan, scan.last)
      /\ UNCHANGED <<ranges, loading, members>>
  BY DEF Resume
<1>2. /\ scan \in ScanType /\ scan.cursor \in Int /\ scan.last \in Int
      /\ scan.cursor <= scan.last /\ Undisturbed
  BY <1>1, ScanUnderWay
<1>3. PICK to \in Int : to = scan.last
  BY <1>2
<1>4. scan.cursor <= to /\ scan' = Advanced(scan, to)
  BY <1>1, <1>2, <1>3
<1>5. /\ scan' \in ScanType /\ scan'.cursor = to + 1
      /\ scan'.at = IF to + 1 > scan.high THEN "done" ELSE "loop"
      /\ scan'.low = scan.low /\ scan'.high = scan.high
      /\ scan'.next = scan.next /\ scan'.gaps = scan.gaps
      /\ scan'.disturbed = scan.disturbed
  BY <1>2, <1>4, AdvancedFacts
<1>6. Frontier = to + 1
  BY <1>1, <1>3 DEF Frontier
<1>7. \A v \in scan.low .. scan.high : ~(Frontier <= v /\ v <= to)
  BY <1>6
<1>8. ~scan.disturbed => \A i \in DOMAIN ranges : i < scan'.next => ranges[i].hi < to + 1
  BY <1>1, <1>2, <1>5, <1>6 DEF Undisturbed
<1> QED
  BY <1>1, <1>4, <1>5, <1>6, <1>7, <1>8, CrossedInv

\* A gap from the cursor to an integer below what the iterator stands at holds
\* nothing that is covered, if the caller has added nothing.
LEMMA GapIsUncovered ==
  ASSUME RangeIInv, scan.at = "loop", ~scan.disturbed, NEW v \in Int, scan.cursor <= v,
         scan.next <= Len(ranges) => v < This.lo
  PROVE  v \notin members
<1>1. /\ ranges \in Seq(SpanType) /\ Normal(ranges) /\ members = Values(ranges)
      /\ scan.cursor \in Int /\ scan.next \in Nat /\ Undisturbed
  BY ScanUnderWay
<1>2. SUFFICES ASSUME NEW i \in DOMAIN ranges, ranges[i].lo <= v, v <= ranges[i].hi PROVE FALSE
  BY <1>1, MemberOf, ListFacts
<1>3. Len(ranges) \in Nat /\ i \in 1 .. Len(ranges) /\ ranges[i].lo \in Int /\ ranges[i].hi \in Int
  BY <1>1, ListFacts
<1>4. CASE i < scan.next
  <2>1. ranges[i].hi < scan.cursor
    BY <1>1, <1>4 DEF Undisturbed, Frontier
  <2> QED
    BY <1>1, <1>2, <1>3, <2>1
<1>5. CASE i >= scan.next
  <2>1. HasRange
    BY <1>1, <1>3, <1>5 DEF HasRange
  <2>2. v < This.lo
    BY <2>1 DEF HasRange
  <2>3. CASE i = scan.next
    BY <1>2, <1>3, <2>2, <2>3 DEF This
  <2>4. CASE i > scan.next
    <3>1. This.hi + 1 < ranges[i].lo /\ This.lo <= This.hi /\ This.lo \in Int /\ This.hi \in Int
      BY <2>1, <2>4, ThisFacts
    <3> QED
      BY <1>2, <1>3, <2>2, <3>1
  <2> QED
    BY <1>1, <1>3, <1>5, <2>3, <2>4
<1> QED
  BY <1>1, <1>3, <1>4, <1>5

\* Yielding a gap that begins at the cursor.
LEMMA YieldedInv ==
  ASSUME RangeIInv, scan.at = "loop", NEW to \in Int, scan.cursor <= to, to <= scan.high,
         UNCHANGED <<ranges, loading, members>>,
         scan' \in ScanType, scan'.cursor = scan.cursor,
         scan'.low = scan.low, scan'.high = scan.high,
         scan'.gaps = Append(scan.gaps, Span(scan.cursor, to)),
         scan'.disturbed = scan.disturbed,
         scan'.at \in {"gap", "done"}, scan'.at = "gap" => scan.cursor <= scan'.last,
         Frontier' \in Int, to < Frontier',
         \A v \in scan.low .. scan.high : to < v /\ v < Frontier' => v \in members,
         scan.next <= Len(ranges) => to < This.lo,
         ~scan.disturbed /\ scan'.at # "done" =>
           \A i \in DOMAIN ranges : i < scan'.next => ranges[i].hi < Frontier'
  PROVE  RangeIInv'
<1>1. /\ scan \in ScanType /\ loading = <<>>
      /\ scan.low \in Int /\ scan.high \in Int /\ scan.cursor \in Int
      /\ scan.low <= scan.cursor /\ scan.cursor <= scan.high
      /\ scan.gaps \in Seq(SpanType)
      /\ GapsAscend /\ NothingSkipped /\ Undisturbed
  BY ScanUnderWay
<1>2. PICK x \in SpanType : x = Span(scan.cursor, to)
  BY <1>1 DEF Span, SpanType
<1>3. x.lo = scan.cursor /\ x.hi = to
  BY <1>2 DEF Span
<1>4. IsAppended(scan'.gaps, scan.gaps, x)
  BY <1>1, <1>2, AppendedEntries
<1>5. Frontier = scan.cursor
  BY DEF Frontier
<1>6. Yielded' = Yielded \cup scan.cursor .. to
  BY <1>3, <1>4 DEF IsAppended, Yielded
<1>7. ScanPosition'
  BY <1>1 DEF ScanPosition
<1>8. GapsAscend'
  <2>1. /\ Len(scan.gaps) \in Nat /\ DOMAIN scan.gaps = 1 .. Len(scan.gaps)
        /\ \A i \in 1 .. Len(scan.gaps) : scan.gaps[i].lo \in Int /\ scan.gaps[i].hi \in Int
    BY <1>1, ListFacts
  <2>2. /\ DOMAIN scan'.gaps = 1 .. Len(scan.gaps) + 1
        /\ \A i \in 1 .. Len(scan.gaps) : scan'.gaps[i] = scan.gaps[i]
        /\ scan'.gaps[Len(scan.gaps) + 1] = x
    BY <1>4 DEF IsAppended
  <2>3. \A i \in DOMAIN scan'.gaps : i \in 1 .. Len(scan.gaps) \/ i = Len(scan.gaps) + 1
    BY <2>1, <2>2
  <2>4. ASSUME NEW i \in 1 .. Len(scan.gaps)
        PROVE  /\ scan.low <= scan.gaps[i].lo /\ scan.gaps[i].hi <= scan.high
               /\ scan.gaps[i].hi < scan.cursor
    BY <1>1, <1>5, <2>1 DEF GapsAscend
  <2>5. ASSUME NEW i \in DOMAIN scan'.gaps
        PROVE  /\ scan.low <= scan'.gaps[i].lo /\ scan'.gaps[i].hi <= scan.high
               /\ scan'.gaps[i].hi < Frontier'
    <3>1. CASE i \in 1 .. Len(scan.gaps)
      <4>1. scan'.gaps[i] = scan.gaps[i] /\ scan.gaps[i].hi \in Int
        BY <2>1, <2>2, <3>1
      <4>2. /\ scan.low <= scan.gaps[i].lo /\ scan.gaps[i].hi <= scan.high
            /\ scan.gaps[i].hi < scan.cursor
        BY <2>4, <3>1
      <4> QED
        BY <1>1, <4>1, <4>2
    <3>2. CASE i = Len(scan.gaps) + 1
      BY <1>1, <1>3, <2>2, <3>2
    <3> QED
      BY <2>3, <3>1, <3>2
  <2>6. ASSUME NEW i \in DOMAIN scan'.gaps, NEW j \in DOMAIN scan'.gaps, i < j
        PROVE  scan'.gaps[i].hi < scan'.gaps[j].lo
    <3>1. i \in 1 .. Len(scan.gaps)
      BY <2>1, <2>2, <2>3, <2>6
    <3>2. CASE j \in 1 .. Len(scan.gaps)
      BY <1>1, <2>1, <2>2, <2>6, <3>1, <3>2 DEF GapsAscend
    <3>3. CASE j = Len(scan.gaps) + 1
      BY <1>3, <2>2, <2>4, <3>1, <3>3
    <3> QED
      BY <2>3, <3>2, <3>3
  <2> QED
    BY <2>5, <2>6 DEF GapsAscend
<1>9. NothingSkipped'
  <2>1. SUFFICES ASSUME NEW v \in scan.low .. scan.high, v < Frontier'
        PROVE  v \in Yielded' \cup members
    BY DEF NothingSkipped
  <2>2. CASE v < scan.cursor
    BY <1>1, <1>5, <1>6, <2>2 DEF NothingSkipped
  <2>3. CASE scan.cursor <= v /\ v <= to
    BY <1>1, <1>6, <2>3
  <2>4. CASE to < v
    BY <2>1, <2>4
  <2> QED
    BY <1>1, <2>2, <2>3, <2>4
<1>10. Undisturbed'
  <2>1. SUFFICES ASSUME ~scan.disturbed PROVE Yielded' \cap members = {}
    BY DEF Undisturbed
  <2>2. Yielded \cap members = {}
    BY <1>1, <2>1 DEF Undisturbed
  <2>3. ASSUME NEW v \in scan.cursor .. to PROVE v \notin members
    <3>1. v \in Int /\ scan.cursor <= v /\ v <= to
      BY <1>1
    <3>2. scan.next <= Len(ranges) => v < This.lo
      <4>1. SUFFICES ASSUME scan.next <= Len(ranges) PROVE v < This.lo
        OBVIOUS
      <4>2. HasRange
        BY <4>1 DEF HasRange
      <4>3. This.lo \in Int
        BY <4>2, ThisFacts
      <4> QED
        BY <3>1, <4>1, <4>3
    <3> QED
      BY <2>1, <3>1, <3>2, GapIsUncovered
  <2> QED
    BY <1>6, <2>2, <2>3
<1> QED
  BY <1>1, <1>7, <1>8, <1>9, <1>10, ScanStep DEF ScanInv

\* Yielding the gap before a range.
LEMMA GapStep ==
  ASSUME RangeIInv, YieldGap
  PROVE  RangeIInv'
<1>1. /\ HasRange /\ scan.at = "loop"
      /\ This.hi >= scan.cursor /\ This.lo <= scan.high /\ This.lo > scan.cursor
      /\ UNCHANGED <<ranges, loading, members>>
  BY DEF YieldGap, HasRange
<1>2. /\ scan \in ScanType /\ scan.cursor \in Int /\ scan.next \in Nat
      /\ scan.low \in Int /\ scan.high \in Int /\ scan.gaps \in Seq(SpanType) /\ Undisturbed
  BY <1>1, ScanUnderWay
<1>3. This.lo \in Int /\ This.hi \in Int /\ This.lo <= This.hi /\ This.lo .. This.hi \subseteq members
  BY <1>1, ThisFacts
<1>4. PICK to \in Int : to = This.lo - 1
  BY <1>3
<1>5. Min({This.lo - 1, scan.high}) = to
  <2> DEFINE S == {This.lo - 1, scan.high}
  <2>1. S \in SUBSET Int /\ to \in S /\ \A v \in S : to <= v
    BY <1>1, <1>2, <1>3, <1>4
  <2> HIDE DEF S
  <2>2. Min(S) = to
    BY <2>1, MinIs
  <2> QED
    BY <2>2 DEF S
<1>6. scan' = [scan EXCEPT !.gaps = Append(@, Span(scan.cursor, to)),
                           !.at = "gap", !.last = This.hi, !.next = @ + 1]
  BY <1>5 DEF YieldGap
<1>7. Append(scan.gaps, Span(scan.cursor, to)) \in Seq(SpanType)
  <2>1. Span(scan.cursor, to) \in SpanType
    BY <1>2 DEF Span, SpanType
  <2> QED
    BY <1>2, <2>1
<1>8. /\ scan' \in ScanType /\ scan'.cursor = scan.cursor /\ scan'.next = scan.next + 1
      /\ scan'.low = scan.low /\ scan'.high = scan.high /\ scan'.last = This.hi
      /\ scan'.gaps = Append(scan.gaps, Span(scan.cursor, to))
      /\ scan'.disturbed = scan.disturbed /\ scan'.at = "gap"
  <2>1. PICK g \in Seq(SpanType) : g = Append(scan.gaps, Span(scan.cursor, to))
    BY <1>7
  <2>2. PICK h \in Int : h = This.hi
    BY <1>3
  <2>3. scan' = [scan EXCEPT !.gaps = g, !.at = "gap", !.last = h, !.next = scan.next + 1]
    BY <1>6, <2>1, <2>2
  <2>4. scan.next + 1 \in Nat \ {0}
    BY <1>2
  <2>5. /\ scan' \in ScanType /\ scan'.cursor = scan.cursor /\ scan'.next = scan.next + 1
        /\ scan'.low = scan.low /\ scan'.high = scan.high /\ scan'.last = h
        /\ scan'.gaps = g /\ scan'.disturbed = scan.disturbed /\ scan'.at = "gap"
    BY <1>2, <2>3, <2>4 DEF ScanType
  <2> QED
    BY <2>1, <2>2, <2>5
<1>9. Frontier' = This.hi + 1
  BY <1>8 DEF Frontier
<1>10. scan.cursor <= to /\ to <= scan.high /\ to < Frontier' /\ Frontier' \in Int /\ scan.cursor <= This.hi
  BY <1>1, <1>2, <1>3, <1>4, <1>9, SMTT(20)
<1>11. ASSUME NEW v \in scan.low .. scan.high, to < v, v < Frontier' PROVE v \in members
  <2>1. v \in This.lo .. This.hi
    BY <1>2, <1>3, <1>4, <1>9, <1>11
  <2> QED
    BY <1>3, <2>1
<1>12. to < This.lo
  BY <1>3, <1>4
<1>13. ASSUME ~scan.disturbed, NEW i \in DOMAIN ranges, i < scan'.next
       PROVE  ranges[i].hi < Frontier'
  <2>1. /\ i < scan.next \/ i = scan.next
        /\ i < scan.next => ranges[i].hi < This.lo
        /\ ranges[i].hi \in Int
    BY <1>1, <1>8, <1>13, ThisFacts
  <2>2. CASE i < scan.next
    BY <1>3, <1>9, <2>1, <2>2
  <2>3. CASE i = scan.next
    BY <1>3, <1>9, <2>3 DEF This
  <2> QED
    BY <2>1, <2>2, <2>3
<1> QED
  BY <1>1, <1>8, <1>10, <1>11, <1>12, <1>13, YieldedInv

\* The end of a scan: what is left of the span is a gap.
LEMMA RestStep ==
  ASSUME RangeIInv, YieldRest
  PROVE  RangeIInv'
<1>1. /\ scan.at = "loop" /\ (HasRange => This.lo > scan.high)
      /\ UNCHANGED <<ranges, loading, members>>
  BY DEF YieldRest
<1>2. /\ scan \in ScanType /\ scan.cursor \in Int /\ scan.next \in Nat
      /\ scan.low \in Int /\ scan.high \in Int /\ scan.gaps \in Seq(SpanType)
      /\ scan.cursor <= scan.high
  BY <1>1, ScanUnderWay
<1>3. PICK to \in Int : to = scan.high
  BY <1>2
<1>4. scan' = [scan EXCEPT !.gaps = Append(@, Span(scan.cursor, to)), !.at = "done"]
  BY <1>2, <1>3 DEF YieldRest
<1>5. Append(scan.gaps, Span(scan.cursor, to)) \in Seq(SpanType)
  <2>1. Span(scan.cursor, to) \in SpanType
    BY <1>2 DEF Span, SpanType
  <2> QED
    BY <1>2, <2>1
<1>6. /\ scan' \in ScanType /\ scan'.cursor = scan.cursor
      /\ scan'.low = scan.low /\ scan'.high = scan.high
      /\ scan'.gaps = Append(scan.gaps, Span(scan.cursor, to))
      /\ scan'.disturbed = scan.disturbed /\ scan'.at = "done"
  BY <1>2, <1>4, <1>5 DEF ScanType
<1>7. Frontier' = to + 1
  BY <1>3, <1>6 DEF Frontier
<1>8. scan.cursor <= to /\ to <= scan.high /\ to < Frontier' /\ Frontier' \in Int
  BY <1>2, <1>3, <1>7
<1>9. \A v \in scan.low .. scan.high : ~(to < v)
  BY <1>2, <1>3
<1>10. scan.next <= Len(ranges) => to < This.lo
  <2>1. SUFFICES ASSUME scan.next <= Len(ranges) PROVE to < This.lo
    OBVIOUS
  <2>2. HasRange
    BY <1>1, <2>1 DEF HasRange
  <2> QED
    BY <1>1, <1>2, <1>3, <2>2, ThisFacts
<1> QED
  BY <1>1, <1>6, <1>8, <1>9, <1>10, YieldedInv

\* Every step keeps the invariant.
LEMMA RangeNextIInv ==
  ASSUME BoundsAssumption, RangeIInv, [RangeNext]_range_vars
  PROVE  RangeIInv'
<1>1. ASSUME NEW low \in Value, NEW high \in Value, Add(low, high) \/ MissingIn(low, high)
      PROVE  RangeIInv'
  <2>1. low \in Int /\ high \in Int
    BY DEF BoundsAssumption, Value
  <2> QED
    BY <1>1, <2>1, AddStep, MissingInStep
<1>2. CASE UNCHANGED range_vars
  <2>1. ranges' = ranges /\ loading' = loading /\ scan' = scan /\ members' = members
    BY <1>2 DEF range_vars
  <2>2. RangeTypeOK' /\ SetInv'
    BY <2>1 DEF RangeIInv, RangeTypeOK, SetInv
  <2>3. Frontier' = Frontier /\ Yielded' = Yielded
    BY <2>1 DEF Frontier, Yielded
  <2>4. ScanInv'
    BY <2>1, <2>3 DEF RangeIInv, ScanInv, ScanPosition, GapsAscend, NothingSkipped, Undisturbed
  <2> QED
    BY <2>2, <2>4 DEF RangeIInv
<1> QED
  BY <1>1, <1>2, ReloadStep, LoadStep, PassStep, CrossStep, GapStep, GoOnStep, RestStep
  DEF RangeNext

\* RangeIInv holds in every state of every history of additions, reloads and
\* scans.
THEOREM RangeInvariance == RangeSpec => []RangeIInv
  BY BoundsAssumption, RangeInitIInv, RangeNextIInv, PTL DEF RangeSpec

\* The list is always sorted, disjoint and not even adjacent, whatever ranges
\* were added in which order (add_range).
THEOREM NormalisedHolds == RangeSpec => []Normalised
<1>1. RangeIInv => Normalised
  BY DEF RangeIInv, SetInv, Normalised
<1> QED
  BY <1>1, RangeInvariance, PTL

\* A membership test answers for exactly what was added, also behind a restart
\* and for a state file of the old format (__contains__, from_list).
THEOREM ContainsExactlyHolds == RangeSpec => []ContainsExactly
<1>1. ASSUME RangeIInv PROVE ContainsExactly
  <2>1. SUFFICES ASSUME loading = <<>>, NEW v \in Low - 1 .. High + 1
        PROVE  Covers(ranges, v) <=> v \in members
    BY DEF ContainsExactly
  <2>2. ranges \in Seq(SpanType) /\ Normal(ranges) /\ members = Values(ranges)
    BY <1>1, <2>1, EmptyList DEF RangeIInv, RangeTypeOK, SetInv
  <2>3. v \in Int
    BY BoundsAssumption DEF BoundsAssumption
  <2> QED
    BY <2>2, <2>3, CoversMembers
<1> QED
  BY <1>1, RangeInvariance, PTL

\* All gaps of a scan lie in its span.
LEMMA YieldedInSpan ==
  ASSUME RangeIInv, scan # NoScan
  PROVE  Yielded \subseteq scan.low .. scan.high
<1>1. scan.gaps \in Seq(SpanType) /\ scan.low \in Int /\ scan.high \in Int
  BY ScanFacts DEF RangeIInv
<1>2. GapsAscend
  BY DEF RangeIInv, ScanInv
<1>3. SUFFICES ASSUME NEW v \in Yielded PROVE v \in scan.low .. scan.high
  OBVIOUS
<1>4. PICK i \in 1 .. Len(scan.gaps) : v \in Int /\ scan.gaps[i].lo <= v /\ v <= scan.gaps[i].hi
  BY <1>1, <1>3, MemberOf DEF Yielded
<1>5. /\ scan.gaps[i].lo \in Int /\ scan.gaps[i].hi \in Int
      /\ scan.low <= scan.gaps[i].lo /\ scan.gaps[i].hi <= scan.high
  BY <1>1, <1>2, ListFacts DEF GapsAscend
<1> QED
  BY <1>1, <1>4, <1>5

\* The gaps missing_in yields to a caller that adds nothing meanwhile are, by
\* the end, exactly what the span has and the set does not.
THEOREM MissingExactlyHolds == RangeSpec => []MissingExactly
<1>1. ASSUME RangeIInv PROVE MissingExactly
  <2>1. SUFFICES ASSUME scan.at # "off", ~scan.disturbed
        PROVE  /\ Yielded \subseteq (scan.low .. scan.high) \ members
               /\ scan.at = "done" => Yielded = (scan.low .. scan.high) \ members
    BY DEF MissingExactly
  <2>2. scan # NoScan /\ Yielded \subseteq scan.low .. scan.high
    BY <1>1, <2>1, ScanIsOn, YieldedInSpan
  <2>3. Undisturbed /\ NothingSkipped
    BY <1>1, <2>2 DEF RangeIInv, ScanInv
  <2>4. Yielded \cap members = {}
    BY <2>1, <2>3 DEF Undisturbed
  <2>5. ASSUME scan.at = "done" PROVE scan.low .. scan.high \subseteq Yielded \cup members
    <3>1. scan.low \in Int /\ scan.high \in Int
      BY <1>1, <2>2, ScanFacts DEF RangeIInv
    <3>2. Frontier = scan.high + 1
      BY <2>5 DEF Frontier
    <3> QED
      BY <2>3, <3>1, <3>2 DEF NothingSkipped
  <2> QED
    BY <2>2, <2>4, <2>5
<1> QED
  BY <1>1, RangeInvariance, PTL

\* A caller that adds to the set while it consumes missing_in is never led past
\* an integer that is missing, nor handed one twice.
THEOREM NothingMissedHolds == RangeSpec => []NothingMissed
<1>1. ASSUME RangeIInv PROVE NothingMissed
  <2>1. SUFFICES ASSUME scan.at # "off"
        PROVE  /\ scan.at = "done" => scan.low .. scan.high \subseteq Yielded \cup members
               /\ Yielded \subseteq scan.low .. scan.high
               /\ \A i, j \in DOMAIN scan.gaps : i < j => scan.gaps[i].hi < scan.gaps[j].lo
    BY DEF NothingMissed
  <2>2. scan # NoScan /\ Yielded \subseteq scan.low .. scan.high
    BY <1>1, <2>1, ScanIsOn, YieldedInSpan
  <2>3. GapsAscend /\ NothingSkipped
    BY <1>1, <2>2 DEF RangeIInv, ScanInv
  <2>4. ASSUME scan.at = "done" PROVE scan.low .. scan.high \subseteq Yielded \cup members
    <3>1. scan.low \in Int /\ scan.high \in Int
      BY <1>1, <2>2, ScanFacts DEF RangeIInv
    <3>2. Frontier = scan.high + 1
      BY <2>4 DEF Frontier
    <3> QED
      BY <2>3, <3>1, <3>2 DEF NothingSkipped
  <2> QED
    BY <2>2, <2>3, <2>4 DEF GapsAscend
<1> QED
  BY <1>1, RangeInvariance, PTL

-----------------------------------------------------------------------------
(* IngestionState.processed_ledgers is such a list.                        *)

\* record_processed on the ranges does what it does on the plain set that
\* LedgerIngestion uses, and keeps the normal form it rests on.
THEOREM RangesRepresentDone ==
  ASSUME ConstantsAssumption, NEW s \in State, NEW l \in Ledger,
         NEW r \in Seq(SpanType), Normal(r), Values(r) = s.done
  PROVE  /\ Normal(AddRange(r, l, l))
         /\ Values(AddRange(r, l, l)) = RecordProcessed(s, l).done
         /\ \A m \in Ledger : Covers(AddRange(r, l, l), m) <=> m \in RecordProcessed(s, l).done
<1>1. Ledger \subseteq Int
  BY DEF ConstantsAssumption, Ledger
<1>2. l \in Int /\ l <= l /\ l .. l = {l}
  BY <1>1
<1>3. /\ AddRange(r, l, l) \in Seq(SpanType) /\ Normal(AddRange(r, l, l))
      /\ Values(AddRange(r, l, l)) = Values(r) \cup l .. l
  BY <1>2, AddRangeAdds
<1>4. Values(AddRange(r, l, l)) = RecordProcessed(s, l).done
  BY <1>2, <1>3 DEF RecordProcessed
<1>5. \A m \in Ledger : Covers(AddRange(r, l, l), m) <=> m \in Values(AddRange(r, l, l))
  BY <1>1, <1>3, CoversMembers
<1> QED
  BY <1>3, <1>4, <1>5
=============================================================================
