# AstroML, verified

TLA+ specifications of the stateful core of AstroML: the ledger ingestion
service, the enhanced Horizon streams and the services that run them, the
claim service, the deployment managers and their traffic router, pipeline runs,
budget alerts and the on-chain fraud registry. Each module is translated from the
source; TLC checks it on small instances and, for eight of them, TLAPS proves the main
properties for every instance. Paths below are relative to the repository.

* [Inventory](#inventory)
* [Modules](#modules) - what each models and how it corresponds to the code
* [Runs](#runs) - what each checks, its bounds and what it shows
* [Fairness](#fairness)
* [Proofs](#proofs)
* [Where code and documentation part](#where-code-and-documentation-part)
* [What is not modelled](#what-is-not-modelled)
* [Plan](#plan)

To repeat the work, inside this directory:
`tlc -config LedgerIngestion.cfg LedgerIngestion` for a run,
`tlapm LedgerIngestion_proofs.tla` for the proofs. `PROJECT.json` lists all
runs, the code lines behind every definition, the hazards and the theorems.

## Inventory

AstroML turns Stellar ledgers into features and fraud models. Most of its
two hundred thousand lines of Python are numerics, request handlers and wrappers of
external services. The parts with a protocol of their own - state that outlives
a call and an order of steps that can go wrong - are these.

| component | state | operations | what is hard |
|---|---|---|---|
| Ledger ingestion (`astroml/ingestion/service.py`, `state.py`) | state file: processed ranges, watermark; the copy a generator holds | `ingest`, `ingest_stream`, `ingest_incremental`, `ingest_backfill_chunked`, save | crash between processing and the batched save; a call that raises or is abandoned; ranges in any order |
| Range set (`astroml/utils/ranges.py`) | sorted disjoint ranges | `add`, `add_range`, `in`, `missing_in`, save, load | boundaries of merging; a generator over the live list |
| Horizon stream (`enhanced_stream.py`, `batch.py`) | cursor, request builder, batch buffer | page, hand over, flush, retry, leave | the cursor runs ahead of the database; failed flushes; two copies of the position |
| Stream services (`enhanced_service.py`, `StreamStateManager` in `state.py`) | tasks, events, cached cursors, shared file | start, retry, shut down, `stop_all`, signals | cancellation at any await; several writers of one file; signal handlers that replace one another |
| Fraud registry (`src/lib.rs`) | validators, reports, appeals, thresholds | 10 mutating entry points | calls of many parties in any order |
| Reward contract (`reward/src`) | balances, config, metadata | initialize, configure, earn, redeem, adjust, delete, clear | calls in any order |
| Claim service (`astroml/claims`) | pending claims, database rows | submit, load, start, stop, retry loop, status update | failed or swallowed status updates, restarts, a claim submitted twice |
| Canary and blue-green deployments (`astroml/deployment/canary.py`, `blue_green.py`) | phases, weights, versions of two environments | start, step, test, switch, monitor, promote, roll back, set weight | manual operations in any phase; a rollback filed and performed in two places |
| Recovery (`rollback_manager.py`, `state_snapshot.py`, `disaster_recovery.py`) | rollback requests, snapshots, recovery plans | file, approve, execute, plan, restore, clean up | two managers on one set of snapshots, retries of what failed |
| Traffic router (`traffic_router.py`) | rules, sessions, counters | add, remove, reweigh, route | threads that read weights while they are rewritten |
| Circuit breaker (`astroml/utils/resilience.py`) | state, failures | admit, succeed, fail | concurrent probes, late answers |
| Horizon transaction stream (`horizon_stream.py`) | cursor, task, connection, stop event | start, stop, connect, handle, reconnect | a handler that raises or stops the client; a start between the halves of a stop |
| Change data capture (`astroml/ingestion/cdc`) | offsets, dedup set | process, checkpoint, replay | numbering of batches |
| Pipeline orchestrator (`astroml/pipeline/orchestrator.py`) | a run's results and status | sort, run, retry, skip | failures in the middle of a graph; graphs with cycles |
| Load balancer (`astroml/serving/load_balancer.py`) | replicas, connection counts | route, release, health checks | replicas that leave with open connections |
| Budget tracking (`astroml/tracking/budget_manager.py`, `cost_tracker.py`) | cost records, budgets, fired thresholds, alerts | record, reset, add, remove, evaluate | an evaluation that runs across the end of a period |

How they interact: the ledger worker and every stream service write the *same*
state file (`.astroml_state/ingestion_state.json`), each as a whole document;
streams and services share an event loop and meet in cancellation; a service
owns a stream's cursor from the moment the stream is left. The canary and the
blue-green manager file their rollbacks with one rollback manager, which shares
the snapshot manager with disaster recovery. The budget manager reads the cost
tracker while others record to it. The contracts, the claim service, the
router and the pipeline orchestrator stand alone.

What makes each correct:

* Ledger ingestion: never record an unprocessed ledger, never forget a recorded
  one, process again only after a loss and at most once per loss, report
  success only for ranges that are on disk, and catch up with the head.
* Range set: it *is* a set of integers, and whoever asks what is missing from a
  span is told of everything that is.
* Horizon stream: the saved cursor covers only records that reached the
  database or that a reported failure dropped, and never goes back; requests
  never ask from beyond the last record; each failure costs at most a chunk; a
  stream that Horizon refuses ends.
* Stream services: a stopped service has saved its streams' positions; an old
  cursor may replay, never skip; shutting down terminates.
* Fraud registry: a consensus counts distinct registered validators; verdicts
  change only by reports, approved appeals and thresholds; decisions and
  registrations are final.
* Claim service: a claim is accepted no oftener than asked for unless the status
  of an acceptance was lost; a final status is earned; retries end.
* Deployments and recovery: a failure asks for one rollback, to the version
  before; a snapshot is applied once.
* Pipeline runs: what is executed, skipped and refused is what the graph says.
* Router: a call goes to a target that has traffic, and finds one if there is
  one.
* Budgets: an alert is about the period it is filed under.

`PROJECT.json` lists every component, the ones not modelled included, and every
hazard with the properties that cover it.

## Modules

    AtLeastOnceLog                   ResumableStream         FraudRegistry
          ^ refines                        ^ refines               ^
    LedgerIngestion . LedgerRangeSet  StreamIngestion        FraudRegistry_proofs
          ^             ^                  ^        .
          |             |                  |    MultiHorizonService
          |             |                  |            ^
    LedgerIngestion_proofs            StreamIngestion_proofs
                                             MultiHorizonService_proofs

    Recovery       TrafficRouter       ClaimService       PipelineRun
        ^                ^                  ^                  ^
    Rollout        MCTrafficRouter     ClaimService_proofs   PipelineRun_proofs
        ^          TrafficRouter_proofs
    Rollout_proofs                                         BudgetManager

An arrow is an EXTENDS, or a refinement where it says so; a dotted line is a
module that explains or abstracts part of the other.

**LedgerIngestion.** One process and its state file. `file` and `mem` are the
`IngestionState` on disk and in the generator; `pc`, `cur`, `stop`, `pending`
are the generator's position and `pending_flush`; `call` and `outcome` are the
entry point that runs and what it reported; `effects` counts completed
`process_fn` calls. `CallStep` has one action for each entry point and default
(`CallRange`, `IngestUpTo`, `IngestNext`, `IngestIncremental`,
`IngestHeadUnknown`, `BackfillChunked`); the loop body is `Skip`, `Process`,
`Record`, `Save`, `Advance`; its `finally` is `Finish`; `NextChunk` continues a
backfill, also behind a failed chunk. `ProcessRaises`, `SaveRaises`,
`FinishRaises`, `Crash`, `Abandon` and `AbandonBackfill` are the ways out. A
ledger's payload is abstracted; the range set is a set.

**AtLeastOnceLog.** What ingestion promises: apply ledgers, and commit batches
of applied ones to a record that only grows.

**LedgerRangeSet.** The range representation (`ranges`) beside the plain set of
what was added (`members`): the data refinement that justifies the plain set in
LedgerIngestion. `AddRange` and `Covers` are the two bisections and the splice;
`Add` is a call of `add` or `add_range`, `Reload` is `to_list` and the start of
`from_list`, `LoadEntry` one iteration of it, and lists of ids in the old format are
initial states. `missing_in` is a generator over the live list: `scan` holds its
locals, the list iterator's position and the gaps yielded; `PassRange`,
`CrossRange` and `YieldGap` are the branches of its loop, `Resume` what runs behind
a yield, `YieldRest` its end. At a yield the caller may `Add`.

**StreamIngestion.** One stream and its service's task, from the state file to
the database. `cursor` and `builder` are the stream's position and the position
its next request asks from; `page` is what is left of the page; `buffer` is the
`BatchBuffer`; `lost` remembers dropped records. `FetchPage`, `FetchNothing`,
`FetchRefused`, `FetchBroken` and `FetchRaises` are the outcomes of a request (the
last three count in `Retry`), `HandOver` gives one record to `_process_effect`
and moves the cursor, behind a page also the builder (`AdvanceBuilder`), `__aexit__`
closes the buffer, `save_cursor` writes the position, `Reenter` is the retry
after the backoff, `_shutdown` the cancellation, `Crash` and `start` the
process. Records are their paging tokens. A cursor is a `Position`: a token,
behind which there may be the rest of a link's query (`query`), since the stream
takes for its cursor all the text behind the last `cursor=` of a page's next link.
Horizon's links go on behind the token (`TOKEN&limit=..&order=..`); a text like
that is refused as a cursor, by every request, whether this or a later process
makes it. `LinkQueries` says which links there are: those (`TRUE`), or links that
end with the token (`FALSE`), where builder and page stay as they are. See
[below](#where-code-and-documentation-part) for what comes of either.

**ResumableStream.** What a resumable stream promises: chunks are stored or
lost whole, and the saved position covers only such records - it may be an older
one, as other writers of the file put back. It promises nothing of progress: a
stream that is refused keeps it.

**MultiHorizonService.** Several services in one process and the ledger worker
in another, around one file. Streams are reduced to a cursor that advances;
`caches` are the managers' copies, `handler` is the one signal handler
asyncio keeps, `shutdown` the set events. `Advance`, `Retry` and `Finish` are
the tasks, `_shutdown` and `Stopped` the services, `stop_all`, `Exit`, `Kill`
the process, `load` and `save` the two halves of the worker's
`mark_processed`. It takes from StreamIngestion when a cursor is saved, and
composes the writers; [below](#proofs), two theorems put the modules back together.

**FraudRegistry.** The contract. One action per mutating entry point, named as
in the source; an invocation that returns an error changes nothing and is a
stutter. `cleared` counts the reports that approved appeals removed, for
`ReportCountsAddUp`. The source calls `Self::is_fraudulent(&env, ..)` where the
function takes `Env` by value (`src/lib.rs:461`); the model takes the call as
it is meant.

**ClaimService.** The service, the claim rows and the process. `pending` is
`_pending_claims`, `rows` the database, `current` and `outcome` the one claim
between its submission and its status update: the loop only suspends in its
sleep, so nothing else runs there, but the process may die. `Attempt` is
`_submit_claim_async` up to the update - expiry first, then the retries, then
the callback - and `RecordStatus`, `StatusLogged` and `StatusRaises` are the
update that commits, fails in its transaction (swallowed) or raises before it
(which turns an acceptance into a failed submission). `submit_claim` and
`load_pending_claims_from_db` replace entries. `calls`, `accepted`, `refused`
and `lost` are history.

**Recovery.** `RollbackManager`, `StateSnapshotManager` and
`DisasterRecoveryManager`, one action per method. A snapshot is absent, saved
or restored; `restore_snapshot` uses it up before it asks `apply_fn`, as the
code does. `created` and `applied` count, for `RestoredOnce`.

**Rollout.** Extends Recovery by `CanaryManager` and `BlueGreenManager`.
`step` and `monitor` include the rollback request they file; `promote`,
`rollback_canary`, `set_weight` and `rollback_bluegreen` take a deployment in
any phase. Requests filed by hand or by `evaluate_health_metrics` are
`RequestRollback`.

**TrafficRouter.** Threads in `route`. `update` is the call of `update_weights`
that holds the lock: it writes one target at a time (`WriteWeight`), and a
call reads one weight at a time (`ReadWeight`) without the lock. What needs the
lock waits for it (`Unlocked`). `RouteWeighted`, `RouteCanary`,
`RouteRoundRobin`, `RouteSticky` and `FallBack` end a call. `live` and `steady`
are the targets that had traffic at some time, and all the time, of a call.
MCTrafficRouter gives the instance its hash and its symmetry.

**PipelineRun.** One `run_dag`: `SortTask` and `EndSort` are `topological_sort`,
`SkipTask` and `StartTask` the loop, `Succeed`, `Retry`, `Fail` and `Escape` what
an attempt comes to - its action and callbacks together. Contexts and durations
are left out; `timeout_seconds` is read nowhere.

**BudgetManager.** A budget over a `CostTracker`. `evaluate` is `_status_for`,
`_fire_thresholds` and one `Fire` per threshold, each behind the manager's or
the tracker's lock and none across two of them; `NextPeriod` is the clock.

Operators whose names end in `Bug`, or say what they do wrong (`addFlushesLate`,
`FinishUnsaved`), are faulty variants next to the definition they vary. No
specification uses them; they record, for each property, a slip in the code
which that property notices.

## Runs

| run | checks | shows |
|---|---|---|
| `ledger_ingestion` | `RecordedWasProcessed`, `UnrecordedBounded`, `ReprocessedOnlyAfterLoss`, `CompletedRangeIsDurable`, `RefinesLog` | with every entry point in any order and two faults, ingestion is an at-least-once log |
| `ledger_incremental` | `GapFree`, `CatchesUp` | a deployment that only resumes leaves no holes and catches up |
| `range_set` | `Normalised`, `ContainsExactly`, `MissingExactly`, `NothingMissed` | the ranges behave as a set after every history of additions and reloads, and a scan for gaps misses none, even if its caller adds to the set meanwhile |
| `stream_ingestion` | `CursorAccountsForRecords`, `SavedIsAccountedFor`, `LossPerFailureBounded`, `SavedNeverRegresses`, `KeepsPromise`, `RefusedStreamEnds` | under connection and database failures, refused requests, cancellations and crashes a stream loses only what failed flushes drop and saves no position behind an earlier one, and if it is refused it ends |
| `multi_horizon` | `StaleIsSafe`, `StoppedServiceSaved`, `SignalledServiceStops`, `StopAllCompletes` | outdated copies never run ahead, and shutting down terminates |
| `fraud_registry` | `TypeOK`, `OneReportEach`, `ReportCountsAddUp`, `PendingAppealHasReports`, `VerdictChangesOnlyBy`, `DecisionIsFinal` | the registry's bookkeeping holds for any order of calls |
| `claims` | `DuplicatesAreExplained`, `FinalStatusIsEarned`, `AttemptsBounded`, `PendingIsResolved` | reloads, repeated submissions, crashes and failing updates pay a claim twice only where a status was lost, call the callback at most `max_retries` times for each submission and load, and retries end |
| `rollout` | `RestoredOnce`, `OneRollbackPerCanary`, `MonitorTargetsPrevious` | automatic and manual operations in any order ask for one rollback, to the version before, and restore a state once |
| `traffic_router` | `ServedByLiveTarget`, `RoundRobinTakesTurns` | reading weights without the lock never serves from a dead target or turns a call away |
| `pipeline_run` | `UpstreamSucceededFirst`, `RefusesExactly`, `SkippedExactly`, `CompletedExactly` | for every graph of three tasks a run executes, skips and refuses what it should |
| `stream_resume` | `SavedCanBeResumed` | violated: see below |
| `budget_period` | `AlertsAreForTheirPeriod` | violated: see below |

Where a run has no `TypeOK`, its module's proofs have it, for every instance.

Bounds, and why they are enough:

* LedgerIngestion: ledgers 0..2 with batches and chunks of two, so a range
  spans a full batch and a partial one, and a full chunk and a partial one;
  two faults, so one can hit the recovery from another. `ledger_incremental`
  has four ledgers, for a batch boundary strictly inside.
* LedgerRangeSet: the integers 0..6 hold four ranges that do not touch, so an
  addition can fall before, between, behind, on and across them; lists of up to
  three ids have duplicates and every order; every span is scanned, with every
  addition at every gap.
* StreamIngestion: four records, pages of three, chunks of two: pages end
  inside chunks and chunks inside pages. Two retries and four faults reach both
  retry limits (of stream and service); three starts allow a crash after a
  recovery. Every page may have either form of link. `stream_resume` needs only
  two records, Horizon's form of link and no faults.
* MultiHorizonService: two services with one stream each, two records and two
  launches: the least for a manager to overwrite what the other one wrote, in
  the same or in an earlier launch.
* FraudRegistry: two addresses that may each be admin, validator or both and
  one account, thresholds 0..2 and scores 0..2 where 1 is the maximum, so
  every check meets a value on either side of it; batches of two, where the
  same address may be listed twice. Accounts meet only in a validator's
  counters; the proofs cover any number.
* ClaimService: one claim - claims share nothing but the loop, and the safety
  proofs cover any number - two retries, so the last one differs from the
  first; two submissions, two loads and three starts with three faults, so a
  fault can hit the recovery from another.
* Rollout: one deployment at a time, canary or blue-green, since deployments
  meet only in the list of requests; two requests, a plan and a snapshot that
  is created twice, so that two managers compete for it and one of them comes
  back; weights 5, 35 and 50, so the ramp is cut at the maximum; operators set
  a weight below and one above it. The proofs cover the rest.
* TrafficRouter: one rule of up to two targets, two threads and a session,
  weights 0 and 1, three calls and one update: every interleaving of two reads
  with two writes, and two round-robin calls around a third of another length.
* PipelineRun: all 4096 graphs of three tasks and an unknown name - chains, forks,
  joins and cycles of one to three tasks - with two attempts. The proofs cover
  the rest.
* BudgetManager: two threads, two periods, two thresholds; its counterexample
  needs less.

`CHECK_DEADLOCK FALSE` stands in the configurations of StreamIngestion,
MultiHorizonService and ClaimService, whose processes may stop for good - shut
down, out of attempts, or out of the starts the bound allows - and in those of
Rollout, TrafficRouter and PipelineRun, whose requests, calls and only run are
bounded.

## Fairness

* LedgerIngestion (`FairSpec`): a running call keeps running, and
  `ingest_incremental` is called again and again - the scheduled run that its
  doc describes. Nothing is assumed of faults, of crashes or of the head.
* StreamIngestion (`FairSpec`): a started task is run by the event loop,
  requests are answered in the end - to refuse one is an answer -, a process that
  died is started again by whatever supervises it. Horizon's growth, failures, cancellations and crashes
  are free. Faults are bounded, so requests that fail for ever are excluded.
* MultiHorizonService (`FairSpec`): the event loop runs what is ready - a
  service to be started, a waiter whose event is set, a task that was
  cancelled. Advancing, signals, kills and the ledger worker are free.
* ClaimService (`Spec`): every pass of a running loop visits every claim that
  is due and writes its status, and backoffs end (`WF` of `Attempt`,
  `RecordStatus` and `Wake`, for each claim). Nobody has to start the loop, and
  faults are free up to their bound.
* FraudRegistry, Rollout, TrafficRouter, PipelineRun and BudgetManager have none:
  nobody has to call them, and that a pipeline run ends needs no fairness but that
  it is executed on (`RunTerminates`).

## Proofs

| module | invariant | theorems |
|---|---|---|
| `LedgerIngestion_proofs` | `IInv`: types, the loop's position against `stop`, memory contains file and exceeds it by `pending` ledgers, `effects` against losses, ranges behind the position are recorded | its safety invariants, `WatermarkIsMax`, `NothingForgotten`, `GapFree`, refinement of AtLeastOnceLog; with `ChunkInv` and the variant `Work`: `CallsEnd` |
| the same, of LedgerRangeSet | `RangeIInv`: types; `SetInv`: ranges and what is still to be loaded are the members; `ScanInv`: gaps ascend before the scan's frontier, what lies before it was yielded or is covered | `Normalised`, `ContainsExactly`, `MissingExactly`, `NothingMissed`; `RangesRepresentDone`: ingestion's record of a ledger, in ranges |
| `StreamIngestion_proofs` | `IInv`: everything up to cursor and builder is handled, a page is a run of records behind handled ones, the cursor at most a page in front of the builder (`ReachInv`), the buffer is short of a chunk and empty once closed, counts stay below their limits | all safety invariants, `RequestsFollowCursor`, `ReplayBounded`; with `AheadInv`: `SavedNeverRegresses`; with `StuckInv`: `StuckForGood`; refinement of ResumableStream; with `FurthestInv`, for a file others write too: `SafeInSharedFile` |
| `FraudRegistry_proofs` | `IInv`: types, reporters are distinct and registered, pending appeals have reports; `CountInv`: nothing was removed from who is not registered | `OneReportEach`, `ReportersRegistered`, `PendingAppealHasReports`, `ReportCountsAddUp`, `DecisionIsFinal`, `RegistrationIsOnce`, `VerdictChangesOnlyBy` |
| `MultiHorizonService_proofs` | `IInv`: file, copies and cursors are bounded by how far a stream got, a task that is done has saved, a stopped service's tasks are done | `StaleIsSafe`, `StoppedServiceSaved`; with `HistoryInv`, what a copy holds the file once held: `OnlyOwnersAdvance`, `StartsFromFile` |
| `ClaimService_proofs` | `IInv`: the claim being written is held, there is room for the submission still owed, every retry counted was a refusal or a lost status, the status being written is earned; `BudgetInv`: attempts made and retries left were allowed by a submission or a load | `DuplicatesAreExplained`, `FinalStatusIsEarned`, `AttemptsBounded` |
| `Rollout_proofs` | `IInv`: `CanaryInv`, `BlueGreenInv` and `RestoreInv` | `RestoredOnce`, `OneRollbackPerCanary`, `MonitorTargetsPrevious` |
| `TrafficRouter_proofs` | `IInv`: types, `UpdateInv` and, for every call, `CallInv`; `TurnInv`: a counter is one position after the last choice | `ServedByLiveTarget`, `RoundRobinTakesTurns` |
| `PipelineRun_proofs` | `IInv`: `SortInv`, `ResultsInv`, `StatusInv`, `LoopInv` and types | `UpstreamSucceededFirst`, `RefusesExactly`, `SkippedExactly`, `CompletedExactly`; with the variant `Remaining`: `RunTerminates` |

The theorems are about `Spec` - three about a specification with a history variable
added, see *Composition* - none uses its fairness, for any values of the
constants that satisfy the module's assumption (`ConstantsAssumption`,
`BoundsAssumption`, `StreamAssumption`, `RegistryAssumption`, `ServiceAssumption`,
`ClaimAssumption`, `RolloutAssumption`, `RouterAssumption`, `PipelineAssumption`):
any number of ledgers, records, callers, accounts, services, claims, snapshots,
deployments and tasks, any batch, chunk and page size, any configured weights and
retries, any number of faults.

*Why the invariants are needed.* `UnrecordedBounded` is not inductive: that the
memory leads the file by exactly what `pending_flush` counts has to be known,
and that the count is reset with every write. `CompletedRangeIsDurable` rests
on a statement for every position inside the range (`RangeInv`), over all
chunks. `CrashIInv` shows why `ReprocessedOnlyAfterLoss` counts losses and not
crashes: a failed final save loses the record just the same.
`SavedIsAccountedFor` speaks of the file and follows from the order of three
steps - hand over, close, save - which the invariant carries from one to the
next: the cursor is accounted for with the buffer, the buffer is empty behind
`__aexit__`, and only then is the cursor saved. None of the
stream's theorems has a premise about Horizon's links. `RequestsFollowCursor` and
`ReplayBounded` need to know how far a page reaches and that a builder left behind
is left at the page it read (`ReachInv`). `SavedNeverRegresses` holds although the
cursor itself does fall back when a page is asked for again: a stream is left only
between two pages, where the cursor is at least what is in the file (`AheadInv`).
`StuckForGood` is about what follows a refused cursor that was saved: every start
has nothing else, and nothing that is stored or saved can come of it (`StuckInv`).
`PendingAppealHasReports` holds although the verdict may lapse while an appeal
waits, since only approving that very appeal removes reports and thresholds
are never zero. `StaleIsSafe` needs file, managers' copies and cursors bounded
together, for a cursor can come back from the file by way of a copy.
`DuplicatesAreExplained` is not inductive: whether there is room for one more
acceptance depends on whether one is still owed, which is while the claim is
held or its row is pending, unless the status of an acceptance is just being
written (`Owed`, `Balanced`). `OneRollbackPerCanary` and
`MonitorTargetsPrevious` need to know which phases can have a request behind
them and which versions are on which side; `RestoredOnce` needs that filing,
approving and executing move a request between statuses without adding a
restorer, unless a saved snapshot is used up for it (`RestorersShrink`,
`RestorersGrow`, `Restoring`), and that restorers are finite, since their
number is what is bounded. `ServedByLiveTarget` needs to know, in the middle of a
list, that the targets seen with a weight and those not yet looked at cover the
ones with traffic all the time, and that what has traffic now had it at some time
of the call (`CallInv`); `RoundRobinTakesTurns` that every list of n targets has
one at each position (`Position`, by the pigeonhole principle) and that advancing a
counter from a longer list advances its remainder (`AdvancedRemainder`).
`RefusesExactly` needs the sort's invariant, that in-degrees count what is not
yet sorted and the queue holds exactly what waits for nothing else (`QueueInv`): an
empty queue then leaves tasks that wait for one another, and in an order without
repetitions the first task of a cycle would stand behind another one of it
(`SortedIsAcyclic`). `SkippedExactly` needs that the results of the tasks upstream
are there, and stay as they are, when a task's own is recorded (`RecordKeepsResults`).
`ReportCountsAddUp` needs the step that counts a report to add an account the
validator had none on, and a new validator to have neither reports nor removals.

`ContainsExactly` is not inductive either: while a file is loaded, the members are
those of the list and of the entries to come. Bisection is characterised by what
it returns on a sorted list (`Bisection`, `Placement`), merging by its normal form
and its values (`AddRangeAdds`), both with the greatest index that satisfies a
condition, so neither needs induction over the list. `NothingMissed` holds although
an addition shifts the list under the iterator, because behind a yield the
cursor moves by the range the generator remembers, not by the list's (`Frontier`),
and a range that is skipped can only make the next gap too long; that the gaps
hold nothing covered (`MissingExactly`) needs the ranges passed to end
before the frontier, which is lost with the first addition (`Undisturbed`).

`AttemptsBounded` is not inductive, since attempts and retry counts are set apart
by what resets the latter: `BudgetInv` adds the retries a claim has left, and
counts as spent the acceptance whose status is being written, for that claim will
be dropped or, if the update raises, have it counted as a retry (`Spare`).

*Composition.* StreamIngestion has the state file to itself and MultiHorizonService
reduces streams to cursors; two theorems connect them. `SafeInSharedFile` adds to a
stream an environment that replaces its saved position, at any moment, by any one up
to the furthest it has saved (`Overwrite`, with `furthest` as history): no record
is skipped and the stream keeps its promise. `OnlyOwnersAdvanceHolds` proves that assumption of the
other services, the launches and the ledger worker: whatever old copies they
write back, only a stream's own task writes a position beyond all earlier ones
(`HistorySpec`), and `StartsFromFileHolds` that a stream starts no further than those,
although it takes its position from a manager's copy - which is, in StreamIngestion, an
`Overwrite` by the copy, a start and an `Overwrite` back. The connection itself is this
paragraph, not a theorem: the two modules differ in what a record is.
`SavedNeverRegresses` and `StuckForGood` hold of a stream that is alone with its
file only (`AheadInv`, `StuckInv`): an `Overwrite` may take its position back, spoil
it with a query that an earlier cursor had, or be what frees it from one.

*Variants.* `RunTerminates` and `CallsEndHolds` are what can be proved of termination
without fairness: every step of a pipeline run, and every step of a running ingestion call
but an advance of the head, makes a natural number smaller. A retry uses up an
attempt, a recorded result pays for the attempts of the next task; a failed chunk
uses up its ledgers, and the next one a chunk of the range (`ChunkInv`).

*Refinements.* Init maps to Init, and every step to a step or a stutter of the
abstract module (`LogStep`, `NextChanges`): recording a ledger is no abstract
step, only the write is.

*Model-checked only.* The liveness properties (`CatchesUp`,
`RefusedStreamEnds`, `SignalledServiceStops`, `StopAllCompletes`,
`PendingIsResolved`):
TLAPS does not prove liveness under fairness here. BudgetManager, whose only
property is one the code violates.

## Where code and documentation part

Runs with the expectation `violation` check one sentence of the repository each:

* `stream_resume`: "**State Persistence**: Automatic cursor saving for resume
  capability" (`README_enhanced_streaming.md:17`). The text behind the last
  `cursor=` of Horizon's next link, which goes on with `&limit=..&order=..`, becomes
  the stream's cursor and the builder's (`enhanced_stream.py:446-449`). Horizon
  refuses the next request; the branch for `BaseHorizonError` (`:451-458`) counts
  it until the loop ends as if it had completed, and the service saves that text
  (`enhanced_service.py:105`). Every later start loads it and is refused again: only
  the first page is ever read, and nothing is stored from then on
  (`StuckForGoodHolds`).
* `budget_period`: `evaluate` computes a status and asks the clock again for
  the period it files the alert under (`budget_manager.py:334`). Across the end
  of a period, the old period's spend uses up the new period's threshold, whose
  own alert ("Emitted the first time a budget crosses one of its thresholds",
  `budget_manager.py:167`) then never comes.

Further ones that were met and have no run:

* `StateStore` says that "processed ledger ids are retained" (`state.py:105`). The
  stream managers write `{"cursors": ..}` over the ledger worker's document
  (`state.py:170`), and the worker's save erases the cursors.
* With a next link that ends in the bare token (`LinkQueries = {FALSE}`) the builder
  stays where it was (`enhanced_stream.py:447`) and the same page is asked for
  until the stream is left; the next attempt or start continues behind it.
* `src/test.rs:487` expects an adjustment by -150 to end at reputation 0; a delta
  below -100 is refused as `InvalidInput` (`src/lib.rs:561`). `src/test.rs:573` files an
  appeal for an account below the consensus threshold and expects it to count;
  it is refused (`src/lib.rs:461`). `src/auth_tests.rs:55-61` expects a second
  `initialize` to replace the admin; it is refused as `AlreadyInitialized`
  (`src/lib.rs:135`).
* `update_balance` of the reward contract changes a balance that is there
  (`reward/src/storage.rs:217`) and no entry point makes the first one, so the
  `earn_points` that `reward/src/test.rs:57` expects to succeed returns
  `BalanceNotFound`.
* `HorizonStreamingClient.stop` forgets its task before it has ended
  (`horizon_stream.py:75`): a `start` while it still runs is not refused with
  "stream already running" (`horizon_stream.py:59`) but clears the event the first
  stream was to end by.
* `missing_in` says it yields "the gaps within `[low, high]` that are not covered"
  (`ranges.py:152`). A caller that adds each gap to the set before it asks for the
  next one shifts the list under the iterator and is handed ledgers that are
  covered; `MissingExactly` holds for callers that do not, `NothingMissed` for all.
* `service.py:190` says a crash leaves up to `batch_size - 1` ledgers
  unrecorded. A ledger that was processed and not yet recorded, or the full
  batch before its write, makes it `batch_size`; `UnrecordedBounded` is the
  bound that holds.
* A stream that used up its retries on a broken connection returns from
  `run()`, and the service logs that it completed successfully
  (`enhanced_service.py:76`) and does not retry it.
* With two services, each manager writes back the other's cursors as it read
  them when it was created (`enhanced_service.py:29`), against "Automatic cursor
  saving for resume capability" (`README_enhanced_streaming.md:17`).
* `add_signal_handler` keeps the handler of the last service, so a signal stops
  that service and not the process (`enhanced_service.py:36`).
* An account that is flagged again after an approved appeal finds
  `AppealAlreadyExists` (`src/lib.rs:467`), against "Accounts can appeal
  fraudulent status with admin review" (`docs/FRAUD_REGISTRY_CONTRACT.md:24`).
* `tests/test_deployment_canary_bluegreen.py:61` expects an error of a canary
  that was rolled back automatically; only the branch without `auto_rollback`
  sets one (`canary.py:219`).
* `approve_rollback` accepts a failed request again, but a restore that failed
  has used its snapshot up (`state_snapshot.py:86`), so the retry fails too.
  A plan that completed turns failed when it is executed again, and a plan whose
  procedure is invalid reports that nothing was restored after restoring
  (`disaster_recovery.py:74`).
* `BlueGreenManager.rollback` swaps the versions in every phase
  (`blue_green.py:245`): before a switch it puts the new version in service.
* `TrafficRouter` says it is "Thread-safe for concurrent access"
  (`traffic_router.py:73`); a call can see half of an `update_weights`, and
  sessions are shared by all rules. `ServedByLiveTarget` is what holds.
* `LocalPipelineOrchestrator` "Executes DAGs locally with retries, timeout"
  (`orchestrator.py:211`); no code reads `timeout_seconds`. A success callback that
  raises has its action run again (`orchestrator.py:306`), and a refused
  definition leaves its run "running" (`orchestrator.py:233`).
* `total_cost_usd` includes evicted records in the unfiltered total only
  (`cost_tracker.py:401`); budgets always filter, so they lose evicted spend.
* `README_enhanced_streaming.md` (Client Errors) says that bad requests fail fast; the
  branch for `BaseHorizonError` comes first (`enhanced_stream.py:451`) and
  retries them.
* `README_SOROBAN.md:11` calls fraud reports immutable; an approved appeal
  removes them (`src/lib.rs:526`). A confidence is said to be a percentage
  (`src/lib.rs:22`) and only its lower end is checked (`src/lib.rs:234`).
* `service.py:98` says that without a start and a watermark `ingest` begins at 0;
  with only an end given it returns without doing anything (`service.py:214`).
* `enhanced_cli.py:219` resumes single streams under an id that the service
  never saves (`enhanced_service.py:42`).

## What is not modelled

Time: sleeps, backoff and the age of connections are orders of events.
Metrics, logs and result summaries. The parsing of records. Who invokes a contract
call: the contract never calls `require_auth`, it compares the address it is given
as an argument, so in the model anybody's address may stand there. Sums that do not
fit in 128 bits. Rate limiting, which only delays. Two processes racing on the
shared `.tmp` path: the rename is atomic in the model. `gitops_manager.py`,
which runs git and kubectl. Everything `PROJECT.json` marks `not_modelled`, with
its reason: numerics (models, training, features), wrappers of external services
(tracking, storage, caches, LLM providers), request handlers, generated and
declarative code. These make up most of the repository's lines: the
specifications cover its stateful core and a small share of its text.

## Plan

What is left, in order:

1. **HorizonStream** (`horizon_stream.py`): one stream at a time and at-most-once
   delivery under starts, stops and failing handlers; **CircuitBreaker**
   (`astroml/utils/resilience.py`) and the event tracker of change data capture:
   small protocols with an abstract specification each.
2. **RewardContract**: balances stay within the limits in any order of calls;
   **LoadBalancer**: connection counts under route, release and health changes.
3. Extending MultiHorizonService: the `.tmp` file written in pieces by two
   processes.

Theorems to prove: what a shutdown of services still has to do, as a variant
(`StopAllCompletes` without its fairness), and whatever holds of budgets, once
BudgetManager has a passing run.
Runs stay few: a new component brings one passing run, and a new disagreement
takes the place of the weakest recorded one.
