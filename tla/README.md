# TLA+ models of the Binance market data pipeline

Models, model-checking runs and machine-checked proofs for this repository: a
worker that collects trades ("ticks") from Binance, stores them in partitioned
PostgreSQL tables, aggregates them into minute candles and computes features
from the candles, and a web application (DataManager) that shows them.

The program has little intricate code and a lot of intricate concurrency: its
parts meet in tables, by row locks, status columns, `NOTIFY` and a job queue,
and each of them may be stopped, killed or disconnected between two statements.
That is what the models keep; prices, volumes and indicator values are
abstracted to the sets of rows they are computed from.

Contents:

1. The system's parts
2. How they interact, and what is hard
3. The modules, and how they correspond to the code
4. The runs: what each asks, its bounds, what it shows
5. Fairness
6. What is proved
7. What the models found in the code
8. What is not modelled
9. Plan

Running them: `tlc -config CandlePipeline_faults.cfg MCCandlePipeline` (likewise
for every row of the table in section 4), `tlapm CandlePipelineProofs.tla`.

## 1. The system's parts

| Part | Code (under `src/src/…` unless said otherwise) | State it keeps | Operations |
|---|---|---|---|
| Trade collector | `Worker/Workers/BinanceCollectorWorker.cs`, `Infrastructure/BinanceClient/BinanceService.cs` | an in-memory queue and a write buffer | subscribe, enqueue, save every 2 s, stop |
| Tick insertion | `sp_bulk_insert_trades` (`src/docker/postgres/init/02_baseline.sql:205`), `TradeRepository.BulkInsertAsync` | `Trades`, `DirtyMinutes` | insert the new ticks, queue their minutes, `NOTIFY dirty_minutes` |
| Candle aggregation | `sp_aggregate_dirty_minutes` (`02_baseline.sql:97`), `OhlcvAggregationService` | `DirtyMinutes`, `Ohlcv_1min`, `Processing_Watermarks` | lock a chunk, recompute its candles, remove it from the queue, `NOTIFY candles_new` |
| Feature calculation | `FeatureCalculatorWorker`, `OhlcvRepository`, `IndicatorService`, `AnalysisRepository` | `Ohlcv_1min.ProcessingStatus`/`ClaimedAt`, `Ohlcv_Features` | claim a batch, compute and save per symbol, mark as processed |
| Consumer loop | `Worker/Common/PgNotifyConsumer.cs` | a listener connection | listen, drain, wait 60 s or for a notification, reconnect |
| Retention | `PartitionMaintenanceWorker`, `sp_rotate_partitions`, `sp_ensure_month_partitions` | monthly partitions, the retention floor | create a month's partitions, drop the oldest months |
| Month seal, evacuation | `PartitionMaintenanceWorker.ReconcileMonthSealsAsync`, `sp_evacuate_next_cold_partition` | `MonthSeal`, `ArchiveImportLog`, tablespaces | seal, unseal, move to the cold tablespace, bring back |
| Gap audits | `QuickAuditorWorker`, `HistoricalAuditorWorker`, `FillGapWorker`, `GapProcessingTracker` | an in-memory set of gaps, `HistoricalAudit_Watermarks` | find gaps in `TradeId`, enqueue jobs, fill over the API or from archives |
| Archive pipeline | `Worker/Workers/Archives/*` | files on disk, Hangfire jobs, `ArchiveImportLog` | download, unpack, import, delete |
| Import backpressure | `ImportBackpressure` | whether imports are paused | wait while the newest candle lags |
| Order book collector | `OrderBookCollectorWorker` | order books and minute accumulators in memory | sample, flush each minute |
| Tracked symbols | `SymbolUpdateWorker`, `sp_update_tracked_symbols` | `TrackedSymbols` | select with hysteresis |
| Job scheduling | `HangfireJobsService` | Hangfire's tables | recurring jobs |
| Data quality, status messages, DataManager, KlinesDownloader | see `PROJECT.json` | reports, web sessions | reports, notifications, pages |

What makes each of them correct:

- *Insertion and aggregation*: every stored tick is in its minute's candle or its
  minute is queued; a candle shows stored ticks only and never loses one; each
  transaction looks atomic to a reader.
- *Feature calculation*: a candle counted as processed has features of its present
  values; a recomputed candle is processed again; nothing stays claimed for ever.
- *Consumers*: no sleeping on work; all work is done in the end.
- *Retention*: a month's tables appear and disappear together; a dropped month does
  not come back.
- *Seal*: a month is not moved to the cold disk while it is being imported; an emptied one
  is refilled on the fast disk; complete months do go cold.
- *Collector, audits, archives*: every trade Binance executed is stored in the end,
  whichever of the three brings it, and no gap is forgotten.
- *Backpressure*: imports yield to realtime data and resume.

## 2. How they interact, and what is hard

```
 Binance ──> collector ──┐
 API     ──> FillGap  ───┼─> sp_bulk_insert_trades ─> Trades + DirtyMinutes
 archives ─> CsvImport ──┘                                 │ NOTIFY dirty_minutes
                                                           v
                       sp_aggregate_dirty_minutes ─> Ohlcv_1min (status 'new')
                                                           │ NOTIFY candles_new
                                                           v
                            FeatureCalculatorWorker ─> Ohlcv_Features
```

Several inserters run at once (collector, gap filling, imports, each with its own
connection); ADR 0005 allows several consumers. PostgreSQL runs every statement on
its own snapshot (READ COMMITTED), so a function that is one call to the C# code is
several steps to other transactions. A notification reaches only listeners connected
at the commit. The Worker process is stopped by every deployment. `PROJECT.json`
lists the hazards that follow from this, at their lines, with the property that
covers each; the few without one say why.

## 3. The modules, and how they correspond to the code

### CandlePipeline

`Trades`, `DirtyMinutes` and `Ohlcv_1min` are the committed rows `trades`, `dirty` and
`candle`; a candle is the set of ticks it was computed from. One action is one
statement, and the effect of a transaction shows to others at its commit action.

| Action | Code |
|---|---|
| `BulkInsert`, `MarkDirty`, `CommitInsert`, `AbortInsert` | `sp_bulk_insert_trades`: CTE `inserted`; CTE `dirty`, one row per step; commit with `NOTIFY`; any failure |
| `LockChunk`, `ReadTicks`, `DeleteRows`, `CommitChunk`, `AbortChunk` | `sp_aggregate_dirty_minutes`: `FOR UPDATE SKIP LOCKED`; the `INSERT … SELECT`, whose snapshot is taken when it starts; `DELETE`; commit; any failure |
| `QueueDry`, `Notified`, `Recheck` | `PgNotifyConsumer.DrainAsync`, `WaitAsync` |
| `Rotate` | `sp_rotate_partitions`, which waits for the transactions that have touched `Trades` |

The partitions that a chunk ensures between `LockChunk` and `ReadTicks`
(`sp_ensure_month_partitions`, `02_baseline.sql:117-124`) are no rows of these tables: the
chunk waits for them, or fails and is rolled back (`AbortChunk`). The
months themselves and their locks are `PartitionRotation`'s.

The row-lock rules of PostgreSQL that matter are explicit: an insert waits for another
transaction that inserted or *deleted* the same key (`RowContended`), but
`ON CONFLICT DO NOTHING` does not wait for a row that is only locked `FOR UPDATE`.
`overtaken` is a history variable; no guard reads it. It collects the ticks whose
transaction relied on such a row while an aggregator had already taken its snapshot.

### CandleStore

What the tables promise to their readers, with every transaction one step:
`Publish`, `Refresh`, `Expire`. `CandlePipeline` implements it under the mapping
`late <- overtaken` and the identity elsewhere (`ImplementsCandleStore`).

### FeaturePipeline

A candle's row is the number of times it was recomputed (`version`), its
`ProcessingStatus`, and whether its claim is older than 15 minutes (`claimOld`);
its saved features are the version they were computed from. `Claim` is the one
statement of `ClaimNewKlinesForProcessingAsync`; `SaveFeatures` and `SymbolFails`
are one round of the loop over symbols; `Mark` is `MarkKlinesAsProcessedAsync` with
`succeededKlines`; `Stop` cancels the token that the loop looks at, `Crash` is the
death of the process (or of the marking statement), `Recompute` is the upsert of
`sp_aggregate_dirty_minutes`. A claim skips the rows an upsert in flight has locked
(`FOR UPDATE SKIP LOCKED`), so that it may take any part of the candidates, up to the size of a
batch (`IsBatch`); that it may also find nothing although there is work is `CandleFlow`'s
subject. `buried` is a history variable.

### NotifyConsumer and CandleFlow

`NotifyConsumer` is `PgNotifyConsumer` over a queue: connect and `LISTEN`, drain, wait,
recheck, stop, kill and restart.

| Action | Code |
|---|---|
| `Listen`, `Break`, `BreakNoticed` | `OpenAsync` and `LISTEN`, both successful (a failed attempt changes nothing, and `RetryDelay` later there is another); the connection breaks, perhaps unnoticed; `WaitAsync` throws on it |
| `Chunk`, `Dry`, `ChunkFails` | `ProcessChunkAsync` commits, returns 0, throws |
| `WakeUp`, `Recheck` | `WaitAsync` returns on a notification, or after `SafetyRecheck` |
| `Cancel`, `Stop`, `Kill`, `Restart` | `stoppingToken`, the end of `ExecuteAsync`, the end of the process or of the host's patience, the container's restart |
| `Deliver` | a transaction that queues work commits with its `NOTIFY`, which is counted only if a `LISTEN` is in force on a standing connection |
| `Lock`, `RolledBack`, `Done` | another transaction locks rows of the queue, and rolls back, or commits having done their work |
| `Return` | a claim on work expires |

Both queues are read with `FOR UPDATE SKIP LOCKED` (`02_baseline.sql:111`,
`OhlcvRepository.cs:48`): rows that others have locked (`held`) are passed over, and a drain
that finds only such rows ends as on an empty queue (`Ready`). If their holder then rolls
back, they are work again and no statement says so; the same goes for expired claims.
The history variable `untold` collects what came back in this way during a wait. A chunk
whose client gives up (the command's timeout, the host's, a kill) may leave its transaction behind,
which the server ends later: `Orphaned` adds its rows to `held`.

`CandleFlow` instantiates it twice, for `OhlcvAggregationService` and
`FeatureCalculationService`, in one process. Here a chunk of minutes has a beginning
(`BeginUpsert`: its upsert has run and holds the locks of its candles, which the
claim skips) and an end: `CommitChunk`, which makes the candles 'new' and posts to the
second consumer, or a failure, after which the server rolls back or commits
(`OrphanRollsBack`, `OrphanCommits`; parts of orphaned chunks may end apart, which is more than
the code can do). `Calculate` claims a batch and marks all of it but the
failed symbols' candles, which stay `claimed` until `Expire`, fifteen minutes later. The order in
which chunks are taken is left to `CandlePipeline` and `FeaturePipeline`.

### ArchivePipeline

Per archive (symbol and day) the zip and the unpacked csv on disk, who is writing
them, the batches in `Trades` and the row of `ArchiveImportLog`; per slot of Hangfire's
table one job with its place in the method, its retries and, for an import, the
batches its csv yields and those inserted.

| Actions | Code |
|---|---|
| `RequestDownload`, `RequestProcessing`, `RequestDeletion` | `ArchiveController`, which enqueues jobs and does not ask what is in the queue |
| `SkipDownload`, `OpenZip`, `WriteZip`, `FinishZip`, `FinishUnlinked`, `NothingToDownload` | `DownloadArchiveAsync`: the file is created under its final name with `FileShare.None` and filled |
| `SkipUnpacking`, `CheckZip`, `ClearDirectory`, `StartExtraction`, `FinishExtraction`, `FindCsv`, `EnqueueImport`, `RemoveZip` | `UnpackArchiveAsync`, statement by statement |
| `OpenCsv`, `InsertBatch`, `RecordImported`, `RemoveDirectory` | `ImportFromCsvAsync`; `DisableConcurrentExecution` lets one import run |
| `DeleteFile` | `DeleteFileAsync` |
| `Throws`, `Kill` | an exception at any statement with its `catch` and Hangfire's retry; the end of the process, which releases the locks and leaves the files |
| `Rotate` | `sp_rotate_partitions`: the month's trades go, its log stays |

Deleting a file that another job has open leaves that job writing or reading a file
without a name (Linux); opening one that is being written fails. `disturbed` is a
history variable: archives whose zip was deleted by hand, that two jobs unpacked at
a time, or whose half-extracted csv an import opened.

### TradeRecovery

One symbol's trades from the exchange to `Trades`, and those who bring what the collector
missed. A trade is executed per unit of time, so its id is its time; windows, horizons
and days are counted in trades.

| Actions | Code |
|---|---|
| `Execute`, `SaveBuffer` | the producer of `BinanceCollectorWorker` (a trade may be missed) and `DatabaseWriterLoop` with `SaveBufferAsync`, which drops the buffer when the insert fails |
| `QuickHandle`, `EnqueueFails` | one gap of `CheckAndFillRecentGapsAsync`: `TryMarkAsProcessing`, then `Enqueue` |
| `Track` | `sp_update_tracked_symbols` meets the symbol and gives it its `DateAdded` (`added`); the collector subscribes to tracked symbols only |
| `InitAudit`, `AuditBegin`, `ReachHotZone`, `JumpOver`, `Check`, `AuditAdvance`, `AuditFails` | `InitializeAuditForNewSymbolsAsync`, which starts the cursor before `DateAdded`, or at the retention floor if that is later; one step of `ProcessSymbolChunkAsync`, from the read watermark to the written one |
| `Lookup`, `ScheduleDay` | `ScheduleArchiveImport`, which is `async void`: its lookups and its enqueues happen when they happen; its exception ends the process |
| `Start`, `Bring`, `SkipBelowFloor`, `AttemptFails`, `LockTimeout` | `FillWithApiAsync` and `ImportArchiveAsync` as jobs of Hangfire, with `finally`, retries and the lock of `DisableConcurrentExecution`, whose timeout comes before the method's `try` |
| `Halt`, `Restart` | the process: queue, tracker and what is being scheduled are gone, the jobs are not |
| `Rotate` | `sp_rotate_partitions`: the oldest trades and the watermark |

An insert is refused when one of its trades has no partition (`Accepts`). Three history
variables name what the code gives up: `blind`, the missing trades of a window that
the audit passed without a pair of stored trades around them; `forsaken`, the ones it
found and lost hold of (an import that used up its attempts, days not yet enqueued when
the process ended or barred by an orphaned mark); `orphans`, the tracker's marks that
no job will remove.

### PartitionRotation

`sp_ensure_month_partitions` (barrier, then `IF NOT EXISTS … CREATE TABLE` per table, then
the insert in a transaction of its own) of several writers against
`sp_rotate_partitions` (ensure the current and the next month, choose the oldest, drop it, again
and again, commit), under READ COMMITTED. `Trades` is table 1. A
created or dropped partition locks its parent until the transaction ends. The writers go
statement by statement. Of rotation, the choice of the oldest month (`RotateChoose`,
`02_baseline.sql:583-589`) takes no lock, and the drop (`RotateDrop`, 602-607) waits for
those who hold one, who may commit an older month meanwhile. The six `DROP`s of a month
are one step, and so are the first two months that rotation ensures: these statements lock
what they touch and are seen by nobody before the commit. The limit in
bytes is left open: rotation may stop after any month. `overtaken` is a history variable:
months created by a transaction that had passed the barrier before a rotation's commit.

### ArchiveBackfill

Months, not trades: whether a month has rows, minutes to do, logged days, a seal, and on
which disk it is; per slot of Hangfire's table one import with its state
(`Enqueued`, `Processing`, `Scheduled`). `Pause`/`Headroom` is
`WaitForPipelineHeadroomAsync` over the age of the newest candle; `Ensure` and
`InsertBatch` are the two transactions of `BulkInsertAsync`; `LookForImports`, `JudgeMonth`,
`WriteSeal` are the calls of `ReconcileMonthSealsAsync`; `Pick` and `Move` the choice of
`sp_evacuate_next_cold_partition` and the moment it has its lock; `Empty` is the operator's
TRUNCATE (`docs/common/03_database.md`). Histories: `unseen`, imports that the check for
imports could not or did not see; `late`, imports between the two transactions
when their month is emptied, or moved although empty.

### Proof modules

`CandlePipelineProofs`, `FeaturePipelineProofs`, `NotifyConsumerProofs`, `CandleFlowProofs`,
`ArchivePipelineProofs`, `TradeRecoveryProofs`, `PartitionRotationProofs` and
`ArchiveBackfillProofs` extend the modules they are about.
`MC…` modules hold the constants of the runs.
Definitions marked "mutant" in a comment are slight mistakes one could make in the
code; no specification uses them. Putting one in the place of the definition after it
must make the property named in `PROJECT.json` fail, which shows that the run
would notice.

## 4. The runs

| Run (`cfg`) | Asks | Instance | Distinct states |
|---|---|---|---|
| `CandlePipeline_faults` | types; `OnlyOvertakenTicksAreLost`, `CandlesStandOnStoredTicks`, `WatermarkCoversCandles`, `CandlesOnlyGrow`, `ImplementsCandleStore`; `EveryTickIsAggregated`, `QueueDrains` under `FairSpec` | 3 ticks, 2 minutes of 2 months, 2 inserters, 2 aggregators, chunk 1 | 35,232 |
| `CandlePipeline_lost` | that every tick reaches its candle: **violated** | 1 aggregator | |
| `FeaturePipeline_single` | `ProcessedMeansCurrent`, `EveryCandleIsProcessed` without stops | 3 candles, 2 symbols, batch 2, 2 recomputations each, 1 worker | 187,176 |
| `FeaturePipeline_parallel` | types, `StaleOnlyIfBuried` with stops | 2 candles, 2 workers | 476,944 |
| `FeaturePipeline_stop` | `ProcessedMeansCurrent` with stops: **violated** | 1 worker | |
| `NotifyConsumer_faults` | types, `NoSleepOnWork`, `WorkGetsDone` | 3 items, chunk 2, 3 transactions of others | 18,432 |
| `CandleFlow_faults` | types, `BothAreTold`, `PassesBothQueues` | 2 candles, chunks of 1, 1 inserting transaction, any initial queues | 135,753 |
| `ArchivePipeline_jobs` | types, `UndisturbedLogIsTrue`, `NothingIsLost` | 1 archive, 2 batches, 3 job slots, 1 retry, symmetry | 254,062 |
| `ArchivePipeline_log` | `LoggedDaysAreStored`: **violated** | the same | |
| `TradeRecovery_faults` | types, `AuditLeavesNothing`, `MarksHaveJobs`; `AuditEnds` under `FairSpec` | 4 trades, 2 days (2 months), windows of 3, 2 job slots, 1 retry, 2 failed checks | 582,565 |
| `PartitionRotation_races` | types, `TablesAgree`, `DroppedStaysDropped`, `OldestFirst` | 3 months, 3 tables, 2 writers, none kept but the current month and those after it, symmetry | 1,228,685 |
| `ArchiveBackfill_months` | types, `NotUnderImport`, `RefilledOnHot`; `PausesEnd`, `WholeMonthsGoCold` under `FairSpec` | 2 months (one with a day that is never imported), 1 import with 1 retry, ages 0–2 | 786,537 |

Bounds. The pipelines need two of each actor for every race the code guards against:
two inserters that coalesce on one queue row, two aggregators that compete for it.
The ticks are two of one minute (coalescing) and one of the next month (rotation, and the
newest-first order, which chunks of one minute make a choice). Nothing else in
`CandlePipeline` is bounded: a tick can be
offered again, so the behaviours are infinite. `MaxVersion` bounds recomputations of a candle
(two, so that there is a version to overwrite); `MaxPosts` bounds what producers and other
transactions begin (not what they end): three are a post, a lock and an expired claim in one
wait. `CandleFlow` needs one insert, because candles, claims and minutes may be there from the
start; its chunks, orphans and expiries are not bounded. Chunks of one of two items leave one
to be locked or orphaned while the other is taken. The feature runs say `CHECK_DEADLOCK FALSE` because the model is idle once
the bounded recomputations are processed; the other runs, but for those of the archives,
do check deadlock.

`TradeRecovery`: `LastTrade` bounds what the exchange executes. Four trades give a gap
inside a window, one over the edge of two windows and one over the edge of two days (which
is also the edge of two months, for batches that rotation refuses by half); windows of
three are the shortest with a gap inside. Two slots let a filling and an import, two imports
or two jobs for one gap meet; a slot frees itself. `MaxRetries` = 2 tells the
first failed check from the last, `Attempts` = 1 a retry from a discarded job.
`Track` may come at any time while the symbol has
not been met; among four trades one that is met after the first of them reaches the hot
zone in its first window, so that audits of several windows are those of early symbols; the theorem
has no such limit. `QuickHorizon` 4 leaves one window to the quick audit, so that the rest is the
historical audit's alone.

`PartitionRotation`: `LastMonth` bounds time; with `MinMonthsToKeep` = 0 three months leave
two to drop, and both may be dropped by one rotation, so that an older month can slip in
between a choice and its drop after an earlier rotation. Three tables have a first (whose partition is the floor), one between and
a last; the other three are created and dropped in the same way. Two writers race each
other and rotation.

`ArchiveBackfill`: the two months tell "older and incomplete" from "later and complete";
the first has a hole in its log, for its middle day is never imported, or is complete with
only one day logged. One import slot is enough for every race with the reconciler and the
evacuation (two jobs of one month only widen them), and it is a csv's because an
online import does to the tables what a csv import does that fails on its last attempt: it
inserts and logs nothing. A second slot, for an online import, was checked for safety
alone on one day. `MaxAge` caps the age beyond the upper threshold.

Archives meet only in the import lock, which the jobs of one archive exercise too.
Slots free themselves, so that behaviours are infinite and any three jobs can meet (an
unpacker, an import of an earlier unpacking and a download, say). Retries are
bounded by `Retries`, as they are in Hangfire; one is enough to start a method again
on what a failed attempt has left. Two batches tell a part of a day from the whole.
The runs of `ArchivePipeline` say `CHECK_DEADLOCK FALSE`: when a month has been dropped and its files are
gone, nobody asks for them again.

## 5. Fairness

A liveness property is worth what its fairness is.

- The consumer is a `BackgroundService`: its loop runs as long as the process does,
  timers fire, and `WaitAsync` returns after 60 s. This is weak fairness of the
  steps of the loop.
- A step that a fault can prevent again and again (a chunk, a connection attempt,
  computing a symbol) gets strong fairness: not every attempt fails. The code has no
  bound on retries and no poison handling, so for a chunk that always fails there is no
  liveness; section 8.
- `NotifyConsumer`: strong fairness of `Listen` and of a chunk that commits, weak fairness of
  the rest of the loop and of the container's restart. Every other transaction on the queue
  ends, with a commit or a rollback (`Ends`): the server ends what it runs.
- `CandleFlow`: the same for both loops; strong fairness of beginning and of committing a
  chunk, and of a batch of which not every candle fails; weak fairness of the
  end of orphaned chunks and of a claim's expiry, which are a matter of time. Both loops
  get past what nobody announces by `Recheck` alone.
- Crashes of the feature worker end at some time (`<>[][~Crash]`); kills in
  `NotifyConsumer` and `CandleFlow` need not.
- `TradeRecovery`: Hangfire starts what is recurring, enqueued or due (`WF` of the audit's
  steps and of each job; the audit's lookups go on by themselves). `SF` of the enqueueing of
  days, because in the model, not in Hangfire's table, a slot must be free. An attempt may fail
  whenever it may: retries are bounded, and so are the audit's failed checks, so that no
  assumption about faults is needed, except that the process is not for ever killed
  (`<>[]up` in `AuditEnds`). The quick audit has no fairness.
- `ArchiveBackfill`: imports, reconciliation and the hourly evacuation come round (`WF`);
  reconciliations and moves do not break off for ever (`<>[][~BreaksOff]`), because the
  code tries them again without limit. `PausesEnd` assumes young candles,
  `WholeMonthsGoCold` that imports come to an end: both are premises of the properties.
- Producers, rotation, stops and faults have no fairness.

## 6. What is proved

For every value of the constants, by `tlapm` without remaining obligations:

| Theorem | Says |
|---|---|
| `TypeCorrect`, `FeatureTypes`, `ConsumerTypes` | `Spec => []TypeOK` of the candle, feature and consumer modules |
| `NoOtherLoss` | `Spec => []OnlyOvertakenTicksAreLost` |
| `StoredTicksOnly` | `Spec => []CandlesStandOnStoredTicks` |
| `WatermarkIsAhead` | `Spec => []WatermarkCoversCandles` |
| `CandlesGrow` | `Spec => CandlesOnlyGrow` |
| `PipelineImplementsStore` | `Spec => ImplementsCandleStore` |
| `NoOtherStaleness` | `Spec => []StaleOnlyIfBuried`, any number of workers, with stops |
| `ProcessedIsCurrent` | with one worker, `SteadySpec => []ProcessedMeansCurrent` |
| `WaitsOnlyWhenTold` | `Spec => []NoSleepOnWork`, whatever others lock, roll back and return |
| `FlowTypes` | `Spec => []TypeOK` of `CandleFlow` |
| `NeitherSleepsOnWork` | `Spec => []BothAreTold`, the two consumers of one process, with upserts in flight, orphaned chunks and expiring claims |
| `AggregatorIsAConsumer` | `Spec => Agg!Spec`: the first of them implements `NotifyConsumer` |
| `ArchiveTypes` | `Spec => []TypeOK` of `ArchivePipeline` |
| `LoggedIsStored` | `Spec => []UndisturbedLogIsTrue`, any number of archives, jobs and retries |
| `ArchiveSurvives` | `Spec => NothingIsLost` |
| `RotationTypes` | `Spec => []TypeOK` of `PartitionRotation` |
| `TablesTogether` | `Spec => []TablesAgree`, any number of months, tables and writers |
| `NothingComesBack` | `Spec => []DroppedStaysDropped` |
| `DropsInOrder` | `Spec => OldestFirst`, the choice of a month and its drop being steps apart |
| `RecoveryTypes` | `Spec => []TypeOK` of `TradeRecovery` |
| `MarksAreTaken` | `Spec => []MarksHaveJobs`, any number of slots and retries |
| `NothingIsLeftBehind` | `Spec => []AuditLeavesNothing`: from `DateAdded` on, any trades, days, windows and rotations |
| `BackfillTypes` | `Spec => []TypeOK` of `ArchiveBackfill` |
| `NoMoveUnderImport` | `Spec => NotUnderImport`, any number of months, import slots and retries |
| `RefillsGoToHot` | `Spec => RefilledOnHot` |

Assumptions: `PipelineAssumption`, `FeatureAssumption`, `ConsumerAssumption`,
`ArchiveAssumption`, `RotationAssumption`, `RecoveryAssumption`, `BackfillAssumption`
give the constants their types and the batch sizes a positive value.
`RecoveryAssumption` also says that the days are disjoint, cover all trades and lie within
months, as the days of a calendar do; `BackfillAssumption` orders the two thresholds as
`ImportBackpressure` does. `CandleFlow` assumes nothing.
`ProcessedIsCurrent` also assumes one worker, which is what is deployed.

*Candles.* `OnlyOvertakenTicksAreLost` is not inductive: it says nothing about the
private state of transactions. `IInv` adds that a locked queue row stays in the queue
and with its holder (`BatchesQueued`, `BatchesDisjoint`, `OwnRowsNew`), that what an
aggregator saw contains the candle it will replace (`SeenCoversCandle`), and that a
tick that is neither overtaken nor in its candle was seen by every aggregator past its
snapshot of the minute (`NothingSlipsBy`). The commit of an inserter preserves
`NothingSlipsBy` exactly because `Overtaken` names the other case. `CandlesGrow`
and the refinement follow from the same invariant: `SeenCoversCandle` is what makes a
commit a `Refresh`.

*Features.* Two invariants, because several workers and the deployed single worker
need different arguments: `WIInv` follows versions (a recomputation makes every claim on
the candle obsolete), `SIInv` follows the status (nobody but the worker itself turns
'new' into 'processing').

*Consumers.* `NoSleepOnWork` is inductive with the types: what becomes takeable during a wait
was delivered, with a notification, or is `untold`. In `CandleFlow`, a step of the
process is for each consumer a step of its own loop, one of another transaction on its queue,
or nothing (`AggregatorStep`, `CalculatorStep`). For the first consumer these are steps of
`NotifyConsumer`, in which a chunk is one step: it is taken when it commits, and until then
stays a chunk that could be taken (`ChunkInFlight`). That gives the refinement. The second
one's other transactions are the chunks of the first and the expiry of claims, of which there
is no bound, so that its steps are listed in `CalculatorSees`. That a cancellation reaches both
needs `UpTogether`: without a cancelled token, neither is stopped alone.

*Archives.* What is on disk says nothing without the jobs that rely on it. `IInv`
says what each job may rely on at its place: a download on its file, an unpacker on
the zip until it deletes it (`UnpacksHaveZip`, `OneUnpacker`) and then on the csv, an
import on the whole csv it has opened, deleted or not, and on what it has stored
(`TrustsCsv`). Each job's steps touch one archive, so two frame lemmas (`ZipFrame`,
`CsvFrame`) reduce every step to the facts about that archive. `ArchiveSurvives` then
goes through the steps that delete or overwrite: at each, `IInv` says where else the
trades are.

*Partitions.* Both invariants need what a writer may rely on after the barrier: its month
lies below no floor that was left (`WritersKept`), and its tables up to the next one are
there or its own (`TablesSoFar`), both only until a rotation is committed, which marks it
late. In `DropsInOrder` the month that rotation has chosen, and those it has dropped, remain the
oldest, or an older one is excused (`ChosenOldest`, `DropsOldest`): what is committed below
a chosen month either got past the barrier before an earlier rotation's commit, and is
`overtaken`, or lies above a month that is still left, and is not older (`OldestLeft`, `Excused`).
Once rotation has dropped a month its locks keep others from creating one (`RotationLocks`). `SomeMonthStays` closes the case in which the floor of an empty set would
let any month in: at least the month in which the rotation began is always left.

*Recovery.* `AuditLeavesNothing` speaks of the cursor; between the check of a window and the
writing of the watermark the audit is ahead of it, so `IInv` speaks of the frontier
(`Passed`), from `added` on: a missing trade behind it is in somebody's hands, `blind` or `forsaken`
(`PassedAccounted`). The frontier passes a trade only where its window is jumped over or
checked. From there the trade is handed from a lookup to a day to an import. A day that is
already marked is not enqueued, so this step needs `MarksHaveJobs`: the mark has a job, whose
import brings the trade, or is an orphan, which makes the trade forsaken. An import that ends well has
stored what it does not still owe (`WorkDone`), as far as it has a partition; what it
skipped below the floor stays below it, for no day lies in two months (`ImportsOfDays`,
`DayBelowFloor`). `AuditBehind` and `Audited` keep a rotation or a retry from
moving the frontier otherwise.

*Backfill.* `NotUnderImport` is about the step that moves a month, whose reasons lie three
routines earlier. `IInv` carries them along: while seals are reconciled, every import there is
was missed by the check for imports (`ReconcilingUnseen`); so is every import of a month
with a seal or chosen to be moved (`SealedUnseen`). `VerdictInLog` is why a seal has its month in
the log. For `RefilledOnHot`, an import about to insert into an empty month has ensured it
on the fast disk, and whatever put it back on the cold one has made it late (`EnsuredOnHot`).

The invariants `IInv` of the recovery, partition, backfill and flow proofs were checked by TLC, on
the instances of section 4, before they were proved.

Only model-checked, because fairness and `ENABLED` are beyond the prover:
`EveryTickIsAggregated`, `QueueDrains`, `EveryCandleIsProcessed`, `WorkGetsDone`,
`PassesBothQueues`, `AuditEnds`, `PausesEnd`, `WholeMonthsGoCold`. The three violations are
TLC's counterexamples. Every other property of a passing run has its theorem.

## 7. What the models found in the code

1. **A tick can miss its candle** (`CandlePipeline_lost`). While an aggregator is between
   its snapshot of a minute and its commit, the minute's queue row is locked but
   visible. An insert of another tick of that minute finds it (`ON CONFLICT DO NOTHING`,
   `02_baseline.sql:230`) and commits; the aggregator then deletes the row. The
   tick is in `Trades`, not in the candle, and its minute is not queued.
   `OhlcvAggregationService.cs:10-12` promises the opposite. The transaction
   takes minutes, so the window is wide when archives or gaps are filled behind the
   realtime data. The models show that this is the *only* way (`NoOtherLoss`).
2. **A stop buries candles** (`FeaturePipeline_stop`). The loop over symbols breaks on the
   cancelled token (`FeatureCalculatorWorker.cs:72`), and the candles of the symbols it
   did not reach are marked as processed (line 121), against the comment above it.
3. **The status check is not a recomputation detector for several workers.** ADR 0014
   relies on 'processing' meaning "still my claim"; after a recomputation and a second
   claim it is 'processing' again (`OhlcvRepository.cs:83`), and the first worker's
   marking passes. ADR 0005 allows several workers; one is deployed. This is one of the
   two kinds of step that `StaleOnlyIfBuried` excepts (`buried`).
4. **A logged day need not be there** (`ArchivePipeline_log`). The csv appears under its
   final name while it is extracted. If the extraction is broken off (a kill, a full
   disk) or two jobs unpack one zip, and an import of that archive is queued from
   before, the import takes the first part of the day for all of it and records the day
   in `ArchiveImportLog`, on which the month's seal rests (ADR 0012). The theorem
   `LoggedIsStored` shows that, manual deletions apart, nothing else makes the log wrong.

The properties behind the points that follow hold with exceptions, each a history
variable. The exceptions are what the code does not do; TLC reaches every one of them, and
none without the sequence of steps that is said here.

5. **Holes the audits do not see** (`blind`). Both audits look for a pair of neighbours
   within one window (`TradeRepository.cs:148-163`, `02_baseline.sql:499-508`). A gap whose sides
   lie in different windows has no such pair; neither has a gap before the first or after
   the last trade of a window, and a window without any trade is jumped over
   (`HistoricalAuditorWorker.cs:104-110`). The quick audit's windows move with the clock and
   may see it another time; the historical audit passes each point once, with fixed
   windows, and then calls the symbol completed.
6. **Holes the audits forget** (`forsaken`, `orphans`). The watermark moves on when the imports
   of a window are scheduled, not when they have succeeded
   (`HistoricalAuditorWorker.cs:119-128`). An import that uses up its attempts, or a process
   that ends between the watermark and the `async void` enqueues, leaves a hole nobody looks for
   again. A mark set before a failing `Enqueue` (`QuickAuditorWorker.cs:63-66`), or whose
   job is discarded waiting for the method's lock (its `finally` has not been reached), bars its
   gap or day until the process ends. Trades from before `DateAdded`
   are behind the cursor from the start (`HistoricalAuditRepository.cs:38-41`), are nobody's, and
   `docs/TECH_DEBT.md` §1 says so: `AuditLeavesNothing` speaks of trades from `DateAdded` on, and
   shows that of these there is no other way for one to be left behind the
   cursor; `MarksHaveJobs` says the same of marks.
7. **A dropped month can come back** (`overtaken`). The barrier of `sp_ensure_month_partitions`
   (`02_baseline.sql:265-272`) reads the floor once; if rotation commits before the partition
   is created, it is created below the new floor, which falls back to it, and the
   audit or an import may fill the month again. If only the later tables are created so, the
   rest of the month stays: rotation looks at `Trades` alone (`02_baseline.sql:583-589`).
   A newer month can also go first: rotation chooses the oldest month without a lock and then
   waits for the parent's to drop it (602); if the transaction it waits for commits an older
   month, that one is left behind until the next round. `OldestFirst` says that this, too,
   needs a transaction that had passed the barrier before an earlier rotation's commit.
8. **A month can go cold under its import** (`unseen`). ADR 0012 calls this «исключена по
   построению» (excluded by construction). The check for imports is made once, before the months
   are judged (`PartitionMaintenanceWorker.cs:83`); an import that waits for its retry does
   not count (`TradeRepository.cs:248`); and a month keeps its seal while imports of it are
   asked for later, since seals are not touched as long as an import is in flight. An operator's
   TRUNCATE leaves log and seal, so that a refill starts in a sealed month. `NotUnderImport`
   shows that there is no fourth way.
9. **Imports wait for realtime data that need not come.** A paused import goes on when the
   newest candle is younger than 150 s (`ImportBackpressure.cs:65`). Without realtime ticks
   (collectors disabled, streams down) its age only grows. While it waits it counts as in
   flight, holds the lock of its method, and no seal is reconciled. `PausesEnd` therefore has
   its premise.
10. **Some work is announced by nobody** (`untold`). A drain passes over rows that are
   locked (`FOR UPDATE SKIP LOCKED`) and reports an empty queue. When the transaction that
   held them rolls back (a chunk whose command timed out and that the server still runs, an
   upsert of the aggregator under the feature calculation's claim), they are work again
   without a `NOTIFY`; so are claims that expire after 15 minutes. The consumer waits on
   them, told of nothing, until the 60 s recheck (`PgNotifyConsumer.cs:30-34`, whose comment has
   lost notifications in mind). `NoSleepOnWork` shows that this, a failed drain
   and a broken connection are the only cases, and `PassesBothQueues` that the recheck suffices.

## 8. What is not modelled

- Arithmetic of prices, CVD and indicators (decimals, and a library), SQL text,
  logging, configuration, the web application, status messages and data quality
  reports: no protocol state, or presentation.
- PostgreSQL, Hangfire and the Binance client are modelled by how the code uses them.
- A chunk that fails on every attempt. It is retried newest first, so it keeps older
  work waiting; the liveness runs exclude it by strong fairness.
- What a feature's value depends on besides its own candle: the warm-up history as it was and
  the batch in which CVD starts. The models compare versions of candles, not values.
- The order book collector: books are kept in step by the client library, and the worker
  samples and averages them in memory; there is no protocol of its own beyond it.
- Tracked symbols: the models have one symbol, which gets its `DateAdded` at some time
  (`TradeRecovery`) and stays active from then on. Selection is one SQL
  statement over ranks.
- The scripts under `DataManager/wwwroot` (`jquery.validate.unobtrusive.js`,
  `lightweight-charts…js`, an empty `site.js`): vendored libraries of the web pages, none
  of the program's own logic. The program is C# and SQL, and that is what the models cover.
- What `PROJECT.json` marks `not_modelled`, with the reason given there.

## 9. Plan

Modelled: `CandlePipeline`, `CandleStore`, `FeaturePipeline`, `NotifyConsumer`, `CandleFlow`,
`ArchivePipeline`, `TradeRecovery`, `PartitionRotation`, `ArchiveBackfill`. Proved: every
safety property that the passing runs check. What is left, in this order:

1. For the unexpected cases that sections 4 and 7 name with history variables, theorems that
   follow them through one more step: that an import which stays in the queue
   keeps its trades from being forsaken, that a tick which was overtaken is healed by the
   next recomputation of its minute.
2. An abstract specification of trade recovery (a set of trades that only grows, but for
   rotation, with the holes behind the watermark named) and the steps that map to it.
3. Safety lemmas on which the liveness arguments of section 5 rest (which actions
   keep a job's next step enabled), as far as they can be stated without `ENABLED`.
