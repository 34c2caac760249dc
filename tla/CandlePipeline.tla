--------------------------- MODULE CandlePipeline ---------------------------
(***************************************************************************)
(* Ticks to minute candles: the tables Trades, DirtyMinutes and            *)
(* Ohlcv_1min, the transactions that write them, and the consumer loop of  *)
(* OhlcvAggregationService.                                                *)
(*                                                                         *)
(* Two kinds of transaction meet on these tables, both READ COMMITTED:     *)
(*                                                                         *)
(*   - an INSERTER runs sp_bulk_insert_trades.  It inserts the ticks that  *)
(*     are new, then puts the minute of each into DirtyMinutes with        *)
(*     ON CONFLICT DO NOTHING, then commits;                               *)
(*   - an AGGREGATOR runs sp_aggregate_dirty_minutes.  It locks a chunk of *)
(*     queue rows (FOR UPDATE SKIP LOCKED, newest first), recomputes the   *)
(*     candles of these minutes from the ticks its next statement's        *)
(*     snapshot shows, deletes the queue rows, then commits.               *)
(*                                                                         *)
(* Each statement is a step of its own, and what a transaction did shows   *)
(* to the others at its commit.  trades, dirty and candle are the          *)
(* committed rows; ins, own, batch and seen are the transactions' private  *)
(* state.  A candle is the set of ticks it was computed from (its prices,  *)
(* volume and CVD delta are functions of that set); {} is "no row".  The   *)
(* ProcessingStatus column, and the NOTIFY candles_new that goes with it,  *)
(* are the subject of FeaturePipeline, whose Recompute is this upsert.     *)
(***************************************************************************)
EXTENDS Naturals, FiniteSets

CONSTANTS
    Trade,          \* the ticks that may be offered for insertion
    Minute,         \* keys of DirtyMinutes and Ohlcv_1min: a symbol's minute
    MinuteOf,       \* the minute of each tick
    OpenTime,       \* the OpenTime column of each key
    MonthStart,     \* the retention floors rotation may reach
    Inserter,       \* connections running sp_bulk_insert_trades
    Aggregator,     \* consumers running sp_aggregate_dirty_minutes
    ChunkMinutes    \* ChunkMinutes of OhlcvAggregationService

ASSUME PipelineAssumption ==
    /\ MinuteOf \in [Trade -> Minute]
    /\ OpenTime \in [Minute -> Nat]
    /\ MonthStart \subseteq Nat
    /\ ChunkMinutes \in Nat \ {0}

VARIABLES
    trades,     \* committed rows of Trades
    dirty,      \* committed rows of DirtyMinutes
    candle,     \* committed rows of Ohlcv_1min
    floor,      \* fn_retention_floor_ms: no partition exists below it
    watermark,  \* Processing_Watermarks row of OhlcvAggregator
    ipc,        \* where each inserter is: "idle" or "marking"
    ins,        \* ticks the open insert really inserted (CTE inserted)
    todo,       \* their minutes not yet put into DirtyMinutes
    own,        \* queue rows the open insert added, uncommitted
    apc,        \* where each aggregator's loop is
    wake,       \* a NOTIFY dirty_minutes is waiting at the listener
    batch,      \* queue rows the aggregator's transaction has locked
    seen,       \* ticks of these minutes its INSERT..SELECT snapshot showed
    overtaken   \* history: see Overtaken below

tables     == <<trades, dirty, candle, floor, watermark>>
inserting  == <<ipc, ins, todo, own>>
aggregates == <<apc, batch, seen>>
vars       == <<tables, inserting, aggregates, wake, overtaken>>

Working == {"locked", "read", "deleted"}   \* inside a transaction
PastRead == {"read", "deleted"}            \* its snapshot is taken

TypeOK ==
    /\ trades \subseteq Trade
    /\ dirty \subseteq Minute
    /\ candle \in [Minute -> SUBSET Trade]
    /\ floor \in Nat
    /\ watermark \in Nat
    /\ ipc \in [Inserter -> {"idle", "marking"}]
    /\ ins \in [Inserter -> SUBSET Trade]
    /\ todo \in [Inserter -> SUBSET Minute]
    /\ own \in [Inserter -> SUBSET Minute]
    /\ apc \in [Aggregator -> {"waiting", "draining"} \cup Working]
    /\ wake \in [Aggregator -> BOOLEAN]
    /\ batch \in [Aggregator -> SUBSET Minute]
    /\ seen \in [Aggregator -> SUBSET Trade]
    /\ overtaken \subseteq Trade

\* Empty tables; the consumer drains before its first wait.
Init ==
    /\ trades = {}
    /\ dirty = {}
    /\ candle = [m \in Minute |-> {}]
    /\ floor = 0
    /\ watermark = 0
    /\ ipc = [i \in Inserter |-> "idle"]
    /\ ins = [i \in Inserter |-> {}]
    /\ todo = [i \in Inserter |-> {}]
    /\ own = [i \in Inserter |-> {}]
    /\ apc = [a \in Aggregator |-> "draining"]
    /\ wake = [a \in Aggregator |-> FALSE]
    /\ batch = [a \in Aggregator |-> {}]
    /\ seen = [a \in Aggregator |-> {}]
    /\ overtaken = {}

-----------------------------------------------------------------------------
(* The insert transaction *)

TickTimes(T) == T   \* mutant: queue the trade time, not its minute
MinutesOf(T) == {MinuteOf[t] : t \in T}

\* A partition exists for every month from the floor on.
Stored(t) == OpenTime[MinuteOf[t]] >= floor

\* CTE inserted.  A tick another open transaction has inserted makes the
\* unique index wait for that transaction, so the step is taken once no other
\* inserter holds one of the offered ticks.  A batch with a tick below the
\* floor finds no partition, and the whole call fails: no state changes.
BulkInsert(i, T) ==
    /\ ipc[i] = "idle"
    /\ \A t \in T : Stored(t)
    /\ \A j \in Inserter : ins[j] \cap T = {}
    /\ ipc' = [ipc EXCEPT ![i] = "marking"]
    /\ ins' = [ins EXCEPT ![i] = T \ trades]
    /\ todo' = [todo EXCEPT ![i] = MinutesOf(T \ trades)]
    /\ UNCHANGED <<tables, own, aggregates, wake, overtaken>>

\* The row is dead to every other transaction once its deleter commits: until
\* then the unique index waits for the deleter, or for another inserter of
\* the same row.
RowContended(i, m) ==
    \/ \E a \in Aggregator : apc[a] = "deleted" /\ m \in batch[a]
    \/ \E j \in Inserter \ {i} : m \in own[j]

\* CTE dirty, one row.  ON CONFLICT DO NOTHING neither locks nor waits for a
\* row that is merely locked FOR UPDATE: it counts as queued already.
MarkDirty(i, m) ==
    /\ m \in todo[i]
    /\ ~RowContended(i, m)
    /\ todo' = [todo EXCEPT ![i] = @ \ {m}]
    /\ own' = IF m \in dirty THEN own ELSE [own EXCEPT ![i] = @ \cup {m}]
    /\ UNCHANGED <<tables, ipc, ins, aggregates, wake, overtaken>>

\* The ticks of i that its commit publishes too late: their minute was queued
\* by somebody else, and by now that row is gone or the candle's snapshot has
\* been taken without them.
Overtaken(i) ==
    {t \in ins[i] :
        LET m == MinuteOf[t] IN
        /\ m \notin own[i]
        /\ \/ m \notin dirty
           \/ \E a \in Aggregator : apc[a] \in PastRead /\ m \in batch[a]}

InserterReset(i) ==
    /\ ipc' = [ipc EXCEPT ![i] = "idle"]
    /\ ins' = [ins EXCEPT ![i] = {}]
    /\ todo' = [todo EXCEPT ![i] = {}]
    /\ own' = [own EXCEPT ![i] = {}]

\* The NOTIFY is sent only if a queue row was really added (v_dirty > 0).  Each
\* consumer keeps its listener open from before its first drain.
CommitInsert(i) ==
    /\ ipc[i] = "marking"
    /\ todo[i] = {}
    /\ trades' = trades \cup ins[i]
    /\ dirty' = dirty \cup own[i]
    /\ wake' = [a \in Aggregator |-> wake[a] \/ own[i] # {}]
    /\ overtaken' = overtaken \cup Overtaken(i)
    /\ InserterReset(i)
    /\ UNCHANGED <<candle, floor, watermark, aggregates>>

\* A lost connection, a command timeout, a deadlock victim, a stopped process.
AbortInsert(i) ==
    /\ ipc[i] = "marking"
    /\ InserterReset(i)
    /\ UNCHANGED <<tables, aggregates, wake, overtaken>>

-----------------------------------------------------------------------------
(* The aggregation transaction *)

\* FOR UPDATE SKIP LOCKED sees the committed rows nobody has locked.
NotSkipping == dirty   \* mutant: FOR UPDATE SKIP LOCKED left out
Free == dirty \ UNION {batch[a] : a \in Aggregator}

\* ORDER BY OpenTime DESC LIMIT p_max_minutes
IsChunk(B, S) ==
    /\ B \subseteq S
    /\ \A b \in B, c \in S \ B : OpenTime[b] >= OpenTime[c]
    /\ Cardinality(B) =
          IF Cardinality(S) < ChunkMinutes THEN Cardinality(S) ELSE ChunkMinutes

LockChunk(a) ==
    /\ apc[a] = "draining"
    /\ \E B \in SUBSET Free :
          /\ B # {}
          /\ IsChunk(B, Free)
          /\ batch' = [batch EXCEPT ![a] = B]
    /\ apc' = [apc EXCEPT ![a] = "locked"]
    /\ UNCHANGED <<tables, inserting, seen, wake, overtaken>>

\* INSERT INTO Ohlcv_1min SELECT: a new statement, hence a new snapshot.
\* The partitions that sp_ensure_month_partitions creates before it are no rows
\* of these tables: when the chunk waits for its DDL or fails in it, nothing has
\* happened yet, or AbortChunk has (PartitionRotation has the months and locks).
ReadTicks(a) ==
    /\ apc[a] = "locked"
    /\ seen' = [seen EXCEPT ![a] = {t \in trades : MinuteOf[t] \in batch[a]}]
    /\ apc' = [apc EXCEPT ![a] = "read"]
    /\ UNCHANGED <<tables, inserting, batch, wake, overtaken>>

\* DELETE FROM DirtyMinutes USING batch
DeleteRows(a) ==
    /\ apc[a] = "read"
    /\ apc' = [apc EXCEPT ![a] = "deleted"]
    /\ UNCHANGED <<tables, inserting, batch, seen, wake, overtaken>>

NewTicksOnly(a, m) ==   \* mutant: aggregate what the candle does not have yet
    {t \in seen[a] : MinuteOf[t] = m} \ candle[m]
SeenIn(a, m) == {t \in seen[a] : MinuteOf[t] = m}

\* The rows the commit takes out of the queue.
UpToNewest(a) ==   \* mutant: delete by time instead of by row
    {m \in dirty : \E b \in batch[a] : OpenTime[m] <= OpenTime[b]}
WithCandle(a) ==   \* mutant: keep the minutes that gave no candle
    {m \in batch[a] : SeenIn(a, m) # {}}
Dequeued(a) == batch[a]

\* GREATEST of the old mark and the end of the newest minute of the batch.
BatchEnds(a) == {OpenTime[m] + 1 : m \in batch[a]}
NewestOfBatch(a, w) ==   \* mutant: GREATEST left out
    w \in BatchEnds(a) /\ \A x \in BatchEnds(a) : w >= x
Advances(a, w) ==
    /\ w \in {watermark} \cup BatchEnds(a)
    /\ \A x \in {watermark} \cup BatchEnds(a) : w >= x

\* A minute with no tick left (rotation dropped its month) gets no candle but
\* leaves the queue all the same.
CommitChunk(a) ==
    /\ apc[a] = "deleted"
    /\ candle' = [m \in Minute |->
                    IF m \in batch[a] /\ SeenIn(a, m) # {}
                    THEN SeenIn(a, m) ELSE candle[m]]
    /\ dirty' = dirty \ Dequeued(a)
    /\ \E w \in {watermark} \cup BatchEnds(a) :
          Advances(a, w) /\ watermark' = w
    /\ apc' = [apc EXCEPT ![a] = "draining"]
    /\ batch' = [batch EXCEPT ![a] = {}]
    /\ seen' = [seen EXCEPT ![a] = {}]
    /\ UNCHANGED <<trades, floor, inserting, wake, overtaken>>

\* A failed chunk rolls back; DrainAsync logs it and goes back to waiting.
AbortChunk(a) ==
    /\ apc[a] \in Working
    /\ apc' = [apc EXCEPT ![a] = "waiting"]
    /\ batch' = [batch EXCEPT ![a] = {}]
    /\ seen' = [seen EXCEPT ![a] = {}]
    /\ UNCHANGED <<tables, inserting, wake, overtaken>>

-----------------------------------------------------------------------------
(* The consumer loop around it *)

\* ProcessChunkAsync returned 0: the queue shows nothing more to this consumer.
QueueDry(a) ==
    /\ apc[a] = "draining"
    /\ Free = {}
    /\ apc' = [apc EXCEPT ![a] = "waiting"]
    /\ UNCHANGED <<tables, inserting, batch, seen, wake, overtaken>>

Notified(a) ==
    /\ apc[a] = "waiting"
    /\ wake[a]
    /\ wake' = [wake EXCEPT ![a] = FALSE]
    /\ apc' = [apc EXCEPT ![a] = "draining"]
    /\ UNCHANGED <<tables, inserting, batch, seen, overtaken>>

\* SafetyRecheck: WaitAsync returns after 60 s without a notification.
NoRecheck(a) ==   \* mutant: wait for notifications only
    Notified(a)
Recheck(a) ==
    /\ apc[a] = "waiting"
    /\ apc' = [apc EXCEPT ![a] = "draining"]
    /\ UNCHANGED <<tables, inserting, batch, seen, wake, overtaken>>

-----------------------------------------------------------------------------
(* Partition rotation *)

\* DROP TABLE of a month's partitions needs every transaction that has
\* touched Trades to end first; a transaction that only holds queue rows does
\* not stop it.
WritersOnly == \E i \in Inserter : ipc[i] = "marking"   \* mutant
TradesInUse ==
    \/ \E i \in Inserter : ipc[i] = "marking"
    \/ \E a \in Aggregator : apc[a] \in PastRead

\* Queue rows are not partitioned and stay.
Rotate(f) ==
    /\ f > floor
    /\ ~TradesInUse
    /\ floor' = f
    /\ trades' = {t \in trades : OpenTime[MinuteOf[t]] >= f}
    /\ candle' = [m \in Minute |-> IF OpenTime[m] >= f THEN candle[m] ELSE {}]
    /\ overtaken' = {t \in overtaken : OpenTime[MinuteOf[t]] >= f}
    /\ UNCHANGED <<dirty, watermark, inserting, aggregates, wake>>

-----------------------------------------------------------------------------
InsertStep(i) ==
    \/ \E T \in (SUBSET Trade) \ {{}} : BulkInsert(i, T)
    \/ \E m \in Minute : MarkDirty(i, m)
    \/ CommitInsert(i)
    \/ AbortInsert(i)

ChunkStep(a) ==
    \/ LockChunk(a)
    \/ ReadTicks(a)
    \/ DeleteRows(a)
    \/ CommitChunk(a)

Next ==
    \/ \E i \in Inserter : InsertStep(i)
    \/ \E a \in Aggregator : ChunkStep(a) \/ AbortChunk(a)
    \/ \E a \in Aggregator : QueueDry(a) \/ Notified(a) \/ Recheck(a)
    \/ \E f \in MonthStart : Rotate(f)

\* The consumer is a BackgroundService: its loop keeps running, and WaitAsync
\* returns after 60 s at the latest.  Strong fairness inside the transaction
\* says that a chunk does not fail at the same statement for ever.
Fairness ==
    \A a \in Aggregator :
        /\ WF_vars(LockChunk(a) \/ QueueDry(a))
        /\ SF_vars(ReadTicks(a))
        /\ SF_vars(DeleteRows(a))
        /\ SF_vars(CommitChunk(a))
        /\ WF_vars(Notified(a) \/ Recheck(a))

Spec == Init /\ [][Next]_vars

FairSpec == Spec /\ Fairness

-----------------------------------------------------------------------------
(* Properties *)

TicksOf(m) == {t \in trades : MinuteOf[t] = m}

InCandle(t) == t \in candle[MinuteOf[t]]

\* A committed tick is in its minute's candle, or its minute is still queued,
\* unless its transaction was overtaken: it relied on a queue row another
\* transaction had put there, and an aggregator took its snapshot of the
\* minute before that transaction's commit.  Whatever else happens (two
\* aggregators, aborts at any point, rotation), no tick is silently dropped
\* between sp_bulk_insert_trades and sp_aggregate_dirty_minutes.
OnlyOvertakenTicksAreLost ==
    \A t \in trades \ overtaken : InCandle(t) \/ MinuteOf[t] \in dirty

\* What OhlcvAggregationService says of itself: whatever arrives, in whatever
\* order, its minute is marked dirty and the candle is recomputed.
EveryTickReachesItsCandle ==
    \A t \in trades : InCandle(t) \/ MinuteOf[t] \in dirty

\* A candle is made of stored ticks of its own minute only: no uncommitted
\* tick shows in one, and rotation never leaves a candle without its ticks
\* (TradeRepository.RotatePartitionsAsync).
CandlesStandOnStoredTicks ==
    \A m \in Minute : candle[m] \subseteq TicksOf(m)

\* Recomputing a candle never takes a tick out of it again, however many
\* aggregators work in parallel: the later commit has the later snapshot.
\* Only rotation removes candles.
CandlesOnlyGrow ==
    [][floor' = floor => \A m \in Minute : candle[m] \subseteq candle'[m]]_vars

\* The progress mark covers every candle that was written: chunks are taken
\* newest first, so an older chunk must not move it back.
WatermarkCoversCandles ==
    \A m \in Minute : candle[m] # {} => watermark > OpenTime[m]

\* Every tick that was not overtaken is in a candle in the end (or is rotated
\* away), although a failed chunk posts no new notification.
EveryTickIsAggregated ==
    \A t \in Trade :
        t \in trades ~> (t \notin trades \/ t \in overtaken \/ InCandle(t))

\* A queue row is eventually picked up: the newest-first order and SKIP LOCKED
\* leave no minute behind once ticks stop arriving for newer ones.
QueueDrains ==
    \A m \in Minute : m \in dirty ~> m \notin dirty

\* Readers of the tables see each transaction as one atomic step of
\* CandleStore: however the statements of inserters and aggregators interleave,
\* a refreshed candle shows every stored tick that was not overtaken.
Store == INSTANCE CandleStore WITH late <- overtaken

ImplementsCandleStore == Store!StoreSpec
=============================================================================
