------------------------ MODULE CandlePipelineProofs ------------------------
(***************************************************************************)
(* Proofs about CandlePipeline, for any ticks, minutes, number of          *)
(* inserters and aggregators and any chunk size.                           *)
(*                                                                         *)
(* The argument.  A queue row that an aggregator has locked stays locked,  *)
(* and queued, until its transaction ends (BatchesQueued, BatchesDisjoint):*)
(* nobody else refreshes that minute meanwhile, so what the aggregator saw *)
(* still contains the candle it will replace (SeenCoversCandle).  A tick   *)
(* that is committed, not overtaken and not in its candle keeps its minute *)
(* queued, and any aggregator past its snapshot of the minute saw the tick *)
(* (NothingSlipsBy); the only commit that could break this is the one that *)
(* Overtaken names.                                                        *)
(***************************************************************************)
EXTENDS CandlePipeline, TLAPS

\* Only a working aggregator holds queue rows, and they are committed rows.
BatchesQueued ==
    \A a \in Aggregator :
        /\ batch[a] \subseteq dirty
        /\ apc[a] \notin Working => batch[a] = {}

\* SKIP LOCKED: no two aggregators hold the same row.
BatchesDisjoint ==
    \A a, b \in Aggregator : a # b => batch[a] \cap batch[b] = {}

\* A row an open insert added is in nobody else's hands.
OwnRowsNew ==
    \A i \in Inserter :
        /\ own[i] \cap dirty = {}
        /\ \A j \in Inserter : i # j => own[i] \cap own[j] = {}

\* An open insert works on stored ticks and queues only their minutes.
InsertsConsistent ==
    \A i \in Inserter :
        /\ ipc[i] = "idle" => ins[i] = {} /\ todo[i] = {} /\ own[i] = {}
        /\ \A t \in ins[i] : Stored(t)
        /\ todo[i] \subseteq MinutesOf(ins[i])
        /\ own[i] \subseteq MinutesOf(ins[i])

\* What an aggregator saw is stored ticks of its batch.
SeenIsStored ==
    \A a \in Aggregator :
        /\ apc[a] \notin PastRead => seen[a] = {}
        /\ \A t \in seen[a] : t \in trades /\ MinuteOf[t] \in batch[a]

\* Nobody changed the candles of a batch since its snapshot.
SeenCoversCandle ==
    \A a \in Aggregator :
        apc[a] \in PastRead =>
            \A m \in batch[a] : candle[m] \subseteq seen[a]

NothingSlipsBy ==
    \A t \in trades \ overtaken :
        \/ InCandle(t)
        \/ /\ MinuteOf[t] \in dirty
           /\ \A a \in Aggregator :
                 apc[a] \in PastRead /\ MinuteOf[t] \in batch[a] => t \in seen[a]

IInv ==
    /\ TypeOK
    /\ BatchesQueued
    /\ BatchesDisjoint
    /\ OwnRowsNew
    /\ InsertsConsistent
    /\ SeenIsStored
    /\ SeenCoversCandle
    /\ CandlesStandOnStoredTicks
    /\ WatermarkCoversCandles
    /\ NothingSlipsBy

-----------------------------------------------------------------------------
LEMMA InitIInv == Init => IInv
<1> SUFFICES ASSUME Init PROVE IInv
  OBVIOUS
<1> USE DEF Init
<1>1. TypeOK
  BY DEF TypeOK, Working
<1>2. BatchesQueued /\ BatchesDisjoint /\ OwnRowsNew /\ InsertsConsistent
  BY DEF BatchesQueued, BatchesDisjoint, OwnRowsNew, InsertsConsistent
<1>3. SeenIsStored /\ SeenCoversCandle /\ CandlesStandOnStoredTicks
  BY DEF SeenIsStored, SeenCoversCandle, CandlesStandOnStoredTicks, PastRead
<1>4. WatermarkCoversCandles /\ NothingSlipsBy
  BY DEF WatermarkCoversCandles, NothingSlipsBy
<1> QED
  BY <1>1, <1>2, <1>3, <1>4 DEF IInv

-----------------------------------------------------------------------------
(* The insert transaction preserves the invariant *)

LEMMA BulkInsertIInv ==
  ASSUME IInv, NEW i \in Inserter, NEW T \in SUBSET Trade, BulkInsert(i, T)
  PROVE  IInv'
<1> USE PipelineAssumption DEF BulkInsert, tables, aggregates
<1>1. TypeOK'
  BY DEF IInv, TypeOK, MinutesOf
<1>2. BatchesQueued' /\ BatchesDisjoint' /\ OwnRowsNew'
  BY DEF IInv, BatchesQueued, BatchesDisjoint, OwnRowsNew
<1>3. InsertsConsistent'
  <2> SUFFICES ASSUME NEW j \in Inserter
               PROVE  /\ ipc'[j] = "idle" =>
                           ins'[j] = {} /\ todo'[j] = {} /\ own'[j] = {}
                      /\ \A t \in ins'[j] : Stored(t)'
                      /\ todo'[j] \subseteq MinutesOf(ins'[j])
                      /\ own'[j] \subseteq MinutesOf(ins'[j])
    BY DEF InsertsConsistent, MinutesOf
  <2>1. CASE j = i
    BY <2>1 DEF IInv, TypeOK, InsertsConsistent, Stored, MinutesOf
  <2>2. CASE j # i
    BY <2>2 DEF IInv, TypeOK, InsertsConsistent, Stored, MinutesOf
  <2> QED
    BY <2>1, <2>2
<1>4. SeenIsStored' /\ SeenCoversCandle' /\ CandlesStandOnStoredTicks'
  BY DEF IInv, SeenIsStored, SeenCoversCandle, CandlesStandOnStoredTicks, TicksOf
<1>5. WatermarkCoversCandles' /\ NothingSlipsBy'
  BY DEF IInv, WatermarkCoversCandles, NothingSlipsBy, InCandle
<1> QED
  BY <1>1, <1>2, <1>3, <1>4, <1>5 DEF IInv

LEMMA MarkDirtyIInv ==
  ASSUME IInv, NEW i \in Inserter, NEW m \in Minute, MarkDirty(i, m)
  PROVE  IInv'
<1> USE PipelineAssumption DEF MarkDirty, tables, aggregates
<1>1. TypeOK'
  BY DEF IInv, TypeOK
<1>2. BatchesQueued' /\ BatchesDisjoint'
  BY DEF IInv, BatchesQueued, BatchesDisjoint
<1>3. OwnRowsNew'
  BY DEF IInv, TypeOK, OwnRowsNew, RowContended
<1>4. InsertsConsistent'
  BY DEF IInv, TypeOK, InsertsConsistent, Stored, MinutesOf
<1>5. SeenIsStored' /\ SeenCoversCandle' /\ CandlesStandOnStoredTicks'
  BY DEF IInv, SeenIsStored, SeenCoversCandle, CandlesStandOnStoredTicks, TicksOf
<1>6. WatermarkCoversCandles' /\ NothingSlipsBy'
  BY DEF IInv, WatermarkCoversCandles, NothingSlipsBy, InCandle
<1> QED
  BY <1>1, <1>2, <1>3, <1>4, <1>5, <1>6 DEF IInv

LEMMA CommitInsertIInv ==
  ASSUME IInv, NEW i \in Inserter, CommitInsert(i)
  PROVE  IInv'
<1> USE PipelineAssumption DEF CommitInsert, InserterReset, aggregates
<1>1. TypeOK'
  BY DEF IInv, TypeOK, Overtaken
<1>2. BatchesQueued' /\ BatchesDisjoint'
  BY DEF IInv, BatchesQueued, BatchesDisjoint
<1>3. OwnRowsNew'
  BY DEF IInv, TypeOK, OwnRowsNew
<1>4. InsertsConsistent'
  BY DEF IInv, TypeOK, InsertsConsistent, Stored, MinutesOf
<1>5. SeenIsStored' /\ SeenCoversCandle' /\ CandlesStandOnStoredTicks'
  BY DEF IInv, SeenIsStored, SeenCoversCandle, CandlesStandOnStoredTicks, TicksOf
<1>6. WatermarkCoversCandles'
  BY DEF IInv, WatermarkCoversCandles
<1>7. NothingSlipsBy'
  <2> SUFFICES ASSUME NEW t \in trades', t \notin overtaken', ~InCandle(t)
               PROVE  /\ MinuteOf[t] \in dirty'
                      /\ \A a \in Aggregator :
                            apc[a] \in PastRead /\ MinuteOf[t] \in batch[a]
                               => t \in seen[a]
    BY DEF NothingSlipsBy, InCandle
  <2>1. CASE t \in trades
    BY <2>1 DEF IInv, NothingSlipsBy, InCandle
  <2>2. CASE t \in ins[i] /\ MinuteOf[t] \in own[i]
    BY <2>2 DEF IInv, OwnRowsNew, BatchesQueued
  <2>3. CASE t \in ins[i] /\ MinuteOf[t] \notin own[i]
    BY <2>3 DEF Overtaken
  <2> QED
    BY <2>1, <2>2, <2>3
<1> QED
  BY <1>1, <1>2, <1>3, <1>4, <1>5, <1>6, <1>7 DEF IInv

LEMMA AbortInsertIInv ==
  ASSUME IInv, NEW i \in Inserter, AbortInsert(i)
  PROVE  IInv'
<1> USE PipelineAssumption DEF AbortInsert, InserterReset, tables, aggregates
<1>1. TypeOK'
  BY DEF IInv, TypeOK
<1>2. BatchesQueued' /\ BatchesDisjoint'
  BY DEF IInv, BatchesQueued, BatchesDisjoint
<1>3. OwnRowsNew' /\ InsertsConsistent'
  BY DEF IInv, TypeOK, OwnRowsNew, InsertsConsistent, Stored, MinutesOf
<1>4. SeenIsStored' /\ SeenCoversCandle' /\ CandlesStandOnStoredTicks'
  BY DEF IInv, SeenIsStored, SeenCoversCandle, CandlesStandOnStoredTicks, TicksOf
<1>5. WatermarkCoversCandles' /\ NothingSlipsBy'
  BY DEF IInv, WatermarkCoversCandles, NothingSlipsBy, InCandle
<1> QED
  BY <1>1, <1>2, <1>3, <1>4, <1>5 DEF IInv

-----------------------------------------------------------------------------
(* The aggregation transaction preserves the invariant *)

LEMMA LockChunkIInv ==
  ASSUME IInv, NEW a \in Aggregator, LockChunk(a)
  PROVE  IInv'
<1> PICK B \in SUBSET Free : batch' = [batch EXCEPT ![a] = B]
  BY DEF LockChunk
<1> USE PipelineAssumption DEF LockChunk, tables, inserting
<1>1. /\ batch[a] = {}
      /\ B \subseteq dirty
      /\ \A b \in Aggregator : B \cap batch[b] = {}
  BY DEF IInv, BatchesQueued, Working, Free
<1>2. TypeOK'
  BY <1>1 DEF IInv, TypeOK, Working
<1>3. BatchesQueued'
  BY <1>1 DEF IInv, TypeOK, BatchesQueued, Working
<1>4. BatchesDisjoint'
  BY <1>1 DEF IInv, TypeOK, BatchesDisjoint
<1>5. OwnRowsNew' /\ InsertsConsistent'
  BY DEF IInv, OwnRowsNew, InsertsConsistent, Stored, MinutesOf
<1>6. SeenIsStored' /\ SeenCoversCandle'
  BY <1>1 DEF IInv, TypeOK, SeenIsStored, SeenCoversCandle, PastRead
<1>7. CandlesStandOnStoredTicks' /\ WatermarkCoversCandles'
  BY DEF IInv, CandlesStandOnStoredTicks, WatermarkCoversCandles, TicksOf
<1>8. NothingSlipsBy'
  BY <1>1 DEF IInv, TypeOK, NothingSlipsBy, InCandle, PastRead
<1> QED
  BY <1>2, <1>3, <1>4, <1>5, <1>6, <1>7, <1>8 DEF IInv

LEMMA ReadTicksIInv ==
  ASSUME IInv, NEW a \in Aggregator, ReadTicks(a)
  PROVE  IInv'
<1> USE PipelineAssumption DEF ReadTicks, tables, inserting
<1>1. TypeOK'
  BY DEF IInv, TypeOK, Working
<1>2. BatchesQueued' /\ BatchesDisjoint'
  BY DEF IInv, TypeOK, BatchesQueued, BatchesDisjoint, Working
<1>3. OwnRowsNew' /\ InsertsConsistent'
  BY DEF IInv, OwnRowsNew, InsertsConsistent, Stored, MinutesOf
<1>4. SeenIsStored'
  BY DEF IInv, TypeOK, SeenIsStored, PastRead
<1>5. SeenCoversCandle'
  BY DEF IInv, TypeOK, SeenCoversCandle, CandlesStandOnStoredTicks, TicksOf, PastRead
<1>6. CandlesStandOnStoredTicks' /\ WatermarkCoversCandles'
  BY DEF IInv, CandlesStandOnStoredTicks, WatermarkCoversCandles, TicksOf
<1>7. NothingSlipsBy'
  BY DEF IInv, TypeOK, NothingSlipsBy, InCandle, PastRead
<1> QED
  BY <1>1, <1>2, <1>3, <1>4, <1>5, <1>6, <1>7 DEF IInv

LEMMA DeleteRowsIInv ==
  ASSUME IInv, NEW a \in Aggregator, DeleteRows(a)
  PROVE  IInv'
<1> USE PipelineAssumption DEF DeleteRows, tables, inserting
<1>1. TypeOK'
  BY DEF IInv, TypeOK, Working
<1>2. BatchesQueued' /\ BatchesDisjoint'
  BY DEF IInv, TypeOK, BatchesQueued, BatchesDisjoint, Working
<1>3. OwnRowsNew' /\ InsertsConsistent'
  BY DEF IInv, OwnRowsNew, InsertsConsistent, Stored, MinutesOf
<1>4. SeenIsStored' /\ SeenCoversCandle'
  BY DEF IInv, TypeOK, SeenIsStored, SeenCoversCandle, PastRead
<1>5. CandlesStandOnStoredTicks' /\ WatermarkCoversCandles'
  BY DEF IInv, CandlesStandOnStoredTicks, WatermarkCoversCandles, TicksOf
<1>6. NothingSlipsBy'
  BY DEF IInv, TypeOK, NothingSlipsBy, InCandle, PastRead
<1> QED
  BY <1>1, <1>2, <1>3, <1>4, <1>5, <1>6 DEF IInv

\* What a committed chunk makes of one minute: refreshed ones show what the
\* aggregator saw, which contains the old candle; the others are untouched.
LEMMA CommittedCandle ==
  ASSUME IInv, NEW a \in Aggregator, CommitChunk(a), NEW m \in Minute
  PROVE  /\ m \notin batch[a] => candle'[m] = candle[m]
         /\ m \in batch[a] => candle'[m] = SeenIn(a, m)
         /\ candle[m] \subseteq candle'[m]
         /\ candle'[m] \subseteq TicksOf(m)
<1>1. m \in batch[a] => candle[m] \subseteq SeenIn(a, m)
  BY DEF IInv, SeenCoversCandle, CandlesStandOnStoredTicks, TicksOf, SeenIn,
         CommitChunk, PastRead
<1>2. SeenIn(a, m) \subseteq TicksOf(m)
  BY DEF IInv, SeenIsStored, SeenIn, TicksOf
<1>3. candle[m] \subseteq TicksOf(m)
  BY DEF IInv, CandlesStandOnStoredTicks
<1>4. candle'[m] = IF m \in batch[a] /\ SeenIn(a, m) # {}
                   THEN SeenIn(a, m) ELSE candle[m]
  BY DEF CommitChunk
<1> QED
  BY <1>1, <1>2, <1>3, <1>4

LEMMA CommitChunkIInv ==
  ASSUME IInv, NEW a \in Aggregator, CommitChunk(a)
  PROVE  IInv'
<1> USE PipelineAssumption DEF CommitChunk, inserting, Dequeued
<1>1. TypeOK'
  <2>1. candle' \in [Minute -> SUBSET Trade]
    BY DEF IInv, TypeOK, SeenIn
  <2>2. watermark' \in Nat
    BY DEF IInv, TypeOK, BatchEnds
  <2> QED
    BY <2>1, <2>2 DEF IInv, TypeOK, Working
<1>2. \A b \in Aggregator : b # a => batch[b] \cap batch[a] = {}
  BY DEF IInv, BatchesDisjoint
<1>3. BatchesQueued'
  BY <1>2 DEF IInv, TypeOK, BatchesQueued, Working
<1>4. BatchesDisjoint'
  BY DEF IInv, TypeOK, BatchesDisjoint
<1>5. OwnRowsNew' /\ InsertsConsistent'
  BY DEF IInv, OwnRowsNew, InsertsConsistent, Stored, MinutesOf
<1>6. SeenIsStored'
  BY DEF IInv, TypeOK, SeenIsStored, PastRead
<1>7. SeenCoversCandle'
  <2> SUFFICES ASSUME NEW b \in Aggregator, apc'[b] \in PastRead,
                      NEW m \in batch'[b]
               PROVE  candle'[m] \subseteq seen'[b]
    BY DEF SeenCoversCandle
  <2>1. b # a
    BY DEF IInv, TypeOK, PastRead
  <2>2. /\ apc[b] \in PastRead
        /\ m \in batch[b] /\ m \notin batch[a] /\ m \in Minute
        /\ seen'[b] = seen[b]
    BY <2>1, <1>2 DEF IInv, TypeOK
  <2> QED
    BY <2>2, CommittedCandle DEF IInv, SeenCoversCandle
<1>8. CandlesStandOnStoredTicks'
  BY CommittedCandle DEF CandlesStandOnStoredTicks, TicksOf
<1>9. WatermarkCoversCandles'
  <2> SUFFICES ASSUME NEW m \in Minute, candle'[m] # {}
               PROVE  watermark' > OpenTime[m]
    BY DEF WatermarkCoversCandles
  <2>1. PICK w \in {watermark} \cup BatchEnds(a) :
               Advances(a, w) /\ watermark' = w
    OBVIOUS
  <2>2. watermark \in Nat /\ w \in Nat /\ OpenTime[m] \in Nat
    BY <2>1 DEF IInv, TypeOK, BatchEnds
  <2>3. CASE m \in batch[a]
    BY <2>1, <2>2, <2>3 DEF Advances, BatchEnds
  <2>4. CASE m \notin batch[a]
    <3>1. watermark > OpenTime[m]
      BY <2>4, CommittedCandle DEF IInv, WatermarkCoversCandles
    <3> QED
      BY <2>1, <2>2, <3>1 DEF Advances
  <2> QED
    BY <2>3, <2>4
<1>10. NothingSlipsBy'
  <2> SUFFICES ASSUME NEW t \in trades, t \notin overtaken, t \notin candle'[MinuteOf[t]]
               PROVE  /\ MinuteOf[t] \in dirty'
                      /\ \A b \in Aggregator :
                            apc'[b] \in PastRead /\ MinuteOf[t] \in batch'[b]
                               => t \in seen'[b]
    BY DEF NothingSlipsBy, InCandle
  <2> DEFINE m == MinuteOf[t]
  <2>1. t \in Trade /\ m \in Minute
    BY DEF IInv, TypeOK
  <2>2. ~InCandle(t)
    BY <2>1, CommittedCandle DEF InCandle
  <2>3. /\ m \in dirty
        /\ \A b \in Aggregator :
              apc[b] \in PastRead /\ m \in batch[b] => t \in seen[b]
    BY <2>2 DEF IInv, NothingSlipsBy
  <2>4. m \notin batch[a]
    <3>1. SUFFICES ASSUME m \in batch[a] PROVE FALSE
      OBVIOUS
    <3>2. t \in SeenIn(a, m)
      BY <3>1, <2>3 DEF SeenIn, PastRead
    <3> QED
      BY <3>1, <3>2, <2>1, CommittedCandle
  <2> QED
    BY <2>3, <2>4 DEF IInv, TypeOK, PastRead
<1> QED
  BY <1>1, <1>3, <1>4, <1>5, <1>6, <1>7, <1>8, <1>9, <1>10 DEF IInv

LEMMA AbortChunkIInv ==
  ASSUME IInv, NEW a \in Aggregator, AbortChunk(a)
  PROVE  IInv'
<1> USE PipelineAssumption DEF AbortChunk, tables, inserting
<1>1. TypeOK'
  BY DEF IInv, TypeOK
<1>2. BatchesQueued' /\ BatchesDisjoint'
  BY DEF IInv, TypeOK, BatchesQueued, BatchesDisjoint, Working
<1>3. OwnRowsNew' /\ InsertsConsistent'
  BY DEF IInv, OwnRowsNew, InsertsConsistent, Stored, MinutesOf
<1>4. SeenIsStored' /\ SeenCoversCandle'
  BY DEF IInv, TypeOK, SeenIsStored, SeenCoversCandle, PastRead
<1>5. CandlesStandOnStoredTicks' /\ WatermarkCoversCandles'
  BY DEF IInv, CandlesStandOnStoredTicks, WatermarkCoversCandles, TicksOf
<1>6. NothingSlipsBy'
  BY DEF IInv, TypeOK, NothingSlipsBy, InCandle, PastRead
<1> QED
  BY <1>1, <1>2, <1>3, <1>4, <1>5, <1>6 DEF IInv

-----------------------------------------------------------------------------
(* So do the consumer loop and rotation *)

LEMMA LoopIInv ==
  ASSUME IInv, NEW a \in Aggregator, QueueDry(a) \/ Notified(a) \/ Recheck(a)
  PROVE  IInv'
<1> USE PipelineAssumption DEF QueueDry, Notified, Recheck, tables, inserting
<1>1. TypeOK'
  BY DEF IInv, TypeOK
<1>2. BatchesQueued' /\ BatchesDisjoint'
  BY DEF IInv, TypeOK, BatchesQueued, BatchesDisjoint, Working
<1>3. OwnRowsNew' /\ InsertsConsistent'
  BY DEF IInv, OwnRowsNew, InsertsConsistent, Stored, MinutesOf
<1>4. SeenIsStored' /\ SeenCoversCandle'
  BY DEF IInv, TypeOK, SeenIsStored, SeenCoversCandle, PastRead
<1>5. CandlesStandOnStoredTicks' /\ WatermarkCoversCandles'
  BY DEF IInv, CandlesStandOnStoredTicks, WatermarkCoversCandles, TicksOf
<1>6. NothingSlipsBy'
  BY DEF IInv, TypeOK, NothingSlipsBy, InCandle, PastRead
<1> QED
  BY <1>1, <1>2, <1>3, <1>4, <1>5, <1>6 DEF IInv

LEMMA RotateIInv ==
  ASSUME IInv, NEW f \in MonthStart, Rotate(f)
  PROVE  IInv'
<1> USE PipelineAssumption DEF Rotate, TradesInUse, inserting, aggregates
<1>1. TypeOK'
  BY DEF IInv, TypeOK
<1>2. BatchesQueued' /\ BatchesDisjoint'
  BY DEF IInv, BatchesQueued, BatchesDisjoint
<1>3. OwnRowsNew'
  BY DEF IInv, OwnRowsNew
<1>4. InsertsConsistent'
  <2>1. \A i \in Inserter : ipc[i] = "idle"
    BY DEF IInv, TypeOK
  <2> QED
    BY <2>1 DEF IInv, InsertsConsistent, MinutesOf
<1>5. SeenIsStored' /\ SeenCoversCandle'
  BY DEF IInv, SeenIsStored, SeenCoversCandle
<1>6. CandlesStandOnStoredTicks'
  BY DEF IInv, TypeOK, CandlesStandOnStoredTicks, TicksOf
<1>7. WatermarkCoversCandles'
  BY DEF IInv, TypeOK, WatermarkCoversCandles
<1>8. NothingSlipsBy'
  <2> SUFFICES ASSUME NEW t \in trades', t \notin overtaken', t \notin candle'[MinuteOf[t]]
               PROVE  MinuteOf[t] \in dirty
    BY DEF NothingSlipsBy, InCandle
  <2>1. /\ t \in trades \ overtaken
        /\ MinuteOf[t] \in Minute
        /\ OpenTime[MinuteOf[t]] >= f
    BY DEF IInv, TypeOK
  <2>2. ~InCandle(t)
    BY <2>1 DEF InCandle
  <2> QED
    BY <2>1, <2>2 DEF IInv, NothingSlipsBy
<1> QED
  BY <1>1, <1>2, <1>3, <1>4, <1>5, <1>6, <1>7, <1>8 DEF IInv

LEMMA StutterIInv ==
  ASSUME IInv, UNCHANGED vars
  PROVE  IInv'
<1> USE DEF vars, tables, inserting, aggregates
<1>1. TypeOK' /\ BatchesQueued' /\ BatchesDisjoint' /\ OwnRowsNew'
  BY DEF IInv, TypeOK, BatchesQueued, BatchesDisjoint, OwnRowsNew
<1>2. InsertsConsistent' /\ SeenIsStored' /\ SeenCoversCandle'
  BY DEF IInv, InsertsConsistent, SeenIsStored, SeenCoversCandle, Stored, MinutesOf
<1>3. CandlesStandOnStoredTicks' /\ WatermarkCoversCandles' /\ NothingSlipsBy'
  BY DEF IInv, CandlesStandOnStoredTicks, WatermarkCoversCandles, NothingSlipsBy,
         TicksOf, InCandle
<1> QED
  BY <1>1, <1>2, <1>3 DEF IInv

LEMMA NextIInv == IInv /\ [Next]_vars => IInv'
<1> SUFFICES ASSUME IInv, [Next]_vars PROVE IInv'
  OBVIOUS
<1>1. ASSUME NEW i \in Inserter, InsertStep(i) PROVE IInv'
  BY <1>1, BulkInsertIInv, MarkDirtyIInv, CommitInsertIInv, AbortInsertIInv
     DEF InsertStep
<1>2. ASSUME NEW a \in Aggregator,
             \/ ChunkStep(a) \/ QueueDry(a) \/ Notified(a)
             \/ AbortChunk(a) \/ Recheck(a)
      PROVE IInv'
  BY <1>2, LockChunkIInv, ReadTicksIInv, DeleteRowsIInv, CommitChunkIInv,
     AbortChunkIInv, LoopIInv DEF ChunkStep
<1>3. ASSUME NEW f \in MonthStart, Rotate(f) PROVE IInv'
  BY <1>3, RotateIInv
<1>4. CASE UNCHANGED vars
  BY <1>4, StutterIInv
<1> QED
  BY <1>1, <1>2, <1>3, <1>4 DEF Next

LEMMA Inductive == Spec => []IInv
BY InitIInv, NextIInv, PTL DEF Spec

-----------------------------------------------------------------------------
(* Theorems *)

\* The tables and the transactions' private state keep their types.
THEOREM TypeCorrect == Spec => []TypeOK
<1>1. IInv => TypeOK
  BY DEF IInv
<1> QED
  BY <1>1, Inductive, PTL

\* For any number of inserters and aggregators: a committed tick that is in no
\* candle and whose minute is not queued belongs to a transaction that was
\* overtaken, in the sense of Overtaken.  There is no other way to lose one.
THEOREM NoOtherLoss == Spec => []OnlyOvertakenTicksAreLost
<1>1. IInv => OnlyOvertakenTicksAreLost
  BY DEF IInv, NothingSlipsBy, OnlyOvertakenTicksAreLost
<1> QED
  BY <1>1, Inductive, PTL

\* Candles are made of stored ticks of their own minute, at all times.
THEOREM StoredTicksOnly == Spec => []CandlesStandOnStoredTicks
<1>1. IInv => CandlesStandOnStoredTicks
  BY DEF IInv
<1> QED
  BY <1>1, Inductive, PTL

\* The progress mark is past every candle in the table.
THEOREM WatermarkIsAhead == Spec => []WatermarkCoversCandles
<1>1. IInv => WatermarkCoversCandles
  BY DEF IInv
<1> QED
  BY <1>1, Inductive, PTL

\* No step but rotation takes a tick out of a candle.
THEOREM CandlesGrow == Spec => CandlesOnlyGrow
<1>1. IInv /\ [Next]_vars =>
        [floor' = floor => \A m \in Minute : candle[m] \subseteq candle'[m]]_vars
  <2> SUFFICES ASSUME IInv, Next, floor' = floor, NEW m \in Minute
               PROVE  candle[m] \subseteq candle'[m]
    OBVIOUS
  <2>1. ASSUME NEW i \in Inserter, InsertStep(i) PROVE candle' = candle
    BY <2>1 DEF InsertStep, BulkInsert, MarkDirty, CommitInsert, AbortInsert, tables
  <2>2. ASSUME NEW a \in Aggregator, CommitChunk(a)
        PROVE  candle[m] \subseteq candle'[m]
    BY <2>2, CommittedCandle
  <2>3. ASSUME NEW a \in Aggregator,
               \/ LockChunk(a) \/ ReadTicks(a) \/ DeleteRows(a) \/ AbortChunk(a)
               \/ QueueDry(a) \/ Notified(a) \/ Recheck(a)
        PROVE  candle' = candle
    BY <2>3 DEF LockChunk, ReadTicks, DeleteRows, AbortChunk, QueueDry, Notified,
                Recheck, tables
  <2>4. ASSUME NEW f \in MonthStart, Rotate(f) PROVE FALSE
    BY <2>4, PipelineAssumption DEF IInv, TypeOK, Rotate
  <2> QED
    BY <2>1, <2>2, <2>3, <2>4 DEF Next, ChunkStep
<1> QED
  BY <1>1, Inductive, PTL DEF Spec, CandlesOnlyGrow

-----------------------------------------------------------------------------
(* The pipeline implements CandleStore *)

LEMMA CommitInsertPublishes ==
  ASSUME IInv, NEW i \in Inserter, CommitInsert(i)
  PROVE  Store!Publish(ins[i], Overtaken(i))
<1> USE DEF CommitInsert
<1>1. \A t \in ins[i] : OpenTime[MinuteOf[t]] >= floor
  BY DEF IInv, InsertsConsistent, Stored
<1>2. dirty' \subseteq dirty \cup {MinuteOf[t] : t \in ins[i]}
  BY DEF IInv, InsertsConsistent, MinutesOf
<1>3. \A t \in ins[i] \ Overtaken(i) : MinuteOf[t] \in dirty'
  BY DEF Overtaken
<1> QED
  BY <1>1, <1>2, <1>3 DEF Store!Publish

LEMMA CommitChunkRefreshes ==
  ASSUME IInv, NEW a \in Aggregator, CommitChunk(a)
  PROVE  Store!Refresh(batch[a])
<1>1. /\ batch[a] \subseteq dirty
      /\ dirty' = dirty \ batch[a]
      /\ UNCHANGED <<trades, floor, overtaken>>
  BY DEF IInv, BatchesQueued, CommitChunk, Dequeued
<1>2. candle' \in [Minute -> SUBSET Trade]
  BY DEF IInv, TypeOK, CommitChunk, SeenIn
<1>3. \A m \in Minute \ batch[a] : candle'[m] = candle[m]
  BY CommittedCandle
<1>4. ASSUME NEW m \in batch[a]
      PROVE  /\ candle[m] \cup Store!Due(m) \subseteq candle'[m]
             /\ \A t \in candle'[m] : t \in trades /\ MinuteOf[t] = m
  <2>1. m \in Minute
    BY DEF IInv, TypeOK
  <2>2. candle[m] \subseteq candle'[m] /\ candle'[m] \subseteq TicksOf(m)
    BY <2>1, CommittedCandle
  <2>3. ASSUME NEW t \in Store!Due(m) PROVE t \in candle'[m]
    <3>1. t \in trades \ overtaken /\ MinuteOf[t] = m
      BY DEF Store!Due
    <3>2. CASE InCandle(t)
      BY <3>1, <3>2, <2>2 DEF InCandle
    <3>3. CASE ~InCandle(t)
      <4>1. t \in SeenIn(a, m)
        BY <3>1, <3>3 DEF IInv, NothingSlipsBy, SeenIn, CommitChunk, PastRead
      <4> QED
        BY <4>1, <2>1, CommittedCandle
    <3> QED
      BY <3>2, <3>3
  <2> QED
    BY <2>2, <2>3 DEF TicksOf
<1> QED
  BY <1>1, <1>2, <1>3, <1>4 DEF Store!Refresh

\* Every behaviour of the transactions, seen through the committed tables, is
\* a behaviour of CandleStore: a commit is one Publish or Refresh, rotation is
\* one Expire, and every other statement is a stutter.
THEOREM PipelineImplementsStore == Spec => ImplementsCandleStore
<1>1. Init => Store!StoreInit
  BY DEF Init, Store!StoreInit
<1>2. IInv /\ [Next]_vars => [Store!StoreNext]_(Store!storeVars)
  <2> SUFFICES ASSUME IInv, [Next]_vars
               PROVE  Store!StoreNext \/ UNCHANGED Store!storeVars
    OBVIOUS
  <2>1. ASSUME NEW i \in Inserter, CommitInsert(i) PROVE Store!StoreNext
    <3>1. /\ ins[i] \in SUBSET Trade
          /\ Overtaken(i) \in SUBSET Trade
          /\ Overtaken(i) \subseteq ins[i]
      BY DEF IInv, TypeOK, Overtaken
    <3> QED
      BY <2>1, <3>1, CommitInsertPublishes DEF Store!StoreNext
  <2>2. ASSUME NEW a \in Aggregator, CommitChunk(a) PROVE Store!StoreNext
    <3>1. batch[a] \in SUBSET Minute
      BY DEF IInv, TypeOK
    <3> QED
      BY <2>2, <3>1, CommitChunkRefreshes DEF Store!StoreNext
  <2>3. ASSUME NEW f \in MonthStart, Rotate(f) PROVE Store!StoreNext
    BY <2>3 DEF Rotate, Store!StoreNext, Store!Expire
  <2>4. ASSUME NEW i \in Inserter,
               \/ \E T \in (SUBSET Trade) \ {{}} : BulkInsert(i, T)
               \/ \E m \in Minute : MarkDirty(i, m)
               \/ AbortInsert(i)
        PROVE  UNCHANGED Store!storeVars
    BY <2>4 DEF BulkInsert, MarkDirty, AbortInsert, tables, Store!storeVars
  <2>5. ASSUME NEW a \in Aggregator,
               \/ LockChunk(a) \/ ReadTicks(a) \/ DeleteRows(a) \/ AbortChunk(a)
               \/ QueueDry(a) \/ Notified(a) \/ Recheck(a)
        PROVE  UNCHANGED Store!storeVars
    BY <2>5 DEF LockChunk, ReadTicks, DeleteRows, AbortChunk, QueueDry, Notified,
                Recheck, tables, Store!storeVars
  <2>6. CASE UNCHANGED vars
    BY <2>6 DEF vars, tables, Store!storeVars
  <2> QED
    BY <2>1, <2>2, <2>3, <2>4, <2>5, <2>6
       DEF Next, InsertStep, ChunkStep
<1> QED
  BY <1>1, <1>2, Inductive, PTL DEF Spec, ImplementsCandleStore, Store!StoreSpec
=============================================================================
