----------------------------- MODULE CandleFlow -----------------------------
(***************************************************************************)
(* The two consumers of the Worker process in a row: inserts queue minutes *)
(* and NOTIFY dirty_minutes; OhlcvAggregationService turns chunks of them  *)
(* into 'new' candles and NOTIFYs candles_new in the same transaction;     *)
(* FeatureCalculationService claims the candles and processes them.  Both  *)
(* stop, die and start with the process.                                   *)
(*                                                                         *)
(* A chunk of minutes is a transaction with a beginning and an end: in     *)
(* between, its upsert holds the locks of the candles it recalculates, and *)
(* the claim passes them over.  When its client gives up or dies, it ends  *)
(* later, as the server finds: with a rollback, which announces nothing,   *)
(* or with its commit.  A batch of candles is one step; those it claims    *)
(* and does not mark 'processed' (a failed symbol, a batch that throws or  *)
(* dies) are work again when their claim expires, which nothing announces  *)
(* either.                                                                 *)
(***************************************************************************)
EXTENDS Naturals, FiniteSets

CONSTANTS
    Candle,         \* a symbol's minute
    ChunkMinutes,
    BatchSize,
    MaxPosts        \* bound on the inserting transactions

VARIABLES
    stopping,
    minutes, aheld, auntold, inserts,   \* DirtyMinutes: its rows, those of orphaned chunks
    apc, aalive, asignals, agaveUp,     \* OhlcvAggregationService
    chunk,                              \* minutes of the chunk it is waiting for
    upserts,                            \* candles locked by upserts in flight
    candles, funtold,                   \* Ohlcv_1min: 'new', or 'processing' for too long
    claimed,                            \* 'processing', with nobody at work on them
    fpc, falive, fsignals, fgaveUp      \* FeatureCalculationService

Agg == INSTANCE NotifyConsumer WITH
    Item <- Candle, ChunkSize <- ChunkMinutes,
    queue <- minutes, held <- aheld, untold <- auntold, posts <- inserts,
    pc <- apc, alive <- aalive, signals <- asignals, gaveUp <- agaveUp

\* Its only producer is the aggregator, whose chunks need no bound.
Feat == INSTANCE NotifyConsumer WITH
    Item <- Candle, ChunkSize <- BatchSize,
    queue <- candles, held <- upserts, untold <- funtold, posts <- 0,
    pc <- fpc, alive <- falive, signals <- fsignals, gaveUp <- fgaveUp

aggregator == <<minutes, aheld, auntold, inserts, apc, aalive, asignals, agaveUp>>
calculator == <<candles, upserts, funtold, fpc, falive, fsignals, fgaveUp>>
vars       == <<stopping, aggregator, chunk, calculator, claimed>>

TypeOK ==
    /\ Agg!TypeOK
    /\ Feat!TypeOK
    /\ chunk \subseteq Candle
    /\ claimed \subseteq Candle

Init ==
    /\ Agg!Init
    /\ Feat!Init
    /\ chunk = {}
    /\ claimed \in SUBSET (Candle \ candles)

-----------------------------------------------------------------------------
(* Minutes to candles *)

\* A NOTIFY is sent only for minutes that were not queued.
InsertTicks ==
    /\ \E S \in (SUBSET (Candle \ minutes)) \ {{}} :
          Agg!Bounded(Agg!Deliver(S))
    /\ UNCHANGED <<chunk, calculator, claimed>>

\* The upsert of the chunk B has run: W are its candles.  A minute without
\* ticks gives none.
BeginUpsert(B, W) ==
    /\ apc = "drain"
    /\ chunk = {}
    /\ Agg!IsChunk(B)
    /\ chunk' = B
    /\ Feat!Lock(W)
    /\ UNCHANGED <<stopping, aggregator, claimed>>
    /\ UNCHANGED <<candles, funtold, fpc, falive, fsignals, fgaveUp>>

SilentCandles(W) ==   \* mutant: PERFORM pg_notify('candles_new') left out
    /\ candles' = candles \cup W
    /\ upserts' = upserts \ W
    /\ UNCHANGED <<funtold, fpc, falive, fsignals, fgaveUp, stopping>>

\* The commit makes the candles 'new', whatever they were.
NewCandles(W) == Feat!Deliver(W)

\* A chunk without candles sends no notification.
Publish(W) ==
    /\ IF W = {} THEN UNCHANGED calculator ELSE NewCandles(W)
    /\ claimed' = claimed \ W

CommitChunk ==
    /\ Agg!Chunk(chunk)
    /\ chunk' = {}
    /\ Publish(upserts \cap chunk)

\* A chunk nobody waits for any more is rolled back, or commits.  Which of its
\* minutes belonged together is forgotten: parts of it may end apart.
OrphanRollsBack(S) ==
    /\ Agg!RolledBack(S)
    /\ IF upserts \cap S = {} THEN UNCHANGED calculator ELSE Feat!RolledBack(upserts \cap S)
    /\ UNCHANGED <<inserts, chunk, claimed>>

OrphanCommits(S) ==
    /\ Agg!Done(S)
    /\ Publish(upserts \cap S)
    /\ UNCHANGED <<inserts, chunk>>

AggregatorLoop ==
    \/ (Agg!Connecting \/ Agg!WakeUp \/ Agg!Recheck) /\ UNCHANGED chunk
    \/ (Agg!Dry \/ Agg!Stop) /\ chunk = {} /\ UNCHANGED chunk
    \/ Agg!ChunkFails(chunk) /\ chunk' = {}

-----------------------------------------------------------------------------
(* Candles to features *)

\* A batch B is claimed; of its candles, F are not marked 'processed'.
Calculate(B, F) ==
    /\ Feat!Chunk(B)
    /\ claimed' = claimed \cup F
    /\ UNCHANGED <<aggregator, chunk>>

\* Fifteen minutes have passed since the claim.
Expire(c) ==
    /\ c \in claimed
    /\ claimed' = claimed \ {c}
    /\ Feat!Return({c})
    /\ UNCHANGED <<aggregator, chunk>>

CalculatorLoop ==
    \/ Feat!Connecting
    \/ Feat!Dry
    \/ Feat!ChunkFails({})
    \/ Feat!WakeUp
    \/ Feat!Recheck
    \/ Feat!Stop

-----------------------------------------------------------------------------
(* Life of the process *)

\* One stoppingToken for all hosted services.
Cancel ==
    /\ apc # "stopped"
    /\ ~stopping
    /\ stopping' = TRUE
    /\ UNCHANGED <<aggregator, chunk, calculator, claimed>>

Kill ==
    /\ Agg!Kill(chunk)
    /\ Feat!Kill({})
    /\ chunk' = {}
    /\ UNCHANGED claimed

Restart ==
    /\ Agg!Restart
    /\ Feat!Restart
    /\ UNCHANGED <<chunk, claimed>>

Aggregate == \E B \in SUBSET minutes : \E W \in SUBSET B : BeginUpsert(B, W)

Next ==
    \/ InsertTicks
    \/ Aggregate
    \/ CommitChunk
    \/ \E S \in SUBSET aheld : OrphanRollsBack(S) \/ OrphanCommits(S)
    \/ AggregatorLoop /\ UNCHANGED <<calculator, claimed>>
    \/ \E B \in SUBSET candles : \E F \in SUBSET B : Calculate(B, F)
    \/ \E c \in claimed : Expire(c)
    \/ CalculatorLoop /\ UNCHANGED <<aggregator, chunk, claimed>>
    \/ Cancel
    \/ Kill
    \/ Restart

AggStep(A)  == UNCHANGED <<chunk, calculator, claimed>> /\ A
FeatStep(A) == UNCHANGED <<aggregator, chunk, claimed>> /\ A

\* What a loop does of its own accord, whichever of it is next.
AggGoesOn ==
    \/ chunk = {} /\ (Agg!Dry \/ Agg!Stop)
    \/ Agg!BreakNoticed \/ Agg!WakeUp \/ Agg!Recheck

FeatGoesOn ==
    \/ Feat!Dry \/ Feat!Stop
    \/ Feat!BreakNoticed \/ Feat!WakeUp \/ Feat!Recheck

\* As in NotifyConsumer, for each of the two loops; a claim expires, and not
\* every calculation of a candle fails.
Fairness ==
    /\ SF_vars(AggStep(Agg!Listen))
    /\ WF_vars(AggStep(AggGoesOn))
    /\ SF_vars(Aggregate)
    /\ SF_vars(CommitChunk)
    /\ SF_vars(FeatStep(Feat!Listen))
    /\ WF_vars(FeatStep(FeatGoesOn))
    /\ WF_vars(Restart)
    /\ WF_vars(\E S \in SUBSET aheld : OrphanRollsBack(S) \/ OrphanCommits(S))
    /\ WF_vars(\E c \in claimed : Expire(c))
    /\ SF_vars(\E B \in SUBSET candles : \E F \in (SUBSET B) \ {B} : Calculate(B, F))

Spec == Init /\ [][Next]_vars

FairSpec == Spec /\ Fairness

-----------------------------------------------------------------------------
(* Properties *)

\* Neither consumer waits, told of nothing, while its queue holds work that it
\* could take and that has not come back unannounced during this wait: the
\* chunk that makes candles 'new' also wakes the second consumer.
BothAreTold == Agg!NoSleepOnWork /\ Feat!NoSleepOnWork

\* Queued minutes pass both queues in the end, and no candle is left claimed:
\* through chunks that time out and commit or roll back behind their client's
\* back, failed symbols and dead batches.  MaxPosts ends the inserts, so that
\* the end is both queues empty.
PassesBothQueues == minutes # {} ~> minutes \cup candles \cup claimed = {}
=============================================================================
