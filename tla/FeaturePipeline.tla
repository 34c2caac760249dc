--------------------------- MODULE FeaturePipeline ---------------------------
(***************************************************************************)
(* Minute candles to features: FeatureCalculatorWorker and the             *)
(* ProcessingStatus column it works from.                                  *)
(*                                                                         *)
(* A worker claims a batch of candles in one statement ('new', or          *)
(* 'processing' with a claim older than the 15 minutes' TTL), computes and *)
(* saves the features symbol by symbol, and marks the candles whose symbol *)
(* did not fail as 'processed', provided they are still 'processing'.      *)
(* Meanwhile the aggregator recomputes candles, which makes them 'new'     *)
(* again.                                                                  *)
(*                                                                         *)
(* A candle's row is reduced to the number of times it was recomputed, and *)
(* its features to the version of the row they were computed from.         *)
(* Worker is a set because ADR 0005 allows several; one is deployed.       *)
(***************************************************************************)
EXTENDS Naturals, FiniteSets

CONSTANTS
    Candle,         \* rows of Ohlcv_1min
    Symbol,
    SymbolOf,       \* the symbol of each candle
    OpenTime,       \* its OpenTime
    Worker,
    BatchSize,
    MaxVersion      \* bound on the recomputations of one candle

ASSUME FeatureAssumption ==
    /\ SymbolOf \in [Candle -> Symbol]
    /\ OpenTime \in [Candle -> Nat]
    /\ BatchSize \in Nat \ {0}
    /\ MaxVersion \in Nat

VARIABLES
    version,    \* how often the candle was (re)computed; 0: no row
    status,     \* ProcessingStatus
    claimOld,   \* ClaimedAt is NULL or older than the TTL
    feature,    \* version the saved features come from; 0: none
    wpc,        \* "idle", "computing", or "down" between two processes
    claimed,    \* the worker's batch: version of each claimed row, 0 if not in it
    pending,    \* symbols of the batch not handled yet
    failed,     \* failedSymbols
    stopping,   \* the worker's stoppingToken is cancelled
    buried      \* history: see Mark and SaveFeatures

rows  == <<version, status, claimOld>>
batch == <<claimed, pending, failed>>
vars  == <<rows, batch, feature, wpc, stopping, buried>>

Statuses == {"none", "new", "processing", "processed"}

TypeOK ==
    /\ version \in [Candle -> Nat]
    /\ status \in [Candle -> Statuses]
    /\ claimOld \in [Candle -> BOOLEAN]
    /\ feature \in [Candle -> Nat]
    /\ wpc \in [Worker -> {"idle", "computing", "down"}]
    /\ claimed \in [Worker -> [Candle -> Nat]]
    /\ pending \in [Worker -> SUBSET Symbol]
    /\ failed \in [Worker -> SUBSET Symbol]
    /\ stopping \in [Worker -> BOOLEAN]
    /\ buried \subseteq Candle

NoBatch == [c \in Candle |-> 0]

Init ==
    /\ version = [c \in Candle |-> 0]
    /\ status = [c \in Candle |-> "none"]
    /\ claimOld = [c \in Candle |-> TRUE]
    /\ feature = [c \in Candle |-> 0]
    /\ wpc = [w \in Worker |-> "idle"]
    /\ claimed = [w \in Worker |-> NoBatch]
    /\ pending = [w \in Worker |-> {}]
    /\ failed = [w \in Worker |-> {}]
    /\ stopping = [w \in Worker |-> FALSE]
    /\ buried = {}

-----------------------------------------------------------------------------
(* The aggregator's upsert, and time *)

\* sp_aggregate_dirty_minutes: new values and status 'new'; ClaimedAt is left
\* as it was.
Recompute(c) ==
    /\ version[c] < MaxVersion
    /\ version' = [version EXCEPT ![c] = @ + 1]
    /\ status' = [status EXCEPT ![c] = "new"]
    /\ buried' = buried \ {c}
    /\ UNCHANGED <<claimOld, batch, feature, wpc, stopping>>

\* 15 minutes pass without the claim ending.
ClaimAges(c) ==
    /\ status[c] = "processing"
    /\ ~claimOld[c]
    /\ claimOld' = [claimOld EXCEPT ![c] = TRUE]
    /\ UNCHANGED <<version, status, batch, feature, wpc, stopping, buried>>

-----------------------------------------------------------------------------
(* ProcessNextBatchAsync *)

NewOnly == {c \in Candle : status[c] = "new"}   \* mutant: no reclaim
Candidates ==
    {c \in Candle :
        status[c] = "new" \/ (status[c] = "processing" /\ claimOld[c])}

\* ORDER BY OpenTime DESC LIMIT BatchSize, of the candidates that no upsert in
\* flight has locked (FOR UPDATE SKIP LOCKED): the newest of any part of S is
\* any part of S, up to the size.
IsBatch(B, S) == B \subseteq S /\ Cardinality(B) \in 1..BatchSize

MinutesOf(B) == {OpenTime[c] : c \in B}   \* mutant: grouped by minute
SymbolsOf(B) == {SymbolOf[c] : c \in B}

Claim(w) ==
    /\ wpc[w] = "idle"
    /\ \E B \in SUBSET Candidates :
          /\ IsBatch(B, Candidates)
          /\ status' = [c \in Candle |-> IF c \in B THEN "processing" ELSE status[c]]
          /\ claimOld' = [c \in Candle |-> IF c \in B THEN FALSE ELSE claimOld[c]]
          /\ claimed' = [claimed EXCEPT ![w] =
                            [c \in Candle |-> IF c \in B THEN version[c] ELSE 0]]
          /\ pending' = [pending EXCEPT ![w] = SymbolsOf(B)]
    /\ failed' = [failed EXCEPT ![w] = {}]
    /\ wpc' = [wpc EXCEPT ![w] = "computing"]
    /\ UNCHANGED <<version, feature, stopping, buried>>

InBatch(w) == {c \in Candle : claimed[w][c] > 0}
OfSymbol(w, s) == {c \in InBatch(w) : SymbolOf[c] = s}

\* One round of the loop: the features of a symbol's claimed candles, computed
\* from the rows as they were claimed, replace the saved ones whatever those
\* came from.
SaveFeatures(w, s) ==
    /\ wpc[w] = "computing"
    /\ ~stopping[w]
    /\ s \in pending[w]
    /\ feature' = [c \in Candle |->
                     IF c \in OfSymbol(w, s) THEN claimed[w][c] ELSE feature[c]]
    /\ pending' = [pending EXCEPT ![w] = @ \ {s}]
    /\ buried' = (buried \ OfSymbol(w, s))
                   \cup {c \in OfSymbol(w, s) : claimed[w][c] # version[c]}
    /\ UNCHANGED <<rows, claimed, failed, wpc, stopping>>

\* The round throws; the symbol is remembered and the loop goes on.
SymbolFails(w, s) ==
    /\ wpc[w] = "computing"
    /\ ~stopping[w]
    /\ s \in pending[w]
    /\ pending' = [pending EXCEPT ![w] = @ \ {s}]
    /\ failed' = [failed EXCEPT ![w] = @ \cup {s}]
    /\ UNCHANGED <<rows, claimed, feature, wpc, stopping, buried>>

\* succeededKlines: everything but the failed symbols, hence also the symbols
\* the loop did not come to because of its break.
WholeBatch(w) == InBatch(w)   \* mutant: failed symbols are marked as well
Succeeded(w) == {c \in InBatch(w) : SymbolOf[c] \notin failed[w]}

StillProcessing(c) == status[c] = "processing"

MarkedByMinute(w) ==   \* mutant: the key is OpenTime alone
    {c \in Candle : OpenTime[c] \in MinutesOf(Succeeded(w)) /\ StillProcessing(c)}
Marked(w) == {c \in Succeeded(w) : StillProcessing(c)}

\* The loop is over, or broken off by the cancelled token.
Mark(w) ==
    /\ wpc[w] = "computing"
    /\ pending[w] = {} \/ stopping[w]
    /\ status' = [c \in Candle |-> IF c \in Marked(w) THEN "processed" ELSE status[c]]
    /\ buried' = buried \cup {c \in Marked(w) : SymbolOf[c] \in pending[w]
                                                \/ claimed[w][c] # version[c]}
    /\ wpc' = [wpc EXCEPT ![w] = IF stopping[w] THEN "down" ELSE "idle"]
    /\ claimed' = [claimed EXCEPT ![w] = NoBatch]
    /\ pending' = [pending EXCEPT ![w] = {}]
    /\ failed' = [failed EXCEPT ![w] = {}]
    /\ UNCHANGED <<version, claimOld, feature, stopping>>

-----------------------------------------------------------------------------
(* Process life *)

\* SIGTERM: a deployment cancels the stoppingToken.
Stop(w) ==
    /\ wpc[w] # "down"
    /\ ~stopping[w]
    /\ stopping' = [stopping EXCEPT ![w] = TRUE]
    /\ wpc' = [wpc EXCEPT ![w] = IF @ = "idle" THEN "down" ELSE @]
    /\ UNCHANGED <<rows, batch, feature, buried>>

\* The process is killed, or the marking statement fails: the batch is gone.
Crash(w) ==
    /\ wpc[w] = "computing"
    /\ wpc' = [wpc EXCEPT ![w] = "down"]
    /\ claimed' = [claimed EXCEPT ![w] = NoBatch]
    /\ pending' = [pending EXCEPT ![w] = {}]
    /\ failed' = [failed EXCEPT ![w] = {}]
    /\ UNCHANGED <<rows, feature, stopping, buried>>

Restart(w) ==
    /\ wpc[w] = "down"
    /\ wpc' = [wpc EXCEPT ![w] = "idle"]
    /\ stopping' = [stopping EXCEPT ![w] = FALSE]
    /\ UNCHANGED <<rows, batch, feature, buried>>

-----------------------------------------------------------------------------
WorkerStep(w) ==
    \/ Claim(w)
    \/ \E s \in Symbol : SaveFeatures(w, s) \/ SymbolFails(w, s)
    \/ Mark(w)

\* Deployments do not interrupt a batch, crashes may.
SteadyNext ==
    \/ \E c \in Candle : Recompute(c) \/ ClaimAges(c)
    \/ \E w \in Worker : WorkerStep(w) \/ Crash(w) \/ Restart(w)

Next == SteadyNext \/ \E w \in Worker : Stop(w)

Spec == Init /\ [][Next]_vars

\* Time passes and the service runs; a symbol does not fail on every attempt
\* (strong fairness), and crashes come to an end.
Fairness ==
    /\ \A c \in Candle : WF_vars(ClaimAges(c))
    /\ \A w \in Worker :
          /\ WF_vars(Claim(w))
          /\ WF_vars(Mark(w))
          /\ WF_vars(Restart(w))
          /\ \A s \in Symbol : SF_vars(SaveFeatures(w, s))
    /\ <>[][\A w \in Worker : ~Crash(w)]_vars

SteadySpec == Init /\ [][SteadyNext]_vars

FairSteadySpec == SteadySpec /\ Fairness

-----------------------------------------------------------------------------
(* Properties *)

\* The features of a candle that counts as done come from the candle's
\* present values: a recomputation, a crash or a failed symbol may delay
\* features but not leave old ones behind (FeatureCalculatorWorker's comment
\* on step 6, MarkKlinesAsProcessedAsync's comment on the status check).
ProcessedMeansCurrent ==
    \A c \in Candle : status[c] = "processed" => feature[c] = version[c]

\* For any number of workers and with deployments: old features behind a
\* 'processed' status come from exactly two kinds of step, marking a candle
\* whose symbol the broken-off loop never reached, and marking or overwriting
\* on the strength of a claim that a recomputation has made obsolete.
StaleOnlyIfBuried ==
    \A c \in Candle :
        status[c] = "processed" => feature[c] = version[c] \/ c \in buried

\* Every computed candle gets its features in the end, through crashes, failed
\* symbols and recomputations.
EveryCandleIsProcessed ==
    \A c \in Candle :
        status[c] \in {"new", "processing"} ~> status[c] = "processed"
=============================================================================
