------------------------ MODULE FeaturePipelineProofs ------------------------
(***************************************************************************)
(* Proofs about FeaturePipeline, for any candles, symbols, batch size and  *)
(* number of workers.                                                      *)
(*                                                                         *)
(* The argument for several workers (WIInv): a claim holds versions that   *)
(* exist (ClaimsExist), so a recomputation makes every claim on its candle *)
(* obsolete; and once a worker that holds the present version of a candle  *)
(* is past its symbol, the saved features are that version's, unless       *)
(* someone overwrote them, which is recorded (HandledIsSaved).             *)
(*                                                                         *)
(* For the deployed single worker, without deployments (SIInv): while its  *)
(* batch is under way its candles are 'processing' with the version it     *)
(* claimed, or 'new' (ClaimHolds).  Nobody else changes 'new' back, which  *)
(* is what the status check in Mark relies on.                             *)
(***************************************************************************)
EXTENDS FeaturePipeline, TLAPS

Handled(w, c) == SymbolOf[c] \notin pending[w] /\ SymbolOf[c] \notin failed[w]

ClaimsExist ==
    \A w \in Worker, c \in Candle : claimed[w][c] <= version[c]

HandledIsSaved ==
    \A w \in Worker : \A c \in InBatch(w) :
        claimed[w][c] = version[c] /\ Handled(w, c)
            => feature[c] = version[c] \/ c \in buried

WIInv == TypeOK /\ ClaimsExist /\ HandledIsSaved /\ StaleOnlyIfBuried

OneWorker == \A v, w \in Worker : v = w

NoStop == \A w \in Worker : ~stopping[w]

BatchWhileComputing ==
    \A w \in Worker : wpc[w] # "computing" => claimed[w] = NoBatch

ClaimHolds ==
    \A w \in Worker : \A c \in InBatch(w) :
        \/ status[c] = "new"
        \/ status[c] = "processing" /\ claimed[w][c] = version[c]

HandledIsCurrent ==
    \A w \in Worker : \A c \in InBatch(w) :
        status[c] = "processing" /\ Handled(w, c) => feature[c] = version[c]

SIInv ==
    /\ TypeOK
    /\ NoStop
    /\ BatchWhileComputing
    /\ ClaimHolds
    /\ HandledIsCurrent
    /\ ProcessedMeansCurrent

-----------------------------------------------------------------------------
(* Several workers, with deployments *)

LEMMA InitWIInv == Init => WIInv
  BY FeatureAssumption
  DEF Init, WIInv, TypeOK, Statuses, NoBatch, ClaimsExist, HandledIsSaved,
      StaleOnlyIfBuried, InBatch

LEMMA RecomputeW ==
  ASSUME WIInv, NEW c \in Candle, Recompute(c)
  PROVE  WIInv'
<1> USE FeatureAssumption DEF Recompute, batch
<1>1. TypeOK'
  BY DEF WIInv, TypeOK, Statuses
<1>2. ClaimsExist'
  BY DEF WIInv, TypeOK, ClaimsExist
<1>3. HandledIsSaved'
  <2> SUFFICES ASSUME NEW w \in Worker, NEW d \in Candle, claimed[w][d] > 0,
                      claimed[w][d] = version'[d], Handled(w, d)
               PROVE  feature[d] = version'[d] \/ d \in buried'
    BY DEF HandledIsSaved, InBatch, Handled
  <2>1. d # c
    BY DEF WIInv, TypeOK, ClaimsExist
  <2> QED
    BY <2>1 DEF WIInv, TypeOK, HandledIsSaved, InBatch
<1>4. StaleOnlyIfBuried'
  BY DEF WIInv, TypeOK, Statuses, StaleOnlyIfBuried
<1> QED
  BY <1>1, <1>2, <1>3, <1>4 DEF WIInv

LEMMA ClaimAgesW ==
  ASSUME WIInv, NEW c \in Candle, ClaimAges(c)
  PROVE  WIInv'
  BY DEF ClaimAges, batch, WIInv, TypeOK, ClaimsExist, HandledIsSaved, Handled,
         StaleOnlyIfBuried, InBatch

LEMMA ClaimW ==
  ASSUME WIInv, NEW w \in Worker, Claim(w)
  PROVE  WIInv'
<1> USE FeatureAssumption
<1> PICK B \in SUBSET Candidates :
      /\ status' = [c \in Candle |-> IF c \in B THEN "processing" ELSE status[c]]
      /\ claimOld' = [c \in Candle |-> IF c \in B THEN FALSE ELSE claimOld[c]]
      /\ claimed' = [claimed EXCEPT ![w] =
                        [c \in Candle |-> IF c \in B THEN version[c] ELSE 0]]
      /\ pending' = [pending EXCEPT ![w] = SymbolsOf(B)]
  BY DEF Claim
<1> /\ failed' = [failed EXCEPT ![w] = {}]
    /\ wpc' = [wpc EXCEPT ![w] = "computing"]
    /\ UNCHANGED <<version, feature, stopping, buried>>
  BY DEF Claim
<1>1. TypeOK'
  <2>1. SymbolsOf(B) \in SUBSET Symbol
    BY DEF SymbolsOf, Candidates
  <2> QED
    BY <2>1 DEF WIInv, TypeOK, Statuses
<1>2. ClaimsExist'
  BY DEF WIInv, TypeOK, ClaimsExist
<1>3. HandledIsSaved'
  <2> SUFFICES ASSUME NEW v \in Worker, NEW c \in Candle, claimed'[v][c] > 0,
                      claimed'[v][c] = version[c], Handled(v, c)'
               PROVE  feature[c] = version[c] \/ c \in buried
    BY DEF HandledIsSaved, InBatch
  <2>1. CASE v = w
    <3>1. c \in B
      BY <2>1 DEF WIInv, TypeOK
    <3>2. SymbolOf[c] \in pending'[w]
      BY <3>1 DEF WIInv, TypeOK, SymbolsOf
    <3> QED
      BY <2>1, <3>2 DEF Handled
  <2>2. CASE v # w
    BY <2>2 DEF WIInv, TypeOK, HandledIsSaved, Handled, InBatch
  <2> QED
    BY <2>1, <2>2
<1>4. StaleOnlyIfBuried'
  BY DEF WIInv, TypeOK, StaleOnlyIfBuried
<1> QED
  BY <1>1, <1>2, <1>3, <1>4 DEF WIInv

LEMMA SaveFeaturesW ==
  ASSUME WIInv, NEW w \in Worker, NEW s \in Symbol, SaveFeatures(w, s)
  PROVE  WIInv'
<1> USE FeatureAssumption DEF SaveFeatures, rows
<1>1. TypeOK'
  BY DEF WIInv, TypeOK, OfSymbol, InBatch
<1>2. ClaimsExist'
  BY DEF WIInv, ClaimsExist
<1>3. HandledIsSaved'
  <2> SUFFICES ASSUME NEW v \in Worker, NEW c \in Candle, claimed[v][c] > 0,
                      claimed[v][c] = version[c], Handled(v, c)'
               PROVE  feature'[c] = version[c] \/ c \in buried'
    BY DEF HandledIsSaved, InBatch
  <2>1. CASE c \in OfSymbol(w, s)
    BY <2>1 DEF WIInv, TypeOK
  <2>2. CASE c \notin OfSymbol(w, s)
    <3>1. Handled(v, c)
      <4>1. CASE v = w
        BY <2>2, <4>1 DEF WIInv, TypeOK, Handled, OfSymbol, InBatch
      <4>2. CASE v # w
        BY <4>2 DEF WIInv, TypeOK, Handled
      <4> QED
        BY <4>1, <4>2
    <3> QED
      BY <2>2, <3>1 DEF WIInv, TypeOK, HandledIsSaved, InBatch
  <2> QED
    BY <2>1, <2>2
<1>4. StaleOnlyIfBuried'
  <2> SUFFICES ASSUME NEW c \in Candle, status[c] = "processed"
               PROVE  feature'[c] = version[c] \/ c \in buried'
    BY DEF StaleOnlyIfBuried
  <2>1. CASE c \in OfSymbol(w, s)
    BY <2>1 DEF WIInv, TypeOK
  <2>2. CASE c \notin OfSymbol(w, s)
    BY <2>2 DEF WIInv, TypeOK, StaleOnlyIfBuried
  <2> QED
    BY <2>1, <2>2
<1> QED
  BY <1>1, <1>2, <1>3, <1>4 DEF WIInv

LEMMA SymbolFailsW ==
  ASSUME WIInv, NEW w \in Worker, NEW s \in Symbol, SymbolFails(w, s)
  PROVE  WIInv'
<1> USE FeatureAssumption DEF SymbolFails, rows
<1>1. TypeOK' /\ ClaimsExist' /\ StaleOnlyIfBuried'
  BY DEF WIInv, TypeOK, ClaimsExist, StaleOnlyIfBuried
<1>2. HandledIsSaved'
  <2>1. \A v \in Worker, c \in Candle : Handled(v, c)' => Handled(v, c)
    BY DEF WIInv, TypeOK, Handled
  <2> QED
    BY <2>1 DEF WIInv, HandledIsSaved, InBatch
<1> QED
  BY <1>1, <1>2 DEF WIInv

LEMMA MarkW ==
  ASSUME WIInv, NEW w \in Worker, Mark(w)
  PROVE  WIInv'
<1> USE FeatureAssumption DEF Mark
<1>1. TypeOK'
  BY DEF WIInv, TypeOK, Statuses, NoBatch, Marked, Succeeded, InBatch
<1>2. ClaimsExist'
  BY DEF WIInv, TypeOK, ClaimsExist, NoBatch
<1>3. HandledIsSaved'
  <2> SUFFICES ASSUME NEW v \in Worker, NEW c \in Candle, claimed'[v][c] > 0,
                      claimed'[v][c] = version[c], Handled(v, c)'
               PROVE  feature[c] = version[c] \/ c \in buried'
    BY DEF HandledIsSaved, InBatch
  <2>1. v # w
    BY DEF WIInv, TypeOK, NoBatch
  <2> QED
    BY <2>1 DEF WIInv, TypeOK, HandledIsSaved, Handled, InBatch
<1>4. StaleOnlyIfBuried'
  <2> SUFFICES ASSUME NEW c \in Candle, status'[c] = "processed"
               PROVE  feature[c] = version[c] \/ c \in buried'
    BY DEF StaleOnlyIfBuried
  <2>1. CASE c \in Marked(w)
    BY <2>1 DEF WIInv, TypeOK, HandledIsSaved, Handled, Marked, Succeeded
  <2>2. CASE c \notin Marked(w)
    BY <2>2 DEF WIInv, TypeOK, StaleOnlyIfBuried
  <2> QED
    BY <2>1, <2>2
<1> QED
  BY <1>1, <1>2, <1>3, <1>4 DEF WIInv

\* Stopping, crashing and restarting at most drop a batch.
LEMMA ProcessLifeW ==
  ASSUME WIInv, NEW w \in Worker, Stop(w) \/ Crash(w) \/ Restart(w)
  PROVE  WIInv'
<1> USE FeatureAssumption DEF rows, batch
<1>1. CASE Stop(w) \/ Restart(w)
  BY <1>1 DEF Stop, Restart, WIInv, TypeOK, ClaimsExist, HandledIsSaved, Handled,
              StaleOnlyIfBuried, InBatch
<1>2. CASE Crash(w)
  <2>1. TypeOK' /\ ClaimsExist' /\ StaleOnlyIfBuried'
    BY <1>2 DEF Crash, WIInv, TypeOK, ClaimsExist, StaleOnlyIfBuried, NoBatch
  <2>2. HandledIsSaved'
    <3> SUFFICES ASSUME NEW v \in Worker, NEW c \in Candle, claimed'[v][c] > 0,
                        claimed'[v][c] = version[c], Handled(v, c)'
                 PROVE  feature[c] = version[c] \/ c \in buried
      BY <1>2 DEF Crash, HandledIsSaved, InBatch
    <3>1. v # w
      BY <1>2 DEF Crash, WIInv, TypeOK, NoBatch
    <3> QED
      BY <1>2, <3>1 DEF Crash, WIInv, TypeOK, HandledIsSaved, Handled, InBatch
  <2> QED
    BY <2>1, <2>2 DEF WIInv
<1> QED
  BY <1>1, <1>2

LEMMA StutterW ==
  ASSUME WIInv, UNCHANGED vars
  PROVE  WIInv'
  BY DEF vars, rows, batch, WIInv, TypeOK, ClaimsExist, HandledIsSaved, Handled,
         StaleOnlyIfBuried, InBatch

LEMMA NextWIInv == WIInv /\ [Next]_vars => WIInv'
<1> SUFFICES ASSUME WIInv, [Next]_vars PROVE WIInv'
  OBVIOUS
<1> QED
  BY RecomputeW, ClaimAgesW, ClaimW, SaveFeaturesW, SymbolFailsW, MarkW,
     ProcessLifeW, StutterW
  DEF Next, SteadyNext, WorkerStep

LEMMA Inductive == Spec => []WIInv
<1>1. Init => WIInv
  BY InitWIInv
<1>2. WIInv /\ [Next]_vars => WIInv'
  BY NextWIInv
<1> QED
  BY <1>1, <1>2, PTL DEF Spec

\* Every variable keeps its type, whatever the workers, deployments and
\* crashes of FeatureCalculatorWorker do.
THEOREM FeatureTypes == Spec => []TypeOK
<1>1. WIInv => TypeOK
  BY DEF WIInv
<1> QED
  BY <1>1, Inductive, PTL

\* With any number of workers and with deployments, a candle that counts as
\* done has features of its present values unless one of the two steps that
\* StaleOnlyIfBuried names hit it.
THEOREM NoOtherStaleness == Spec => []StaleOnlyIfBuried
<1>1. WIInv => StaleOnlyIfBuried
  BY DEF WIInv
<1> QED
  BY <1>1, Inductive, PTL

-----------------------------------------------------------------------------
(* One worker, without deployments *)

LEMMA InitSIInv == Init => SIInv
  BY FeatureAssumption
  DEF Init, SIInv, TypeOK, Statuses, NoBatch, NoStop, BatchWhileComputing,
      ClaimHolds, HandledIsCurrent, ProcessedMeansCurrent, InBatch

LEMMA CandleStepsS ==
  ASSUME SIInv, NEW c \in Candle, Recompute(c) \/ ClaimAges(c)
  PROVE  SIInv'
<1> USE FeatureAssumption DEF batch
<1>1. CASE Recompute(c)
  <2> USE <1>1 DEF Recompute
  <2>1. TypeOK' /\ NoStop' /\ BatchWhileComputing'
    BY DEF SIInv, TypeOK, Statuses, NoStop, BatchWhileComputing, NoBatch
  <2>2. ClaimHolds'
    BY DEF SIInv, TypeOK, ClaimHolds, InBatch
  <2>3. HandledIsCurrent'
    BY DEF SIInv, TypeOK, HandledIsCurrent, Handled, InBatch
  <2>4. ProcessedMeansCurrent'
    BY DEF SIInv, TypeOK, ProcessedMeansCurrent
  <2> QED
    BY <2>1, <2>2, <2>3, <2>4 DEF SIInv
<1>2. CASE ClaimAges(c)
  BY <1>2 DEF ClaimAges, SIInv, TypeOK, NoStop, BatchWhileComputing, NoBatch,
              ClaimHolds, HandledIsCurrent, Handled, ProcessedMeansCurrent, InBatch
<1> QED
  BY <1>1, <1>2

LEMMA ClaimS ==
  ASSUME OneWorker, SIInv, NEW w \in Worker, Claim(w)
  PROVE  SIInv'
<1> USE FeatureAssumption
<1> PICK B \in SUBSET Candidates :
      /\ status' = [c \in Candle |-> IF c \in B THEN "processing" ELSE status[c]]
      /\ claimOld' = [c \in Candle |-> IF c \in B THEN FALSE ELSE claimOld[c]]
      /\ claimed' = [claimed EXCEPT ![w] =
                        [c \in Candle |-> IF c \in B THEN version[c] ELSE 0]]
      /\ pending' = [pending EXCEPT ![w] = SymbolsOf(B)]
  BY DEF Claim
<1> /\ failed' = [failed EXCEPT ![w] = {}]
    /\ wpc' = [wpc EXCEPT ![w] = "computing"]
    /\ UNCHANGED <<version, feature, stopping, buried>>
  BY DEF Claim
<1> \A v \in Worker : v = w
  BY DEF OneWorker
<1>1. TypeOK'
  <2>1. SymbolsOf(B) \in SUBSET Symbol
    BY DEF SymbolsOf, Candidates
  <2> QED
    BY <2>1 DEF SIInv, TypeOK, Statuses
<1>2. NoStop' /\ BatchWhileComputing'
  BY DEF SIInv, TypeOK, NoStop, BatchWhileComputing
<1>3. ClaimHolds'
  BY DEF SIInv, TypeOK, ClaimHolds, InBatch
<1>4. HandledIsCurrent'
  <2> SUFFICES ASSUME NEW c \in Candle, claimed'[w][c] > 0, Handled(w, c)'
               PROVE  FALSE
    BY DEF HandledIsCurrent, InBatch
  <2>1. c \in B
    BY DEF SIInv, TypeOK
  <2> QED
    BY <2>1 DEF SIInv, TypeOK, SymbolsOf, Handled
<1>5. ProcessedMeansCurrent'
  BY DEF SIInv, TypeOK, ProcessedMeansCurrent
<1> QED
  BY <1>1, <1>2, <1>3, <1>4, <1>5 DEF SIInv

LEMMA SaveFeaturesS ==
  ASSUME OneWorker, SIInv, NEW w \in Worker, NEW s \in Symbol, SaveFeatures(w, s)
  PROVE  SIInv'
<1> USE FeatureAssumption DEF SaveFeatures, rows
<1> \A v \in Worker : v = w
  BY DEF OneWorker
<1>1. TypeOK'
  BY DEF SIInv, TypeOK, OfSymbol, InBatch
<1>2. NoStop' /\ BatchWhileComputing' /\ ClaimHolds'
  BY DEF SIInv, NoStop, BatchWhileComputing, NoBatch, ClaimHolds, InBatch
<1>3. HandledIsCurrent'
  <2> SUFFICES ASSUME NEW c \in InBatch(w), status[c] = "processing", Handled(w, c)'
               PROVE  feature'[c] = version[c]
    BY DEF HandledIsCurrent, InBatch
  <2>1. CASE c \in OfSymbol(w, s)
    BY <2>1 DEF SIInv, TypeOK, ClaimHolds, InBatch
  <2>2. CASE c \notin OfSymbol(w, s)
    BY <2>2 DEF SIInv, TypeOK, HandledIsCurrent, Handled, OfSymbol, InBatch
  <2> QED
    BY <2>1, <2>2
<1>4. ProcessedMeansCurrent'
  <2> SUFFICES ASSUME NEW c \in Candle, status[c] = "processed"
               PROVE  feature'[c] = version[c]
    BY DEF ProcessedMeansCurrent
  <2>1. c \notin OfSymbol(w, s)
    BY DEF SIInv, ClaimHolds, OfSymbol
  <2> QED
    BY <2>1 DEF SIInv, TypeOK, ProcessedMeansCurrent
<1> QED
  BY <1>1, <1>2, <1>3, <1>4 DEF SIInv

LEMMA SymbolFailsS ==
  ASSUME SIInv, NEW w \in Worker, NEW s \in Symbol, SymbolFails(w, s)
  PROVE  SIInv'
<1> USE FeatureAssumption DEF SymbolFails, rows
<1>1. TypeOK'
  BY DEF SIInv, TypeOK
<1>2. NoStop' /\ BatchWhileComputing' /\ ClaimHolds' /\ ProcessedMeansCurrent'
  BY DEF SIInv, NoStop, BatchWhileComputing, NoBatch, ClaimHolds, InBatch,
         ProcessedMeansCurrent
<1>3. HandledIsCurrent'
  <2>1. \A v \in Worker, c \in Candle : Handled(v, c)' => Handled(v, c)
    BY DEF SIInv, TypeOK, Handled
  <2> QED
    BY <2>1 DEF SIInv, HandledIsCurrent, InBatch
<1> QED
  BY <1>1, <1>2, <1>3 DEF SIInv

LEMMA MarkS ==
  ASSUME OneWorker, SIInv, NEW w \in Worker, Mark(w)
  PROVE  SIInv'
<1> USE FeatureAssumption DEF Mark
<1> \A v \in Worker : v = w
  BY DEF OneWorker
<1>1. TypeOK'
  BY DEF SIInv, TypeOK, Statuses, NoBatch, Marked, Succeeded, InBatch
<1>2. NoStop' /\ BatchWhileComputing'
  BY DEF SIInv, TypeOK, NoStop, BatchWhileComputing
<1>3. ClaimHolds' /\ HandledIsCurrent'
  BY DEF SIInv, TypeOK, ClaimHolds, HandledIsCurrent, InBatch, NoBatch
<1>4. ProcessedMeansCurrent'
  <2> SUFFICES ASSUME NEW c \in Candle, status'[c] = "processed"
               PROVE  feature[c] = version[c]
    BY DEF ProcessedMeansCurrent
  <2>1. CASE c \in Marked(w)
    <3>1. pending[w] = {}
      BY DEF SIInv, NoStop
    <3>2. c \in InBatch(w) /\ status[c] = "processing" /\ Handled(w, c)
      BY <2>1, <3>1 DEF Marked, Succeeded, StillProcessing, Handled
    <3> QED
      BY <3>2 DEF SIInv, HandledIsCurrent
  <2>2. CASE c \notin Marked(w)
    BY <2>2 DEF SIInv, TypeOK, ProcessedMeansCurrent
  <2> QED
    BY <2>1, <2>2
<1> QED
  BY <1>1, <1>2, <1>3, <1>4 DEF SIInv

LEMMA ProcessLifeS ==
  ASSUME OneWorker, SIInv, NEW w \in Worker, Crash(w) \/ Restart(w)
  PROVE  SIInv'
<1> USE FeatureAssumption DEF rows, batch
<1> \A v \in Worker : v = w
  BY DEF OneWorker
<1>1. CASE Crash(w)
  BY <1>1 DEF Crash, SIInv, TypeOK, NoStop, BatchWhileComputing, NoBatch,
              ClaimHolds, HandledIsCurrent, ProcessedMeansCurrent, InBatch
<1>2. CASE Restart(w)
  BY <1>2 DEF Restart, SIInv, TypeOK, NoStop, BatchWhileComputing, NoBatch,
              ClaimHolds, HandledIsCurrent, Handled, ProcessedMeansCurrent, InBatch
<1> QED
  BY <1>1, <1>2

LEMMA StutterS ==
  ASSUME SIInv, UNCHANGED vars
  PROVE  SIInv'
  BY DEF vars, rows, batch, SIInv, TypeOK, NoStop, BatchWhileComputing, NoBatch,
         ClaimHolds, HandledIsCurrent, Handled, ProcessedMeansCurrent, InBatch

\* The deployed configuration, one worker, while no deployment interrupts a
\* batch: features of a 'processed' candle are those of its present values,
\* through recomputations, failed symbols, expired claims and crashes.
THEOREM ProcessedIsCurrent ==
  ASSUME OneWorker
  PROVE  SteadySpec => []ProcessedMeansCurrent
<1>1. Init => SIInv
  BY InitSIInv
<1>2. SIInv /\ [SteadyNext]_vars => SIInv'
  <2> SUFFICES ASSUME SIInv, [SteadyNext]_vars PROVE SIInv'
    OBVIOUS
  <2> QED
    BY CandleStepsS, ClaimS, SaveFeaturesS, SymbolFailsS, MarkS, ProcessLifeS,
       StutterS
    DEF SteadyNext, WorkerStep
<1>3. SIInv => ProcessedMeansCurrent
  BY DEF SIInv
<1> QED
  BY <1>1, <1>2, <1>3, PTL DEF SteadySpec

=============================================================================
