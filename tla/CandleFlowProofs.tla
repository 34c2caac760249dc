-------------------------- MODULE CandleFlowProofs --------------------------
(***************************************************************************)
(* Proofs about CandleFlow, for any candles, chunk sizes and number of     *)
(* inserting transactions.                                                 *)
(*                                                                         *)
(* The argument.  Seen from one consumer, a step of the process is a step  *)
(* of a PgNotifyConsumer, one of another transaction on its queue, or      *)
(* nothing.  For the first consumer these are all NotifyConsumer's own, so *)
(* that the flow implements NotifyConsumer: a chunk is taken when it       *)
(* commits, and until then it stays a chunk that could be taken            *)
(* (ChunkInFlight).  The second one's other transactions are the chunks of *)
(* the first and the expiry of claims, unbounded here (CalculatorSees).    *)
(* Both keep their types and wait only when told at every such step.       *)
(***************************************************************************)
EXTENDS CandleFlow, TLAPS

\* A step of the process, as FeatureCalculationService sees it.
CalculatorSees ==
    \/ \E S \in SUBSET Candle :
          Feat!Deliver(S) \/ Feat!Lock(S) \/ Feat!Return(S) \/ Feat!RolledBack(S)
    \/ [Feat!Next]_(Feat!vars)

\* Until the token is cancelled, the consumers are up together or down together.
UpTogether == ~stopping => (apc = "stopped" <=> fpc = "stopped")

\* A chunk's minutes stay queued, and nobody else's, until it ends.
ChunkInFlight == chunk # {} => apc = "drain" /\ Agg!IsChunk(chunk)

IInv == TypeOK /\ UpTogether /\ ChunkInFlight /\ BothAreTold

-----------------------------------------------------------------------------
(* What one consumer sees of the process *)

\* The second loop, its candles and the upsert before its commit are nothing
\* to the first consumer.
LEMMA AggregatorStep ==
  ASSUME ChunkInFlight, [Next]_vars
  PROVE  [Agg!Next]_(Agg!vars)
<1> USE DEF aggregator, calculator
<1>0. ASSUME UNCHANGED aggregator, UNCHANGED stopping PROVE UNCHANGED Agg!vars
  BY <1>0 DEF Agg!vars, Agg!work, Agg!listener
<1>1. CASE InsertTicks
  <2>1. PICK S \in (SUBSET (Candle \ minutes)) \ {{}} : Agg!Bounded(Agg!Deliver(S))
    BY <1>1 DEF InsertTicks
  <2>2. S \in (SUBSET Candle) \ {{}}
    OBVIOUS
  <2>3. Agg!Others
    BY <2>1, <2>2 DEF Agg!Others, Agg!Bounded
  <2> QED
    BY <2>3 DEF Agg!Next
<1>2. CASE Aggregate
  BY <1>2, <1>0 DEF Aggregate, BeginUpsert
<1>3. CASE CommitChunk
  <2>1. Agg!Chunk(chunk)
    BY <1>3 DEF CommitChunk
  <2>2. chunk \in SUBSET minutes
    BY <2>1 DEF Agg!Chunk, Agg!IsChunk, Agg!Ready
  <2> QED
    BY <2>1, <2>2 DEF Agg!Next
<1>4. ASSUME NEW S \in SUBSET aheld, OrphanRollsBack(S) \/ OrphanCommits(S)
      PROVE  Agg!Next
  BY <1>4 DEF OrphanRollsBack, OrphanCommits, Agg!Next, Agg!Others
<1>5. CASE AggregatorLoop
  <2>1. CASE Agg!ChunkFails(chunk)
    <3>1. chunk \in SUBSET minutes
      BY <2>1 DEF Agg!ChunkFails, Agg!Orphaned, Agg!IsChunk, Agg!Ready
    <3> QED
      BY <2>1, <3>1 DEF Agg!Next
  <2> QED
    BY <1>5, <2>1 DEF AggregatorLoop, Agg!Next
<1>6. ASSUME NEW B \in SUBSET candles, NEW F \in SUBSET B, Calculate(B, F)
      PROVE  UNCHANGED Agg!vars
  BY <1>6, <1>0 DEF Calculate, Feat!Chunk
<1>7. ASSUME NEW c \in claimed, Expire(c) PROVE UNCHANGED Agg!vars
  BY <1>7, <1>0 DEF Expire, Feat!Return, Feat!Unannounced, Feat!Idle
<1>8. CASE CalculatorLoop /\ UNCHANGED <<aggregator, chunk, claimed>>
  <2>1. UNCHANGED stopping
    BY <1>8
      DEF CalculatorLoop, Feat!Connecting, Feat!Listen, Feat!AfterListen,
          Feat!Break, Feat!BreakNoticed, Feat!EndWait, Feat!Dry,
          Feat!ChunkFails, Feat!WakeUp, Feat!Recheck, Feat!RecheckDue,
          Feat!Stop, Feat!Terminate
  <2> QED
    BY <1>8, <2>1, <1>0
<1>9. CASE Cancel
  BY <1>9 DEF Cancel, Agg!Cancel, Agg!work, Agg!listener, Agg!Next
<1>10. CASE Kill
  <2>1. Agg!Kill(chunk)
    BY <1>10 DEF Kill
  <2>2. chunk \in SUBSET minutes
    BY <2>1 DEF Agg!Kill, Agg!Terminate, Agg!Orphaned, Agg!IsChunk, Agg!Ready
  <2> QED
    BY <2>1, <2>2 DEF Agg!Next
<1>11. CASE Restart
  BY <1>11 DEF Restart, Agg!Next
<1>12. CASE UNCHANGED vars
  BY <1>12, <1>0 DEF vars
<1> QED
  BY <1>1, <1>2, <1>3, <1>4, <1>5, <1>6, <1>7, <1>8, <1>9, <1>10, <1>11, <1>12 DEF Next

\* To the second one an upsert is a lock, the end of its chunk a delivery, a
\* rollback or nothing, and an expired claim work that comes back.
LEMMA CalculatorStep ==
  ASSUME TypeOK, UpTogether, [Next]_vars
  PROVE  CalculatorSees
<1> USE DEF aggregator, calculator, CalculatorSees
<1>0. ASSUME UNCHANGED calculator, UNCHANGED stopping PROVE UNCHANGED Feat!vars
  BY <1>0 DEF Feat!vars, Feat!work, Feat!listener
<1>1. CASE InsertTicks
  BY <1>1, <1>0 DEF InsertTicks, Agg!Bounded, Agg!Deliver, Agg!Idle
<1>2. CASE Aggregate
  <2>1. PICK B \in SUBSET minutes : \E W \in SUBSET B : BeginUpsert(B, W)
    BY <1>2 DEF Aggregate
  <2>2. PICK W \in SUBSET B : BeginUpsert(B, W)
    BY <2>1
  <2>3. W \in SUBSET Candle
    BY DEF TypeOK, Agg!TypeOK
  <2> QED
    BY <2>2, <2>3 DEF BeginUpsert
<1>3. ASSUME NEW S \in SUBSET Candle, Publish(upserts \cap S), UNCHANGED stopping
      PROVE  CalculatorSees
  <2>1. upserts \cap S \in SUBSET Candle
    OBVIOUS
  <2> QED
    BY <1>3, <2>1, <1>0 DEF Publish, NewCandles
<1>4. CASE CommitChunk
  BY <1>4, <1>3 DEF CommitChunk, Agg!Chunk, TypeOK
<1>5. ASSUME NEW S \in SUBSET aheld, OrphanRollsBack(S) PROVE CalculatorSees
  <2>1. UNCHANGED stopping
    BY <1>5 DEF OrphanRollsBack, Agg!RolledBack, Agg!Unannounced, Agg!Idle
  <2>2. upserts \cap S \in SUBSET Candle
    BY DEF TypeOK, Agg!TypeOK
  <2> QED
    BY <1>5, <2>1, <2>2, <1>0 DEF OrphanRollsBack
<1>6. ASSUME NEW S \in SUBSET aheld, OrphanCommits(S) PROVE CalculatorSees
  <2>1. UNCHANGED stopping /\ S \in SUBSET Candle
    BY <1>6 DEF OrphanCommits, Agg!Done, Agg!Idle, TypeOK, Agg!TypeOK
  <2> QED
    BY <1>6, <2>1, <1>3 DEF OrphanCommits
<1>7. CASE AggregatorLoop /\ UNCHANGED <<calculator, claimed>>
  <2>1. UNCHANGED stopping
    BY <1>7
      DEF AggregatorLoop, Agg!Connecting, Agg!Listen, Agg!AfterListen,
          Agg!Break, Agg!BreakNoticed, Agg!EndWait, Agg!Dry, Agg!ChunkFails,
          Agg!WakeUp, Agg!Recheck, Agg!RecheckDue, Agg!Stop, Agg!Terminate
  <2> QED
    BY <1>7, <2>1, <1>0
<1>8. ASSUME NEW B \in SUBSET candles, NEW F \in SUBSET B, Calculate(B, F)
      PROVE  CalculatorSees
  BY <1>8 DEF Calculate, Feat!Next
<1>9. ASSUME NEW c \in claimed, Expire(c) PROVE CalculatorSees
  <2>1. {c} \in SUBSET Candle
    BY DEF TypeOK
  <2> QED
    BY <1>9, <2>1 DEF Expire
<1>10. CASE CalculatorLoop
  <2>1. {} \in SUBSET candles
    OBVIOUS
  <2> QED
    BY <1>10, <2>1 DEF CalculatorLoop, Feat!Next
<1>11. CASE Cancel
  BY <1>11 DEF Cancel, UpTogether, Feat!Cancel, Feat!work, Feat!listener, Feat!Next
<1>12. CASE Kill
  <2>1. {} \in SUBSET candles
    OBVIOUS
  <2> QED
    BY <1>12, <2>1 DEF Kill, Feat!Next
<1>13. CASE Restart
  BY <1>13 DEF Restart, Feat!Next
<1>14. CASE UNCHANGED vars
  BY <1>14, <1>0 DEF vars
<1> QED
  BY <1>1, <1>2, <1>4, <1>5, <1>6, <1>7, <1>8, <1>9, <1>10, <1>11, <1>12, <1>13, <1>14
  DEF Next

-----------------------------------------------------------------------------
(* OhlcvAggregationService *)

\* NotifyConsumer's steps keep the types.
LEMMA AggregatorTypes ==
  ASSUME Agg!TypeOK, [Agg!Next]_(Agg!vars)
  PROVE  Agg!TypeOK'
<1> USE DEF Agg!TypeOK, Agg!work, Agg!listener, Agg!Ready, Agg!IsChunk
<1>1. ASSUME NEW S \in SUBSET Candle, Agg!Deliver(S), inserts' \in Nat PROVE Agg!TypeOK'
  BY <1>1 DEF Agg!Deliver, Agg!Listening, Agg!Idle
<1>2. ASSUME NEW S \in SUBSET Candle, Agg!Lock(S), inserts' \in Nat PROVE Agg!TypeOK'
  BY <1>2 DEF Agg!Lock, Agg!Idle
<1>3. ASSUME NEW S \in SUBSET Candle, Agg!Return(S), inserts' \in Nat PROVE Agg!TypeOK'
  BY <1>3 DEF Agg!Return, Agg!Unannounced, Agg!Idle
<1>4. ASSUME NEW S \in SUBSET Candle, Agg!RolledBack(S), inserts' \in Nat PROVE Agg!TypeOK'
  BY <1>4 DEF Agg!RolledBack, Agg!Unannounced, Agg!Idle
<1>5. ASSUME NEW S \in SUBSET Candle, Agg!Done(S), inserts' \in Nat PROVE Agg!TypeOK'
  BY <1>5 DEF Agg!Done, Agg!Idle
<1>6. ASSUME NEW S \in SUBSET Candle, Agg!Chunk(S) PROVE Agg!TypeOK'
  BY <1>6 DEF Agg!Chunk, Agg!AfterChunk
<1>7. ASSUME NEW S \in SUBSET Candle, Agg!ChunkFails(S) PROVE Agg!TypeOK'
  BY <1>7 DEF Agg!ChunkFails, Agg!Orphaned
<1>8. ASSUME NEW S \in SUBSET Candle, Agg!Kill(S) PROVE Agg!TypeOK'
  BY <1>8 DEF Agg!Kill, Agg!Terminate, Agg!Orphaned, Agg!EndWait
<1>9. CASE Agg!Listen
  BY <1>9 DEF Agg!Listen, Agg!AfterListen
<1>10. CASE Agg!Break
  BY <1>10 DEF Agg!Break
<1>11. CASE Agg!BreakNoticed
  BY <1>11 DEF Agg!BreakNoticed, Agg!EndWait
<1>12. CASE Agg!Dry
  BY <1>12 DEF Agg!Dry
<1>13. CASE Agg!WakeUp
  <2>1. asignals' \in Nat
    BY <1>13 DEF Agg!WakeUp, Agg!HasSignal
  <2>2. agaveUp' \in BOOLEAN
    BY Zenon, <1>13 DEF Agg!WakeUp, Agg!EndWait
  <2> QED
    BY <1>13, <2>1, <2>2 DEF Agg!WakeUp, Agg!EndWait
<1>14. CASE Agg!Recheck
  BY <1>14 DEF Agg!Recheck, Agg!RecheckDue, Agg!EndWait
<1>15. CASE Agg!Cancel
  BY <1>15 DEF Agg!Cancel
<1>16. CASE Agg!Stop
  BY <1>16 DEF Agg!Stop, Agg!Terminate, Agg!Orphaned, Agg!EndWait
<1>17. CASE Agg!Restart
  BY <1>17 DEF Agg!Restart
<1>18. CASE UNCHANGED Agg!vars
  BY <1>18 DEF Agg!vars
<1>19. CASE Agg!Others
  <2>1. inserts' \in Nat
    BY <1>19 DEF Agg!Others, Agg!Bounded
  <2> QED
    BY <1>19, <2>1, <1>1, <1>2, <1>3, <1>4, <1>5 DEF Agg!Others, Agg!Bounded
<1> QED
  BY <1>6, <1>7, <1>8, <1>9, <1>10, <1>11, <1>12, <1>13, <1>14, <1>15, <1>16,
     <1>17, <1>18, <1>19
  DEF Agg!Next, Agg!Connecting

\* Only Dry starts a wait without an exception: with nothing left to lock and
\* LISTEN in force.
LEMMA AggregatorIsTold ==
  ASSUME Agg!TypeOK, Agg!NoSleepOnWork, [Agg!Next]_(Agg!vars)
  PROVE  Agg!NoSleepOnWork'
<1> USE DEF Agg!TypeOK, Agg!NoSleepOnWork, Agg!work, Agg!listener, Agg!Ready
<1>1. ASSUME NEW S \in SUBSET Candle, Agg!Deliver(S), inserts' \in Nat PROVE Agg!NoSleepOnWork'
  BY <1>1 DEF Agg!Deliver, Agg!Listening, Agg!Idle
<1>2. ASSUME NEW S \in SUBSET Candle, Agg!Lock(S), inserts' \in Nat PROVE Agg!NoSleepOnWork'
  BY <1>2 DEF Agg!Lock, Agg!Idle
<1>3. ASSUME NEW S \in SUBSET Candle, Agg!Return(S), inserts' \in Nat PROVE Agg!NoSleepOnWork'
  BY <1>3 DEF Agg!Return, Agg!Unannounced, Agg!Idle
<1>4. ASSUME NEW S \in SUBSET Candle, Agg!RolledBack(S), inserts' \in Nat PROVE Agg!NoSleepOnWork'
  BY <1>4 DEF Agg!RolledBack, Agg!Unannounced, Agg!Idle
<1>5. ASSUME NEW S \in SUBSET Candle, Agg!Done(S), inserts' \in Nat PROVE Agg!NoSleepOnWork'
  BY <1>5 DEF Agg!Done, Agg!Idle
<1>6. ASSUME NEW S \in SUBSET Candle, Agg!Chunk(S) PROVE Agg!NoSleepOnWork'
  BY <1>6 DEF Agg!Chunk, Agg!AfterChunk
<1>7. ASSUME NEW S \in SUBSET Candle, Agg!ChunkFails(S) PROVE Agg!NoSleepOnWork'
  BY <1>7 DEF Agg!ChunkFails, Agg!Orphaned
<1>8. ASSUME NEW S \in SUBSET Candle, Agg!Kill(S) PROVE Agg!NoSleepOnWork'
  BY <1>8 DEF Agg!Kill, Agg!Terminate, Agg!Orphaned, Agg!EndWait
<1>9. CASE Agg!Listen
  BY <1>9 DEF Agg!Listen, Agg!AfterListen
<1>10. CASE Agg!Break
  BY <1>10 DEF Agg!Break
<1>11. CASE Agg!BreakNoticed
  BY <1>11 DEF Agg!BreakNoticed, Agg!EndWait
<1>12. CASE Agg!Dry
  BY <1>12 DEF Agg!Dry
<1>13. CASE Agg!WakeUp
  BY <1>13 DEF Agg!WakeUp, Agg!HasSignal, Agg!EndWait
<1>14. CASE Agg!Recheck
  BY <1>14 DEF Agg!Recheck, Agg!RecheckDue, Agg!EndWait
<1>15. CASE Agg!Cancel
  BY <1>15 DEF Agg!Cancel
<1>16. CASE Agg!Stop
  BY <1>16 DEF Agg!Stop, Agg!Terminate, Agg!Orphaned, Agg!EndWait
<1>17. CASE Agg!Restart
  BY <1>17 DEF Agg!Restart
<1>18. CASE UNCHANGED Agg!vars
  BY <1>18 DEF Agg!vars
<1>19. CASE Agg!Others
  <2>1. inserts' \in Nat
    BY <1>19 DEF Agg!Others, Agg!Bounded
  <2> QED
    BY <1>19, <2>1, <1>1, <1>2, <1>3, <1>4, <1>5 DEF Agg!Others, Agg!Bounded
<1> QED
  BY <1>6, <1>7, <1>8, <1>9, <1>10, <1>11, <1>12, <1>13, <1>14, <1>15, <1>16,
     <1>17, <1>18, <1>19
  DEF Agg!Next, Agg!Connecting

-----------------------------------------------------------------------------
(* FeatureCalculationService *)

\* So do they here, with what chunks of minutes and expired claims do.
LEMMA CalculatorTypes ==
  ASSUME Feat!TypeOK, CalculatorSees
  PROVE  Feat!TypeOK'
<1> USE DEF Feat!TypeOK, Feat!work, Feat!listener, Feat!Ready, Feat!IsChunk
<1>1. ASSUME NEW S \in SUBSET Candle, Feat!Deliver(S) PROVE Feat!TypeOK'
  BY <1>1 DEF Feat!Deliver, Feat!Listening, Feat!Idle
<1>2. ASSUME NEW S \in SUBSET Candle, Feat!Lock(S) PROVE Feat!TypeOK'
  BY <1>2 DEF Feat!Lock, Feat!Idle
<1>3. ASSUME NEW S \in SUBSET Candle, Feat!Return(S) PROVE Feat!TypeOK'
  BY <1>3 DEF Feat!Return, Feat!Unannounced, Feat!Idle
<1>4. ASSUME NEW S \in SUBSET Candle, Feat!RolledBack(S) PROVE Feat!TypeOK'
  BY <1>4 DEF Feat!RolledBack, Feat!Unannounced, Feat!Idle
<1>5. ASSUME NEW S \in SUBSET Candle, Feat!Done(S) PROVE Feat!TypeOK'
  BY <1>5 DEF Feat!Done, Feat!Idle
<1>6. ASSUME NEW S \in SUBSET Candle, Feat!Chunk(S) PROVE Feat!TypeOK'
  BY <1>6 DEF Feat!Chunk, Feat!AfterChunk
<1>7. ASSUME NEW S \in SUBSET Candle, Feat!ChunkFails(S) PROVE Feat!TypeOK'
  BY <1>7 DEF Feat!ChunkFails, Feat!Orphaned
<1>8. ASSUME NEW S \in SUBSET Candle, Feat!Kill(S) PROVE Feat!TypeOK'
  BY <1>8 DEF Feat!Kill, Feat!Terminate, Feat!Orphaned, Feat!EndWait
<1>9. CASE Feat!Listen
  BY <1>9 DEF Feat!Listen, Feat!AfterListen
<1>10. CASE Feat!Break
  BY <1>10 DEF Feat!Break
<1>11. CASE Feat!BreakNoticed
  BY <1>11 DEF Feat!BreakNoticed, Feat!EndWait
<1>12. CASE Feat!Dry
  BY <1>12 DEF Feat!Dry
<1>13. CASE Feat!WakeUp
  <2>1. fsignals' \in Nat
    BY <1>13 DEF Feat!WakeUp, Feat!HasSignal
  <2>2. fgaveUp' \in BOOLEAN
    BY Zenon, <1>13 DEF Feat!WakeUp, Feat!EndWait
  <2> QED
    BY <1>13, <2>1, <2>2 DEF Feat!WakeUp, Feat!EndWait
<1>14. CASE Feat!Recheck
  BY <1>14 DEF Feat!Recheck, Feat!RecheckDue, Feat!EndWait
<1>15. CASE Feat!Cancel
  BY <1>15 DEF Feat!Cancel
<1>16. CASE Feat!Stop
  BY <1>16 DEF Feat!Stop, Feat!Terminate, Feat!Orphaned, Feat!EndWait
<1>17. CASE Feat!Restart
  BY <1>17 DEF Feat!Restart
<1>18. CASE UNCHANGED Feat!vars
  BY <1>18 DEF Feat!vars
<1>19. CASE Feat!Others
  BY <1>19, <1>1, <1>2, <1>3, <1>4, <1>5 DEF Feat!Others, Feat!Bounded
<1> QED
  BY <1>1, <1>2, <1>3, <1>4, <1>5, <1>6, <1>7, <1>8, <1>9, <1>10, <1>11,
     <1>12, <1>13, <1>14, <1>15, <1>16, <1>17, <1>18, <1>19
  DEF Feat!Next, Feat!Connecting, CalculatorSees

\* A delivery to a consumer that waits with its connection standing is a
\* signal; what comes back to it otherwise is in funtold.
LEMMA CalculatorIsTold ==
  ASSUME Feat!TypeOK, Feat!NoSleepOnWork, CalculatorSees
  PROVE  Feat!NoSleepOnWork'
<1> USE DEF Feat!TypeOK, Feat!NoSleepOnWork, Feat!work, Feat!listener, Feat!Ready
<1>1. ASSUME NEW S \in SUBSET Candle, Feat!Deliver(S) PROVE Feat!NoSleepOnWork'
  BY <1>1 DEF Feat!Deliver, Feat!Listening, Feat!Idle
<1>2. ASSUME NEW S \in SUBSET Candle, Feat!Lock(S) PROVE Feat!NoSleepOnWork'
  BY <1>2 DEF Feat!Lock, Feat!Idle
<1>3. ASSUME NEW S \in SUBSET Candle, Feat!Return(S) PROVE Feat!NoSleepOnWork'
  BY <1>3 DEF Feat!Return, Feat!Unannounced, Feat!Idle
<1>4. ASSUME NEW S \in SUBSET Candle, Feat!RolledBack(S) PROVE Feat!NoSleepOnWork'
  BY <1>4 DEF Feat!RolledBack, Feat!Unannounced, Feat!Idle
<1>5. ASSUME NEW S \in SUBSET Candle, Feat!Done(S) PROVE Feat!NoSleepOnWork'
  BY <1>5 DEF Feat!Done, Feat!Idle
<1>6. ASSUME NEW S \in SUBSET Candle, Feat!Chunk(S) PROVE Feat!NoSleepOnWork'
  BY <1>6 DEF Feat!Chunk, Feat!AfterChunk
<1>7. ASSUME NEW S \in SUBSET Candle, Feat!ChunkFails(S) PROVE Feat!NoSleepOnWork'
  BY <1>7 DEF Feat!ChunkFails, Feat!Orphaned
<1>8. ASSUME NEW S \in SUBSET Candle, Feat!Kill(S) PROVE Feat!NoSleepOnWork'
  BY <1>8 DEF Feat!Kill, Feat!Terminate, Feat!Orphaned, Feat!EndWait
<1>9. CASE Feat!Listen
  BY <1>9 DEF Feat!Listen, Feat!AfterListen
<1>10. CASE Feat!Break
  BY <1>10 DEF Feat!Break
<1>11. CASE Feat!BreakNoticed
  BY <1>11 DEF Feat!BreakNoticed, Feat!EndWait
<1>12. CASE Feat!Dry
  BY <1>12 DEF Feat!Dry
<1>13. CASE Feat!WakeUp
  BY <1>13 DEF Feat!WakeUp, Feat!HasSignal, Feat!EndWait
<1>14. CASE Feat!Recheck
  BY <1>14 DEF Feat!Recheck, Feat!RecheckDue, Feat!EndWait
<1>15. CASE Feat!Cancel
  BY <1>15 DEF Feat!Cancel
<1>16. CASE Feat!Stop
  BY <1>16 DEF Feat!Stop, Feat!Terminate, Feat!Orphaned, Feat!EndWait
<1>17. CASE Feat!Restart
  BY <1>17 DEF Feat!Restart
<1>18. CASE UNCHANGED Feat!vars
  BY <1>18 DEF Feat!vars
<1>19. CASE Feat!Others
  BY <1>19, <1>1, <1>2, <1>3, <1>4, <1>5 DEF Feat!Others, Feat!Bounded
<1> QED
  BY <1>1, <1>2, <1>3, <1>4, <1>5, <1>6, <1>7, <1>8, <1>9, <1>10, <1>11,
     <1>12, <1>13, <1>14, <1>15, <1>16, <1>17, <1>18, <1>19
  DEF Feat!Next, Feat!Connecting, CalculatorSees

-----------------------------------------------------------------------------
(* The process *)

\* Both queues may hold work when the process starts.
LEMMA InitTypes == Init => TypeOK
<1> SUFFICES ASSUME Init PROVE Agg!TypeOK /\ Feat!TypeOK /\ chunk \subseteq Candle
                              /\ claimed \subseteq Candle
  BY DEF TypeOK
<1>1. /\ minutes \in SUBSET Candle /\ aheld = {} /\ auntold = {}
      /\ inserts = 0 /\ asignals = 0
      /\ candles \in SUBSET Candle /\ upserts = {} /\ funtold = {}
      /\ fsignals = 0
  BY DEF Init, Agg!Init, Feat!Init
<1>2. /\ apc = "connect" /\ fpc = "connect"
      /\ aalive \in BOOLEAN /\ agaveUp \in BOOLEAN
      /\ falive \in BOOLEAN /\ fgaveUp \in BOOLEAN
      /\ stopping \in BOOLEAN
  BY Zenon DEF Init, Agg!Init, Feat!Init
<1>3. Agg!TypeOK
  BY <1>1, <1>2 DEF Agg!TypeOK
<1>4. Feat!TypeOK
  BY <1>1, <1>2 DEF Feat!TypeOK
<1>5. chunk \subseteq Candle /\ claimed \subseteq Candle
  BY DEF Init
<1> QED
  BY <1>3, <1>4, <1>5

\* chunk and claimed hold candles.
LEMMA OwnTypes ==
  ASSUME TypeOK, [Next]_vars
  PROVE  chunk' \subseteq Candle /\ claimed' \subseteq Candle
<1> USE DEF TypeOK, Agg!TypeOK, Feat!TypeOK, aggregator, calculator
<1>1. CASE InsertTicks
  BY <1>1 DEF InsertTicks
<1>2. CASE Aggregate
  BY <1>2 DEF Aggregate, BeginUpsert
<1>3. CASE CommitChunk
  BY <1>3 DEF CommitChunk, Publish
<1>4. ASSUME NEW S \in SUBSET aheld, OrphanRollsBack(S) \/ OrphanCommits(S)
      PROVE  chunk' \subseteq Candle /\ claimed' \subseteq Candle
  BY <1>4 DEF OrphanRollsBack, OrphanCommits, Publish
<1>5. CASE AggregatorLoop /\ UNCHANGED <<calculator, claimed>>
  BY <1>5 DEF AggregatorLoop
<1>6. ASSUME NEW B \in SUBSET candles, NEW F \in SUBSET B, Calculate(B, F)
      PROVE  chunk' \subseteq Candle /\ claimed' \subseteq Candle
  BY <1>6 DEF Calculate
<1>7. ASSUME NEW c \in claimed, Expire(c)
      PROVE  chunk' \subseteq Candle /\ claimed' \subseteq Candle
  BY <1>7 DEF Expire
<1>8. CASE CalculatorLoop /\ UNCHANGED <<aggregator, chunk, claimed>>
  BY <1>8
<1>9. CASE Cancel \/ Kill \/ Restart
  BY <1>9 DEF Cancel, Kill, Restart
<1>10. CASE UNCHANGED vars
  BY <1>10 DEF vars
<1> QED
  BY <1>1, <1>2, <1>3, <1>4, <1>5, <1>6, <1>7, <1>8, <1>9, <1>10 DEF Next

\* A consumer stops of its own only when the token is cancelled; a kill and a
\* start take both.
LEMMA StayTogether ==
  ASSUME UpTogether, [Next]_vars
  PROVE  UpTogether'
<1> USE DEF UpTogether, aggregator, calculator
<1>1. CASE InsertTicks
  BY <1>1 DEF InsertTicks, Agg!Bounded, Agg!Deliver, Agg!Idle
<1>2. CASE Aggregate
  BY <1>2 DEF Aggregate, BeginUpsert
<1>3. ASSUME NEW W, Publish(W) PROVE UNCHANGED fpc
  BY <1>3 DEF Publish, NewCandles, Feat!Deliver, Feat!Idle
<1>4. CASE CommitChunk
  BY <1>4, <1>3 DEF CommitChunk, Agg!Chunk, Agg!AfterChunk
<1>5. ASSUME NEW S \in SUBSET aheld, OrphanRollsBack(S) \/ OrphanCommits(S)
      PROVE  UpTogether'
  BY <1>5, <1>3 DEF OrphanRollsBack, OrphanCommits, Agg!RolledBack, Agg!Done,
     Agg!Unannounced, Agg!Idle, Feat!RolledBack, Feat!Unannounced, Feat!Idle
<1>6. CASE AggregatorLoop /\ UNCHANGED <<calculator, claimed>>
  BY <1>6
    DEF AggregatorLoop, Agg!Connecting, Agg!Listen, Agg!AfterListen,
        Agg!Break, Agg!BreakNoticed, Agg!EndWait, Agg!Dry, Agg!ChunkFails,
        Agg!WakeUp, Agg!Recheck, Agg!RecheckDue, Agg!Stop, Agg!Terminate
<1>7. ASSUME NEW B \in SUBSET candles, NEW F \in SUBSET B, Calculate(B, F)
      PROVE  UpTogether'
  BY <1>7 DEF Calculate, Feat!Chunk, Feat!AfterChunk
<1>8. ASSUME NEW c \in claimed, Expire(c) PROVE UpTogether'
  BY <1>8 DEF Expire, Feat!Return, Feat!Unannounced, Feat!Idle
<1>9. CASE CalculatorLoop /\ UNCHANGED <<aggregator, chunk, claimed>>
  BY <1>9
    DEF CalculatorLoop, Feat!Connecting, Feat!Listen, Feat!AfterListen,
        Feat!Break, Feat!BreakNoticed, Feat!EndWait, Feat!Dry,
        Feat!ChunkFails, Feat!WakeUp, Feat!Recheck, Feat!RecheckDue,
        Feat!Stop, Feat!Terminate
<1>10. CASE Cancel
  BY <1>10 DEF Cancel
<1>11. CASE Kill
  BY <1>11 DEF Kill, Agg!Kill, Agg!Terminate, Feat!Kill, Feat!Terminate
<1>12. CASE Restart
  BY <1>12 DEF Restart, Agg!Restart, Feat!Restart
<1>13. CASE UNCHANGED vars
  BY <1>13 DEF vars
<1> QED
  BY <1>1, <1>2, <1>4, <1>5, <1>6, <1>7, <1>8, <1>9, <1>10, <1>11, <1>12, <1>13 DEF Next

\* Inserts only add minutes, orphans end with minutes of their own, and the
\* aggregator does nothing else while it waits for its chunk.
LEMMA ChunkStays ==
  ASSUME ChunkInFlight, [Next]_vars
  PROVE  ChunkInFlight'
<1> USE DEF ChunkInFlight, Agg!IsChunk, Agg!Ready
<1>1. CASE InsertTicks
  BY <1>1 DEF InsertTicks, Agg!Bounded, Agg!Deliver, Agg!Idle
<1>2. CASE Aggregate
  BY <1>2 DEF Aggregate, BeginUpsert, aggregator
<1>3. CASE CommitChunk
  BY <1>3 DEF CommitChunk
<1>4. ASSUME NEW S \in SUBSET aheld, OrphanRollsBack(S) \/ OrphanCommits(S)
      PROVE  ChunkInFlight'
  BY <1>4 DEF OrphanRollsBack, OrphanCommits, Agg!RolledBack, Agg!Done,
     Agg!Unannounced, Agg!Idle
<1>5. CASE AggregatorLoop
  BY <1>5 DEF AggregatorLoop, Agg!Connecting, Agg!Listen, Agg!Break, Agg!BreakNoticed,
     Agg!WakeUp, Agg!Recheck, Agg!RecheckDue, Agg!work
<1>6. ASSUME NEW B \in SUBSET candles, NEW F \in SUBSET B, Calculate(B, F)
      PROVE  ChunkInFlight'
  BY <1>6 DEF Calculate, aggregator
<1>7. ASSUME NEW c \in claimed, Expire(c) PROVE ChunkInFlight'
  BY <1>7 DEF Expire, aggregator
<1>8. CASE CalculatorLoop /\ UNCHANGED <<aggregator, chunk, claimed>>
  BY <1>8 DEF aggregator
<1>9. CASE Cancel
  BY <1>9 DEF Cancel, aggregator
<1>10. CASE Kill
  BY <1>10 DEF Kill
<1>11. CASE Restart
  BY <1>11 DEF Restart, Agg!Restart
<1>12. CASE UNCHANGED vars
  BY <1>12 DEF vars, aggregator
<1> QED
  BY <1>1, <1>2, <1>3, <1>4, <1>5, <1>6, <1>7, <1>8, <1>9, <1>10, <1>11, <1>12 DEF Next

\* The inductive invariant, in every reachable state.
THEOREM Invariance == Spec => []IInv
<1>1. Init => UpTogether /\ ChunkInFlight /\ BothAreTold
  BY DEF Init, Agg!Init, Feat!Init, UpTogether, ChunkInFlight, BothAreTold,
     Agg!NoSleepOnWork, Feat!NoSleepOnWork
<1>2. ASSUME IInv, [Next]_vars PROVE IInv'
  <2>1. [Agg!Next]_(Agg!vars) /\ CalculatorSees
    BY <1>2, AggregatorStep, CalculatorStep DEF IInv
  <2>2. TypeOK'
    BY <1>2, <2>1, AggregatorTypes, CalculatorTypes, OwnTypes DEF IInv, TypeOK
  <2>3. UpTogether' /\ ChunkInFlight'
    BY <1>2, StayTogether, ChunkStays DEF IInv
  <2>4. BothAreTold'
    BY <1>2, <2>1, AggregatorIsTold, CalculatorIsTold DEF IInv, TypeOK, BothAreTold
  <2> QED
    BY <2>2, <2>3, <2>4 DEF IInv
<1> QED
  BY InitTypes, <1>1, <1>2, PTL DEF Spec, IInv

\* Every variable keeps its type.
THEOREM FlowTypes == Spec => []TypeOK
BY Invariance, PTL DEF IInv

\* Neither consumer waits, told of nothing, while its queue holds work that it
\* could take, unless it came back unannounced during this wait: the commit
\* that makes candles 'new' wakes FeatureCalculationService if its LISTEN is
\* in force, whoever still waits for that commit, and if it is not, the drain
\* after LISTEN finds them.
THEOREM NeitherSleepsOnWork == Spec => []BothAreTold
BY Invariance, PTL DEF IInv

\* OhlcvAggregationService in the Worker process is a NotifyConsumer: the
\* stops, kills and starts it shares with FeatureCalculationService, and that
\* service's steps, do nothing to it that NotifyConsumer does not allow; its
\* chunks, transactions of several steps here, are taken when they commit.
THEOREM AggregatorIsAConsumer == Spec => Agg!Spec
<1>1. Init => Agg!Init
  BY DEF Init
<1>2. IInv /\ [Next]_vars => [Agg!Next]_(Agg!vars)
  BY AggregatorStep DEF IInv
<1> QED
  BY <1>1, <1>2, Invariance, PTL DEF Spec, Agg!Spec
=============================================================================
