------------------------ MODULE NotifyConsumerProofs ------------------------
(***************************************************************************)
(* Proofs about NotifyConsumer, for any items, chunk size and number of    *)
(* other transactions.  NoSleepOnWork is inductive together with the       *)
(* types: only Dry starts a wait without an exception, it does so with     *)
(* LISTEN in force and nothing left that it could lock, and what is work   *)
(* again after that has a notification or is in untold.                    *)
(***************************************************************************)
EXTENDS NotifyConsumer, TLAPS

LEMMA TypesInductive == TypeOK /\ [Next]_vars => TypeOK'
<1> SUFFICES ASSUME TypeOK, [Next]_vars PROVE TypeOK'
  OBVIOUS
<1> USE DEF TypeOK, work, listener, Ready, IsChunk
<1>1. ASSUME NEW S \in SUBSET Item, Deliver(S), posts' \in Nat PROVE TypeOK'
  BY <1>1 DEF Deliver, Listening, Idle
<1>2. ASSUME NEW S \in SUBSET Item, Lock(S), posts' \in Nat PROVE TypeOK'
  BY <1>2 DEF Lock, Idle
<1>3. ASSUME NEW S \in SUBSET Item, Return(S), posts' \in Nat PROVE TypeOK'
  BY <1>3 DEF Return, Unannounced, Idle
<1>4. ASSUME NEW S \in SUBSET Item, RolledBack(S), posts' \in Nat PROVE TypeOK'
  BY <1>4 DEF RolledBack, Unannounced, Idle
<1>5. ASSUME NEW S \in SUBSET Item, Done(S), posts' \in Nat PROVE TypeOK'
  BY <1>5 DEF Done, Idle
<1>6. ASSUME NEW S \in SUBSET Item, Chunk(S) PROVE TypeOK'
  BY <1>6 DEF Chunk, AfterChunk
<1>7. ASSUME NEW S \in SUBSET Item, ChunkFails(S) PROVE TypeOK'
  BY <1>7 DEF ChunkFails, Orphaned
<1>8. ASSUME NEW S \in SUBSET Item, Kill(S) PROVE TypeOK'
  BY <1>8 DEF Kill, Terminate, Orphaned, EndWait
<1>9. CASE Listen
  BY <1>9 DEF Listen, AfterListen
<1>10. CASE Break
  BY <1>10 DEF Break
<1>11. CASE BreakNoticed
  BY <1>11 DEF BreakNoticed, EndWait
<1>12. CASE Dry
  BY <1>12 DEF Dry
<1>13. CASE WakeUp
  <2>1. signals' \in Nat
    BY <1>13 DEF WakeUp, HasSignal
  <2>2. gaveUp' \in BOOLEAN
    BY Zenon, <1>13 DEF WakeUp, EndWait
  <2> QED
    BY <1>13, <2>1, <2>2 DEF WakeUp, EndWait
<1>14. CASE Recheck
  BY <1>14 DEF Recheck, RecheckDue, EndWait
<1>15. CASE Cancel
  BY <1>15 DEF Cancel
<1>16. CASE Stop
  BY <1>16 DEF Stop, Terminate, Orphaned, EndWait
<1>17. CASE Restart
  BY <1>17 DEF Restart
<1>18. CASE UNCHANGED vars
  BY <1>18 DEF vars
<1>19. CASE Others
  <2>1. posts' \in Nat
    BY <1>19 DEF Others, Bounded
  <2> QED
    BY <1>19, <2>1, <1>1, <1>2, <1>3, <1>4, <1>5 DEF Others, Bounded
<1> QED
  BY <1>6, <1>7, <1>8, <1>9, <1>10, <1>11, <1>12, <1>13, <1>14, <1>15, <1>16,
     <1>17, <1>18, <1>19
  DEF Next, Connecting

\* Every variable keeps its type.
THEOREM ConsumerTypes == Spec => []TypeOK
<1>1. Init => TypeOK
  <2> SUFFICES ASSUME Init PROVE TypeOK
    OBVIOUS
  <2>1. /\ queue \subseteq Item /\ held \subseteq Item /\ untold \subseteq Item
        /\ posts \in Nat /\ signals \in Nat
    <3>1. /\ queue \in SUBSET Item /\ held = {} /\ untold = {}
          /\ posts = 0 /\ signals = 0
      BY DEF Init
    <3> QED
      BY <3>1
  <2>2. /\ pc = "connect"
        /\ alive \in BOOLEAN /\ gaveUp \in BOOLEAN /\ stopping \in BOOLEAN
    BY Zenon DEF Init
  <2> QED
    BY <2>1, <2>2 DEF TypeOK
<1> QED
  BY <1>1, TypesInductive, PTL DEF Spec

\* A waiting consumer with a standing connection has a notification for the
\* work it could take, unless its last drain failed or the work came back
\* unannounced during this wait: LISTEN before the drain leaves no gap,
\* whatever the queue, the chunk size, the locks and the interleaving.
THEOREM WaitsOnlyWhenTold == Spec => []NoSleepOnWork
<1>1. Init => NoSleepOnWork
  BY DEF Init, NoSleepOnWork
<1>2. TypeOK /\ NoSleepOnWork /\ [Next]_vars => NoSleepOnWork'
  <2> SUFFICES ASSUME TypeOK, NoSleepOnWork, [Next]_vars PROVE NoSleepOnWork'
    OBVIOUS
  <2> USE DEF TypeOK, NoSleepOnWork, work, listener, Ready
  <2>1. ASSUME NEW S \in SUBSET Item, Deliver(S), posts' \in Nat PROVE NoSleepOnWork'
    BY <2>1 DEF Deliver, Listening, Idle
  <2>2. ASSUME NEW S \in SUBSET Item, Lock(S), posts' \in Nat PROVE NoSleepOnWork'
    BY <2>2 DEF Lock, Idle
  <2>3. ASSUME NEW S \in SUBSET Item, Return(S), posts' \in Nat PROVE NoSleepOnWork'
    BY <2>3 DEF Return, Unannounced, Idle
  <2>4. ASSUME NEW S \in SUBSET Item, RolledBack(S), posts' \in Nat PROVE NoSleepOnWork'
    BY <2>4 DEF RolledBack, Unannounced, Idle
  <2>5. ASSUME NEW S \in SUBSET Item, Done(S), posts' \in Nat PROVE NoSleepOnWork'
    BY <2>5 DEF Done, Idle
  <2>6. ASSUME NEW S \in SUBSET Item, Chunk(S) PROVE NoSleepOnWork'
    BY <2>6 DEF Chunk, AfterChunk
  <2>7. ASSUME NEW S \in SUBSET Item, ChunkFails(S) PROVE NoSleepOnWork'
    BY <2>7 DEF ChunkFails, Orphaned
  <2>8. ASSUME NEW S \in SUBSET Item, Kill(S) PROVE NoSleepOnWork'
    BY <2>8 DEF Kill, Terminate, Orphaned, EndWait
  <2>9. CASE Listen
    BY <2>9 DEF Listen, AfterListen
  <2>10. CASE Break
    BY <2>10 DEF Break
  <2>11. CASE BreakNoticed
    BY <2>11 DEF BreakNoticed, EndWait
  <2>12. CASE Dry
    BY <2>12 DEF Dry
  <2>13. CASE WakeUp
    BY <2>13 DEF WakeUp, HasSignal, EndWait
  <2>14. CASE Recheck
    BY <2>14 DEF Recheck, RecheckDue, EndWait
  <2>15. CASE Cancel
    BY <2>15 DEF Cancel
  <2>16. CASE Stop
    BY <2>16 DEF Stop, Terminate, Orphaned, EndWait
  <2>17. CASE Restart
    BY <2>17 DEF Restart
  <2>18. CASE UNCHANGED vars
    BY <2>18 DEF vars
  <2>19. CASE Others
    <3>1. posts' \in Nat
      BY <2>19 DEF Others, Bounded
    <3> QED
      BY <2>19, <3>1, <2>1, <2>2, <2>3, <2>4, <2>5 DEF Others, Bounded
  <2> QED
    BY <2>6, <2>7, <2>8, <2>9, <2>10, <2>11, <2>12, <2>13, <2>14, <2>15,
       <2>16, <2>17, <2>18, <2>19
    DEF Next, Connecting
<1> QED
  BY <1>1, <1>2, ConsumerTypes, PTL DEF Spec
=============================================================================
