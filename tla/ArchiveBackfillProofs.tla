------------------------ MODULE ArchiveBackfillProofs ------------------------
(***************************************************************************)
(* Proofs about ArchiveBackfill, for any days, thresholds, import slots    *)
(* and number of retries.                                                  *)
(*                                                                         *)
(* The argument.  While seals are reconciled, every import there is was    *)
(* asked for after the check for imports or waited for a retry then, that  *)
(* is, it is in unseen (ReconcilingUnseen); so a month that gets its seal  *)
(* has no other imports, and neither has one that still has it or that is  *)
(* about to be moved (SealedUnseen).  An import that is about to insert    *)
(* into an empty month has ensured it on the fast disk, and what has       *)
(* happened to the month since has made it late (EnsuredOnHot).            *)
(***************************************************************************)
EXTENDS ArchiveBackfill, FiniteSetTheorems, TLAPS

\* A slot that holds a job holds its day.
JobsHaveDays == \A i \in Import : job[i].state # "none" => job[i].day \in Day

\* A month that was judged whole is in the log, which only grows.
VerdictInLog ==
    reconciler.at = "judged" /\ reconciler.whole => reconciler.month \in {d[1] : d \in log}

ReconcilingUnseen ==
    reconciler.at # "idle" => \A i \in Import : job[i].state # "none" => i \in unseen

SealedUnseen ==
    \A i \in Import :
        job[i].state # "none" /\ MonthOf(i) \in sealed \cup moving => i \in unseen

EnsuredOnHot ==
    \A i \in Import :
        Running(i, {"insert"}) /\ MonthOf(i) \notin filled /\ MonthOf(i) \in cold => i \in late

IInv ==
    /\ TypeOK
    /\ JobsHaveDays
    /\ VerdictInLog
    /\ ReconcilingUnseen
    /\ SealedUnseen
    /\ EnsuredOnHot

-----------------------------------------------------------------------------
(* Slots *)

\* Records of jobs.
LEMMA NoJobType ==
  NoJob \in JobRecord /\ NoJob.state = "none" /\ NoJob.at = "open"
BY BackfillAssumption DEF NoJob, JobRecord

\* What the reconciler starts its round with, and goes on with after a seal.
LEMMA ReconcilerFields ==
  ASSUME NEW todo \in SUBSET Month, NEW whole \in BOOLEAN
  PROVE  [at |-> "months", todo |-> todo, month |-> 0, whole |-> whole]
           \in [at: {"idle", "months", "judged"}, todo: SUBSET Month,
                month: Month \cup {0}, whole: BOOLEAN]
OBVIOUS

LEMMA MonthOfJob ==
  ASSUME IInv, NEW i \in Import, job[i].state # "none"
  PROVE  job[i] \in JobRecord /\ job[i].day \in Day /\ MonthOf(i) \in Month
BY DEF IInv, TypeOK, JobsHaveDays, MonthOf, Month

\* An import is in unseen, or nobody reconciles and its month has no seal and is
\* not about to be moved.
LEMMA SeenOrFree ==
  ASSUME IInv, NEW i \in Import, job[i].state # "none"
  PROVE  i \in unseen \/ (reconciler.at = "idle" /\ job[i].day[1] \notin sealed \cup moving)
BY DEF IInv, ReconcilingUnseen, SealedUnseen, MonthOf

\* A step of an import's slot answers for that import only: it may take months
\* back to the fast disk, fill them and add to the log.
LEMMA SlotStep ==
  ASSUME IInv, NEW i \in Import, NEW r \in JobRecord, Set(i, r),
         r.state # "none" => r.day \in Day,
         r.state # "none" =>
            i \in unseen' \/ (reconciler.at = "idle" /\ r.day[1] \notin sealed \cup moving),
         r.state = "Processing" /\ r.at = "insert"
            /\ r.day[1] \notin filled' /\ r.day[1] \in cold' => i \in late',
         filled \subseteq filled', filled' \subseteq Month, dirty' \subseteq Month,
         log \subseteq log', log' \subseteq Day, cold' \subseteq cold,
         unseen \ {i} \subseteq unseen', unseen' \subseteq Import,
         late \ {i} \subseteq late', late' \subseteq Import,
         UNCHANGED <<age, sealed, reconciler, moving>>
  PROVE  IInv'
<1> USE DEF IInv
<1>1. job \in [Import -> JobRecord] /\ job' = [job EXCEPT ![i] = r]
  BY DEF TypeOK, Set
<1>2. job'[i] = r /\ \A k \in Import \ {i} : job'[k] = job[k]
  BY <1>1
<1>3. TypeOK'
  <2>1. job' \in [Import -> JobRecord]
    BY <1>1
  <2>2. sealed' \subseteq {d[1] : d \in log'}
    BY DEF TypeOK
  <2> QED
    BY <2>1, <2>2 DEF TypeOK
<1>4. JobsHaveDays'
  BY <1>2 DEF JobsHaveDays
<1>5. VerdictInLog'
  BY DEF VerdictInLog
<1>6. ReconcilingUnseen'
  BY <1>2 DEF ReconcilingUnseen
<1>7. SealedUnseen'
  BY <1>2 DEF SealedUnseen, MonthOf
<1>8. EnsuredOnHot'
  BY <1>2 DEF EnsuredOnHot, Running, MonthOf
<1> QED
  BY <1>3, <1>4, <1>5, <1>6, <1>7, <1>8

LEMMA RequestIInv ==
  ASSUME IInv, NEW i \in Import, Request(i)
  PROVE  IInv'
<1>1. PICK d \in Day :
          /\ Set(i, [NoJob EXCEPT !.state = "Enqueued", !.day = d])
          /\ unseen' = IF reconciler.at # "idle" \/ d[1] \in sealed \cup moving
                       THEN unseen \cup {i} ELSE unseen
  BY DEF Request
<1> DEFINE r == [NoJob EXCEPT !.state = "Enqueued", !.day = d]
<1>2. r \in JobRecord /\ r.state = "Enqueued" /\ r.day = d
  BY NoJobType DEF JobRecord
<1>3. Set(i, r)
  BY <1>1
<1> HIDE DEF r
<1> QED
  BY <1>1, <1>2, <1>3, SlotStep DEF Request, tables, IInv, TypeOK

LEMMA StartIInv ==
  ASSUME IInv, NEW i \in Import, Start(i)
  PROVE  IInv'
<1> DEFINE r == [job[i] EXCEPT !.state = "Processing", !.at = "open"]
<1>1. job[i] \in JobRecord /\ job[i].state # "none"
  BY MonthOfJob DEF Start
<1>2. r \in JobRecord /\ r.state = "Processing" /\ r.at = "open" /\ r.day = job[i].day
  BY <1>1 DEF JobRecord
<1>3. Set(i, r)
  BY DEF Start
<1> HIDE DEF r
<1> QED
  BY <1>1, <1>2, <1>3, MonthOfJob, SeenOrFree, SlotStep DEF Start, tables, history, IInv, TypeOK

LEMMA RetryDueIInv ==
  ASSUME IInv, NEW i \in Import, RetryDue(i)
  PROVE  IInv'
<1> DEFINE r == [job[i] EXCEPT !.state = "Enqueued"]
<1>1. job[i] \in JobRecord /\ job[i].state # "none"
  BY MonthOfJob DEF RetryDue
<1>2. r \in JobRecord /\ r.state = "Enqueued" /\ r.day = job[i].day
  BY <1>1 DEF JobRecord
<1>3. Set(i, r)
  BY DEF RetryDue
<1> HIDE DEF r
<1> QED
  BY <1>1, <1>2, <1>3, MonthOfJob, SeenOrFree, SlotStep DEF RetryDue, tables, history, IInv, TypeOK

LEMMA PauseIInv ==
  ASSUME IInv, NEW i \in Import, Pause(i)
  PROVE  IInv'
<1> DEFINE r == [job[i] EXCEPT !.at = "paused"]
<1>1. job[i] \in JobRecord /\ job[i].state # "none"
  BY MonthOfJob DEF Pause, Running
<1>2. r \in JobRecord /\ r.state = job[i].state /\ r.at = "paused" /\ r.day = job[i].day
  BY <1>1 DEF JobRecord
<1>3. Set(i, r)
  BY DEF Pause
<1> HIDE DEF r
<1> QED
  BY <1>1, <1>2, <1>3, MonthOfJob, SeenOrFree, SlotStep DEF Pause, tables, history, IInv, TypeOK

\* An empty month comes back to the fast disk before its import goes on.
LEMMA EnsureIInv ==
  ASSUME IInv, NEW i \in Import, Ensure(i)
  PROVE  IInv'
<1> DEFINE r == [job[i] EXCEPT !.at = "insert"]
<1>1. job[i] \in JobRecord /\ job[i].state # "none"
  BY MonthOfJob DEF Ensure, Running
<1>2. r \in JobRecord /\ r.state = job[i].state /\ r.at = "insert" /\ r.day = job[i].day
  BY <1>1 DEF JobRecord
<1>3. Set(i, r)
  BY DEF Ensure
<1> HIDE DEF r
<1>4. cold' \subseteq cold /\ (MonthOf(i) \notin filled => MonthOf(i) \notin cold')
  BY DEF Ensure, Rehydrated
<1> QED
  BY <1>1, <1>2, <1>3, <1>4, MonthOfJob, SeenOrFree, SlotStep
     DEF Ensure, tables, history, MonthOf, IInv, TypeOK

LEMMA InsertBatchIInv ==
  ASSUME IInv, NEW i \in Import, InsertBatch(i)
  PROVE  IInv'
<1> DEFINE r == [job[i] EXCEPT !.at = "open"]
<1>1. job[i] \in JobRecord /\ job[i].state # "none" /\ MonthOf(i) \in Month
  BY MonthOfJob DEF InsertBatch, Running
<1>2. r \in JobRecord /\ r.state = job[i].state /\ r.at = "open" /\ r.day = job[i].day
  BY <1>1 DEF JobRecord
<1>3. Set(i, r)
  BY DEF InsertBatch
<1> HIDE DEF r
<1>4. filled' \subseteq Month /\ dirty' \subseteq Month
  BY <1>1 DEF InsertBatch, IInv, TypeOK
<1> QED
  BY <1>1, <1>2, <1>3, <1>4, MonthOfJob, SeenOrFree, SlotStep DEF InsertBatch, IInv, TypeOK

LEMMA FinishIInv ==
  ASSUME IInv, NEW i \in Import, Finish(i)
  PROVE  IInv'
<1>1. job[i].day \in Day
  BY MonthOfJob DEF Finish, Running
<1>2. log \subseteq log' /\ log' \subseteq Day
  BY <1>1 DEF Finish, IInv, TypeOK
<1> QED
  BY <1>2, NoJobType, SlotStep DEF Finish, Ends, IInv, TypeOK

LEMMA FailIInv ==
  ASSUME IInv, NEW i \in Import, Fail(i)
  PROVE  IInv'
<1> USE DEF Fail
<1>1. CASE /\ TriesLeft(i)
           /\ Set(i, [job[i] EXCEPT !.state = "Scheduled", !.at = "open", !.tries = @ + 1])
           /\ UNCHANGED unseen
  <2> DEFINE r == [job[i] EXCEPT !.state = "Scheduled", !.at = "open", !.tries = @ + 1]
  <2>1. job[i] \in JobRecord /\ job[i].state # "none"
    BY MonthOfJob
  <2>2. job[i].tries + 1 \in 0 .. Attempts
    BY <1>1, <2>1, BackfillAssumption DEF JobRecord, TriesLeft
  <2>3. r \in JobRecord /\ r.state = "Scheduled" /\ r.day = job[i].day
    BY <2>1, <2>2 DEF JobRecord
  <2>4. Set(i, r)
    BY <1>1
  <2> HIDE DEF r
  <2> QED
    BY <1>1, <2>1, <2>3, <2>4, MonthOfJob, SeenOrFree, SlotStep DEF tables, IInv, TypeOK
<1>2. CASE Ends(i)
  BY <1>2, NoJobType, SlotStep DEF Ends, tables, IInv, TypeOK
<1> QED
  BY <1>1, <1>2

-----------------------------------------------------------------------------
(* Months *)

\* A step that leaves the jobs alone answers for the months.
LEMMA MonthStep ==
  ASSUME IInv, UNCHANGED job, TypeOK', VerdictInLog',
         unseen \subseteq unseen', late \subseteq late',
         reconciler'.at # "idle" =>
            reconciler.at # "idle" \/ \A i \in Import : job[i].state # "none" => i \in unseen',
         \A m \in sealed' \cup moving' : m \in sealed \cup moving \/ reconciler.at # "idle",
         \A i \in Import :
            /\ Running(i, {"insert"})
            /\ MonthOf(i) \notin filled' /\ MonthOf(i) \in cold'
            /\ MonthOf(i) \in filled \/ MonthOf(i) \notin cold
            => i \in late'
  PROVE  IInv'
<1> USE DEF IInv
<1>1. JobsHaveDays'
  BY DEF JobsHaveDays
<1>2. ReconcilingUnseen'
  BY DEF ReconcilingUnseen
<1>3. SealedUnseen'
  BY DEF SealedUnseen, ReconcilingUnseen, MonthOf
<1>4. EnsuredOnHot'
  BY DEF EnsuredOnHot, Running, MonthOf
<1> QED
  BY <1>1, <1>2, <1>3, <1>4

\* The newest candle's age, the minutes of a month.
LEMMA PipelineIInv ==
  ASSUME IInv, FreshCandle \/ TimePasses \/ \E m \in Month : Process(m)
  PROVE  IInv'
<1>1. /\ UNCHANGED <<job, filled, log, sealed, cold, reconciler, moving, history>>
      /\ age' \in 0 .. MaxAge /\ dirty' \subseteq Month
  BY BackfillAssumption DEF FreshCandle, TimePasses, Process, tables, IInv, TypeOK
<1>2. TypeOK'
  BY <1>1 DEF IInv, TypeOK, history
<1>3. VerdictInLog'
  BY <1>1 DEF IInv, VerdictInLog
<1> QED
  BY <1>1, <1>2, <1>3, MonthStep DEF history

\* An import that has ensured a month which is emptied is late to it.
LEMMA EmptyIInv ==
  ASSUME IInv, NEW m \in Month, Empty(m)
  PROVE  IInv'
<1> USE DEF Empty
<1>1. TypeOK'
  BY DEF IInv, TypeOK, LateTo
<1>2. VerdictInLog'
  BY DEF IInv, VerdictInLog
<1>3. \A i \in Import : Running(i, {"insert"}) /\ MonthOf(i) \notin filled' =>
         MonthOf(i) \notin filled \/ i \in late'
  BY DEF LateTo
<1> QED
  BY <1>1, <1>2, <1>3, MonthStep

\* No import is enqueued or running; those that wait for a retry are noted.
LEMMA LookForImportsIInv ==
  ASSUME IInv, LookForImports
  PROVE  IInv'
<1> USE DEF LookForImports, tables
<1>1. /\ reconciler' = [at |-> "months", todo |-> {d[1] : d \in log}, month |-> 0, whole |-> FALSE]
      /\ {d[1] : d \in log} \subseteq Month
  <2>1. reconciler' = [at |-> "months", todo |-> {d[1] : d \in log}, month |-> 0, whole |-> FALSE]
    BY DEF Resting
  <2>2. {d[1] : d \in log} \subseteq Month
    BY DEF IInv, TypeOK, Month
  <2> QED
    BY <2>1, <2>2
<1>2. TypeOK'
  <2>1. reconciler' \in [at: {"idle", "months", "judged"}, todo: SUBSET Month,
                         month: Month \cup {0}, whole: BOOLEAN]
    <3> DEFINE months == {d[1] : d \in log}
    <3>1. /\ reconciler' = [at |-> "months", todo |-> months, month |-> 0, whole |-> FALSE]
          /\ months \subseteq Month
      BY <1>1
    <3>2. FALSE \in BOOLEAN
      OBVIOUS
    <3> HIDE DEF months
    <3> QED
      BY <3>1, <3>2, ReconcilerFields
  <2>2. unseen' \subseteq Import
    BY DEF IInv, TypeOK, Waiting
  <2> QED
    BY <2>1, <2>2 DEF IInv, TypeOK
<1>3. VerdictInLog'
  BY <1>1 DEF VerdictInLog
<1>4. \A i \in Import : job[i].state # "none" => i \in unseen'
  BY DEF InFlight, Waiting, IInv, TypeOK, JobRecord
<1> QED
  BY <1>2, <1>3, <1>4, MonthStep

\* Only a month of the log is judged whole.
LEMMA JudgeMonthIInv ==
  ASSUME IInv, NEW m \in Month, JudgeMonth(m)
  PROVE  IInv'
<1> USE DEF JudgeMonth, tables, history
<1>1. Complete(m) \in BOOLEAN
  BY DEF Complete, Contiguous
<1>2. TypeOK'
  BY <1>1 DEF IInv, TypeOK
<1>3. VerdictInLog'
  BY DEF VerdictInLog, Complete, InLog
<1> QED
  BY <1>2, <1>3, MonthStep

\* A month gets its seal while every import there is, is unseen.
LEMMA WriteSealIInv ==
  ASSUME IInv, NEW m \in Month, WriteSeal(m)
  PROVE  IInv'
<1> USE DEF WriteSeal, tables, history
<1>1. reconciler' = [at |-> "months", todo |-> reconciler.todo, month |-> 0, whole |-> FALSE]
  BY DEF Resting
<1>2. sealed' \subseteq {d[1] : d \in log}
  BY DEF IInv, TypeOK, VerdictInLog
<1>3. TypeOK'
  <2>1. reconciler' \in [at: {"idle", "months", "judged"}, todo: SUBSET Month,
                         month: Month \cup {0}, whole: BOOLEAN]
    <3>1. reconciler.todo \in SUBSET Month
      BY DEF IInv, TypeOK
    <3>2. FALSE \in BOOLEAN
      OBVIOUS
    <3> QED
      BY <1>1, <3>1, <3>2, ReconcilerFields
  <2> QED
    BY <1>2, <2>1 DEF IInv, TypeOK
<1>4. VerdictInLog'
  BY <1>1 DEF VerdictInLog
<1> QED
  BY <1>3, <1>4, MonthStep

LEMMA ReconcileStopsIInv ==
  ASSUME IInv, ReconcileEnds \/ ReconcileBreaksOff
  PROVE  IInv'
<1> USE DEF ReconcileEnds, ReconcileBreaksOff, tables, history
<1>1. reconciler' = [at |-> "idle", todo |-> {}, month |-> 0, whole |-> FALSE]
  BY DEF Resting
<1>2. TypeOK'
  BY <1>1 DEF IInv, TypeOK
<1>3. VerdictInLog'
  BY <1>1 DEF VerdictInLog
<1> QED
  BY <1>1, <1>2, <1>3, MonthStep

LEMMA PickIInv ==
  ASSUME IInv, NEW m \in Month, Pick(m)
  PROVE  IInv'
<1> USE DEF Pick, tables, history
<1>1. Cardinality(moving') <= 1
  <2>1. Cardinality({m}) = 1
    BY FS_Singleton
  <2> QED
    BY <2>1
<1>2. TypeOK'
  BY <1>1 DEF IInv, TypeOK
<1>3. VerdictInLog'
  BY DEF IInv, VerdictInLog
<1> QED
  BY <1>2, <1>3, MonthStep DEF Fit

\* A month that goes cold empty makes those late that have ensured it.
LEMMA MoveIInv ==
  ASSUME IInv, NEW m \in Month, Move(m)
  PROVE  IInv'
<1> USE DEF Move, tables
<1>1. Cardinality(moving') <= 1
  BY FS_EmptySet
<1>2. TypeOK'
  BY <1>1 DEF IInv, TypeOK, LateTo
<1>3. VerdictInLog'
  BY DEF IInv, VerdictInLog
<1>4. \A i \in Import : Running(i, {"insert"}) /\ MonthOf(i) \notin filled
                           /\ MonthOf(i) \in cold' => MonthOf(i) \in cold \/ i \in late'
  BY DEF LateTo
<1> QED
  BY <1>2, <1>3, <1>4, MonthStep

LEMMA MoveFailsIInv ==
  ASSUME IInv, MoveFails
  PROVE  IInv'
<1> USE DEF MoveFails, tables, history
<1>1. Cardinality(moving') <= 1
  BY FS_EmptySet
<1>2. TypeOK'
  BY <1>1 DEF IInv, TypeOK
<1>3. VerdictInLog'
  BY DEF IInv, VerdictInLog
<1> QED
  BY <1>2, <1>3, MonthStep

-----------------------------------------------------------------------------
\* At first nothing is imported, sealed or moved.
LEMMA InitIInv == Init => IInv
<1> SUFFICES ASSUME Init PROVE IInv
  OBVIOUS
<1> USE BackfillAssumption DEF Init
<1>1. TypeOK
  BY NoJobType, FS_EmptySet DEF TypeOK, Resting
<1>2. JobsHaveDays /\ VerdictInLog /\ ReconcilingUnseen /\ SealedUnseen /\ EnsuredOnHot
  BY NoJobType DEF JobsHaveDays, VerdictInLog, ReconcilingUnseen, SealedUnseen, EnsuredOnHot,
                   Resting
<1> QED
  BY <1>1, <1>2 DEF IInv

\* Every step preserves the invariant.
LEMMA NextIInv == IInv /\ [Next]_vars => IInv'
<1> SUFFICES ASSUME IInv, [Next]_vars PROVE IInv'
  OBVIOUS
<1>1. CASE FreshCandle \/ TimePasses \/ \E m \in Month : Process(m)
  BY <1>1, PipelineIInv
<1>2. ASSUME NEW i \in Import, Request(i) \/ ImportStep(i) \/ Fail(i) PROVE IInv'
  BY <1>2, RequestIInv, StartIInv, RetryDueIInv, PauseIInv, EnsureIInv, InsertBatchIInv,
     FinishIInv, FailIInv DEF ImportStep
<1>3. ASSUME NEW m \in Month, Empty(m) PROVE IInv'
  BY <1>3, EmptyIInv
<1>4. CASE Reconcile
  BY <1>4, LookForImportsIInv, ReconcileStopsIInv, JudgeMonthIInv, WriteSealIInv DEF Reconcile
<1>5. CASE Evacuate
  BY <1>5, PickIInv, MoveIInv DEF Evacuate
<1>6. CASE BreaksOff
  BY <1>6, ReconcileStopsIInv, MoveFailsIInv DEF BreaksOff
<1>7. CASE UNCHANGED vars
  <2> USE <1>7 DEF vars, tables, history
  <2>1. TypeOK'
    BY DEF IInv, TypeOK
  <2>2. VerdictInLog'
    BY DEF IInv, VerdictInLog
  <2> QED
    BY <2>1, <2>2, MonthStep
<1> QED
  BY <1>1, <1>2, <1>3, <1>4, <1>5, <1>6, <1>7 DEF Next

\* The invariant holds in every reachable state.
THEOREM Invariance == Spec => []IInv
BY InitIInv, NextIInv, PTL DEF Spec

\* The jobs, the tables and what is between two calls of a routine keep their
\* types; one month at a time is moved, and a seal has its month in the log.
THEOREM BackfillTypes == Spec => []TypeOK
<1>1. IInv => TypeOK
  BY DEF IInv
<1> QED
  BY <1>1, Invariance, PTL

\* sp_evacuate_next_cold_partition moves no month under an import that could
\* have been seen when the month was sealed.
THEOREM NoMoveUnderImport == Spec => NotUnderImport
<1> DEFINE Undisturbed ==
      \A m \in cold' \ cold, i \in Import :
          job[i].state # "none" /\ MonthOf(i) = m => i \in unseen
<1>1. IInv /\ [Next]_vars => Undisturbed
  <2> SUFFICES ASSUME IInv, [Next]_vars, NEW m \in cold' \ cold, NEW i \in Import,
                      job[i].state # "none", MonthOf(i) = m
               PROVE  i \in unseen
    OBVIOUS
  <2>1. m \in moving
    <3>1. CASE \E k \in Month : Move(k)
      BY <3>1 DEF Move
    <3>2. ASSUME NEW k \in Import, Request(k) \/ ImportStep(k) \/ Fail(k) PROVE FALSE
      BY <3>2 DEF Request, ImportStep, Start, RetryDue, Pause, Ensure, Rehydrated, InsertBatch,
                  Finish, Fail
    <3>3. CASE FreshCandle \/ TimePasses \/ \E k \in Month : Process(k) \/ Empty(k)
      BY <3>3 DEF FreshCandle, TimePasses, Process, Empty
    <3>4. CASE Reconcile \/ BreaksOff \/ (\E k \in Month : Pick(k)) \/ UNCHANGED vars
      BY <3>4 DEF Reconcile, LookForImports, ReconcileEnds, JudgeMonth, WriteSeal, BreaksOff,
                  ReconcileBreaksOff, MoveFails, Pick, vars
    <3> QED
      BY <3>1, <3>2, <3>3, <3>4 DEF Next, Evacuate
  <2> QED
    BY <2>1 DEF IInv, SealedUnseen
<1>2. Spec => [][Undisturbed]_vars
  BY <1>1, Invariance, PTL DEF Spec
<1> QED
  BY <1>2 DEF NotUnderImport

\* An emptied month is filled again on the fast disk: BulkInsertAsync ensures and
\* rehydrates before it inserts, and only what happens between the two is late.
THEOREM RefillsGoToHot == Spec => RefilledOnHot
<1> DEFINE OnHot ==
      \A m \in filled' \ filled : m \in cold' => \E i \in late : MonthOf(i) = m
<1>1. IInv /\ [Next]_vars => OnHot
  <2> SUFFICES ASSUME IInv, [Next]_vars, NEW m \in filled' \ filled, m \in cold'
               PROVE  \E i \in late : MonthOf(i) = m
    OBVIOUS
  <2>1. ASSUME NEW i \in Import, InsertBatch(i) PROVE \E k \in late : MonthOf(k) = m
    <3>1. MonthOf(i) = m /\ m \in cold /\ Running(i, {"insert"})
      BY <2>1 DEF InsertBatch
    <3> QED
      BY <3>1 DEF IInv, EnsuredOnHot
  <2>2. ASSUME NEW k \in Import,
               \/ Request(k) \/ Fail(k) \/ Start(k) \/ RetryDue(k) \/ Pause(k)
               \/ Ensure(k) \/ Finish(k)
        PROVE  FALSE
    BY <2>2 DEF Request, Start, RetryDue, Pause, Ensure, Finish, Fail, tables
  <2>3. CASE FreshCandle \/ TimePasses \/ \E k \in Month : Process(k) \/ Empty(k)
    BY <2>3 DEF FreshCandle, TimePasses, Process, Empty, tables
  <2>4. CASE Reconcile \/ Evacuate \/ BreaksOff \/ UNCHANGED vars
    BY <2>4 DEF Reconcile, LookForImports, ReconcileEnds, JudgeMonth, WriteSeal, Evacuate,
                Pick, Move, BreaksOff, ReconcileBreaksOff, MoveFails, vars, tables
  <2> QED
    BY <2>1, <2>2, <2>3, <2>4 DEF Next, ImportStep
<1>2. Spec => [][OnHot]_vars
  BY <1>1, Invariance, PTL DEF Spec
<1> QED
  BY <1>2 DEF RefilledOnHot
=============================================================================
