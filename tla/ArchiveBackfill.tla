--------------------------- MODULE ArchiveBackfill ---------------------------
(***************************************************************************)
(* The backfill of past months: imports that yield to the realtime         *)
(* pipeline (ImportBackpressure), the coverage log, the month seals that   *)
(* PartitionMaintenanceWorker.ReconcileMonthSealsAsync sets and removes,   *)
(* the move of sealed months to the cold disk by pg_cron, and the return   *)
(* of emptied ones by sp_ensure_month_partitions.                          *)
(*                                                                         *)
(* Time is the age of the newest candle.  The files of an archive, and     *)
(* what a killed process leaves of them, are ArchivePipeline's; here a     *)
(* killed import is one that fails or takes long.                          *)
(***************************************************************************)
EXTENDS Naturals, FiniteSets

CONSTANTS
    Day,            \* <<month, number of the day in it>>
    PauseAbove, ResumeBelow,
    MaxAge,         \* bound on the age that is told apart
    Import,         \* slots for the import jobs in Hangfire's table,
    Csv,            \*   those of ImportFromCsvAsync among them
    Attempts        \* retries of a job

ASSUME BackfillAssumption ==
    /\ Day \subseteq Nat \X Nat
    /\ ResumeBelow \in Nat /\ PauseAbove \in Nat /\ MaxAge \in Nat
    /\ ResumeBelow <= PauseAbove /\ PauseAbove < MaxAge
    /\ Csv \subseteq Import
    /\ Attempts \in Nat

Month == {d[1] : d \in Day}

VARIABLES
    age,        \* now minus GetNewestCandleOpenTimeAsync
    job,        \* Hangfire's import jobs
    filled,     \* months with rows in Trades
    dirty,      \* months with dirty minutes or candles not yet processed
    log,        \* ArchiveImportLog
    sealed,     \* MonthSeal
    cold,       \* months whose Trades partition is on the cold tablespace
    reconciler, \* ReconcileMonthSealsAsync
    moving,     \* the month sp_evacuate_next_cold_partition is about to move
    late,       \* history: see Empty and Move
    unseen      \* history: see Request and LookForImports

tables == <<filled, dirty, log>>
history == <<late, unseen>>
vars == <<age, job, tables, sealed, cold, reconciler, moving, history>>

NoJob == [state |-> "none", day |-> <<>>, at |-> "open", tries |-> 0]

JobRecord ==
    [state: {"none", "Enqueued", "Processing", "Scheduled"}, day: Day \cup {<<>>},
     at: {"open", "paused", "insert"}, tries: 0 .. Attempts]

\* month is the one just judged, and whole the verdict.
Resting == [at |-> "idle", todo |-> {}, month |-> 0, whole |-> FALSE]

TypeOK ==
    /\ age \in 0 .. MaxAge
    /\ job \in [Import -> JobRecord]
    /\ filled \subseteq Month /\ dirty \subseteq Month
    /\ log \subseteq Day
    /\ sealed \subseteq {d[1] : d \in log}
    /\ cold \subseteq Month
    /\ reconciler \in [at: {"idle", "months", "judged"}, todo: SUBSET Month,
                       month: Month \cup {0}, whole: BOOLEAN]
    /\ moving \subseteq Month /\ Cardinality(moving) <= 1
    /\ late \subseteq Import /\ unseen \subseteq Import

\* All months are past ones.
Init ==
    /\ age \in 0 .. MaxAge
    /\ job = [i \in Import |-> NoJob]
    /\ filled = {} /\ dirty = {} /\ log = {}
    /\ sealed = {} /\ cold = {}
    /\ reconciler = Resting
    /\ moving = {}
    /\ late = {} /\ unseen = {}

-----------------------------------------------------------------------------
(* The pipeline *)

\* A realtime minute has become a candle; the newest minutes come first.
FreshCandle ==
    /\ age' = 0
    /\ UNCHANGED <<job, tables, sealed, cold, reconciler, moving, history>>

TimePasses ==
    /\ age < MaxAge
    /\ age' = age + 1
    /\ UNCHANGED <<job, tables, sealed, cold, reconciler, moving, history>>

\* The minutes of a month are aggregated and their features computed.
Process(m) ==
    /\ m \in dirty
    /\ dirty' = dirty \ {m}
    /\ UNCHANGED <<age, job, filled, log, sealed, cold, reconciler, moving, history>>

-----------------------------------------------------------------------------
(* Imports: ImportFromCsvAsync (Csv) and ImportArchiveAsync *)

Set(i, record) == job' = [job EXCEPT ![i] = record]

MonthOf(i) == job[i].day[1]

\* unseen: the import was asked for while seals were being reconciled, or while
\* its month had a seal or was about to be moved.
Request(i) ==
    /\ job[i].state = "none"
    /\ \E d \in Day :
          /\ Set(i, [NoJob EXCEPT !.state = "Enqueued", !.day = d])
          /\ unseen' = IF reconciler.at # "idle" \/ d[1] \in sealed \cup moving
                       THEN unseen \cup {i} ELSE unseen
    /\ UNCHANGED <<age, tables, sealed, cold, reconciler, moving, late>>

\* [DisableConcurrentExecution] locks each of the two methods.
Start(i) ==
    /\ job[i].state = "Enqueued"
    /\ \A k \in Import : job[k].state = "Processing" => (k \in Csv) # (i \in Csv)
    /\ Set(i, [job[i] EXCEPT !.state = "Processing", !.at = "open"])
    /\ UNCHANGED <<age, tables, sealed, cold, reconciler, moving, history>>

RetryDue(i) ==
    /\ job[i].state = "Scheduled"
    /\ Set(i, [job[i] EXCEPT !.state = "Enqueued"])
    /\ UNCHANGED <<age, tables, sealed, cold, reconciler, moving, history>>

Running(i, steps) == job[i].state = "Processing" /\ job[i].at \in steps

\* mutant: the lag has to fall below the lower threshold
BelowResume(i) == IF job[i].at = "paused" THEN age < ResumeBelow ELSE age <= PauseAbove

\* WaitForPipelineHeadroomAsync: hysteresis between the two thresholds; only the
\* import of a csv asks.
Headroom(i) == IF job[i].at = "paused" THEN age <= ResumeBelow ELSE age <= PauseAbove

Pause(i) ==
    /\ Running(i, {"open"})
    /\ i \in Csv /\ ~Headroom(i)
    /\ Set(i, [job[i] EXCEPT !.at = "paused"])
    /\ UNCHANGED <<age, tables, sealed, cold, reconciler, moving, history>>

\* mutant: the partition stays where it is
LeftInPlace(m) == cold

\* sp_rehydrate_if_empty_cold
Rehydrated(m) == IF m \in filled THEN cold ELSE cold \ {m}

\* A batch has been read; the month's partition is ensured.
Ensure(i) ==
    /\ Running(i, {"open", "paused"})
    /\ i \in Csv => Headroom(i)
    /\ cold' = Rehydrated(MonthOf(i))
    /\ Set(i, [job[i] EXCEPT !.at = "insert"])
    /\ UNCHANGED <<age, tables, sealed, reconciler, moving, history>>

\* Rows that are there already leave no dirty minutes.
InsertBatch(i) ==
    /\ Running(i, {"insert"})
    /\ filled' = filled \cup {MonthOf(i)}
    /\ \/ dirty' = dirty \cup {MonthOf(i)}
       \/ MonthOf(i) \in filled /\ UNCHANGED dirty
    /\ Set(i, [job[i] EXCEPT !.at = "open"])
    /\ late' = late \ {i}
    /\ UNCHANGED <<age, log, sealed, cold, reconciler, moving, unseen>>

Ends(i) == Set(i, NoJob) /\ unseen' = unseen \ {i}

\* RecordArchiveImportedAsync; ImportArchiveAsync records nothing.
Finish(i) ==
    /\ Running(i, {"open"})
    /\ log' = IF i \in Csv THEN log \cup {job[i].day} ELSE log
    /\ Ends(i)
    /\ UNCHANGED <<age, filled, dirty, sealed, cold, reconciler, moving, late>>

\* mutant: one attempt too many
OneMoreTry(i) == job[i].tries <= Attempts

TriesLeft(i) == job[i].tries < Attempts

Fail(i) ==
    /\ job[i].state = "Processing"
    /\ \/ /\ TriesLeft(i)
          /\ Set(i, [job[i] EXCEPT !.state = "Scheduled", !.at = "open", !.tries = @ + 1])
          /\ UNCHANGED unseen
       \/ ~TriesLeft(i) /\ Ends(i)
    /\ late' = late \ {i}
    /\ UNCHANGED <<age, tables, sealed, cold, reconciler, moving>>

\* late: imports that have ensured a month which is emptied, or moved although
\* empty, before they insert.
LateTo(m) == {i \in Import : Running(i, {"insert"}) /\ MonthOf(i) = m}

\* An operator truncates a month and its minutes to do; the log and the seal stay.
Empty(m) ==
    /\ m \in filled
    /\ filled' = filled \ {m}
    /\ dirty' = dirty \ {m}
    /\ late' = late \cup LateTo(m)
    /\ UNCHANGED <<age, job, log, sealed, cold, reconciler, moving, unseen>>

-----------------------------------------------------------------------------
(* ReconcileMonthSealsAsync *)

InLog(m) == {d \in log : d[1] = m}

Contiguous(m) == \A d, e \in InLog(m) : \A n \in d[2] .. e[2] : <<m, n>> \in log

\* fn_month_data_complete
Complete(m) == InLog(m) # {} /\ Contiguous(m) /\ m \notin dirty

\* mutant: an import that waits in its queue does not count
OnlyRunning == \E i \in Import : job[i].state = "Processing"

\* IsArchiveImportInFlightAsync
InFlight == \E i \in Import : job[i].state \in {"Enqueued", "Processing"}

Waiting == {i \in Import : job[i].state = "Scheduled"}

\* unseen: the import waits for its retry.
LookForImports ==
    /\ reconciler.at = "idle"
    /\ ~InFlight
    /\ reconciler' = [Resting EXCEPT !.at = "months", !.todo = {d[1] : d \in log}]
    /\ unseen' = unseen \cup Waiting
    /\ UNCHANGED <<age, job, tables, sealed, cold, moving, late>>

\* IsMonthDataCompleteAsync, from the oldest month on.
JudgeMonth(m) ==
    /\ reconciler.at = "months"
    /\ m \in reconciler.todo
    /\ \A n \in reconciler.todo : m <= n
    /\ reconciler' = [at |-> "judged", todo |-> reconciler.todo \ {m}, month |-> m,
                      whole |-> Complete(m)]
    /\ UNCHANGED <<age, job, tables, sealed, cold, moving, history>>

\* UpsertMonthSealAsync or DeleteMonthSealAsync
WriteSeal(m) ==
    /\ reconciler.at = "judged" /\ reconciler.month = m
    /\ sealed' = IF reconciler.whole THEN sealed \cup {m} ELSE sealed \ {m}
    /\ reconciler' = [Resting EXCEPT !.at = "months", !.todo = reconciler.todo]
    /\ UNCHANGED <<age, job, tables, cold, moving, history>>

ReconcileEnds ==
    /\ reconciler.at = "months"
    /\ reconciler.todo = {}
    /\ reconciler' = Resting
    /\ UNCHANGED <<age, job, tables, sealed, cold, moving, history>>

\* The job fails or is killed, and begins anew.
ReconcileBreaksOff ==
    /\ reconciler.at = "judged" \/ reconciler.todo # {}
    /\ reconciler' = Resting
    /\ UNCHANGED <<age, job, tables, sealed, cold, moving, history>>

-----------------------------------------------------------------------------
(* sp_evacuate_next_cold_partition, by pg_cron; one at a time *)

Fit(m) == m \in filled /\ m \notin cold /\ m \in sealed /\ Complete(m)

\* mutant: a month that is not fit keeps later ones from being looked at
Gone(n) == n \in cold

\* CONTINUE
PassedOver(n) == ~Fit(n)

Pick(m) ==
    /\ moving = {}
    /\ Fit(m)
    /\ \A n \in Month : n < m => PassedOver(n)
    /\ moving' = {m}
    /\ UNCHANGED <<age, job, tables, sealed, cold, reconciler, history>>

\* SET TABLESPACE has got its lock.
Move(m) ==
    /\ moving = {m}
    /\ moving' = {}
    /\ cold' = cold \cup {m}
    /\ late' = IF m \in filled THEN late ELSE late \cup LateTo(m)
    /\ UNCHANGED <<age, job, tables, sealed, reconciler, unseen>>

\* lock_timeout, or the end of the backend
MoveFails ==
    /\ moving # {}
    /\ moving' = {}
    /\ UNCHANGED <<age, job, tables, sealed, cold, reconciler, history>>

-----------------------------------------------------------------------------
ImportStep(i) ==
    \/ Start(i) \/ RetryDue(i) \/ Pause(i) \/ Ensure(i) \/ InsertBatch(i)
    \/ Finish(i)

Reconcile ==
    \/ LookForImports \/ ReconcileEnds
    \/ \E m \in Month : JudgeMonth(m) \/ WriteSeal(m)

Evacuate == \E m \in Month : Pick(m) \/ Move(m)

BreaksOff == ReconcileBreaksOff \/ MoveFails

Next ==
    \/ FreshCandle \/ TimePasses
    \/ \E i \in Import : Request(i) \/ ImportStep(i) \/ Fail(i)
    \/ \E m \in Month : Process(m) \/ Empty(m)
    \/ Reconcile \/ Evacuate \/ BreaksOff

Spec == Init /\ [][Next]_vars

\* An attempt goes on, and the recurring jobs come round; reconciliations and moves
\* break off now and then, not for ever.
FairSpec ==
    /\ Spec
    /\ \A i \in Import : WF_vars(ImportStep(i))
    /\ WF_vars(Reconcile) /\ WF_vars(Evacuate)
    /\ <>[][~BreaksOff]_vars

-----------------------------------------------------------------------------
(* A month does not go cold under an import of it, in a pause between its      *)
(* batches (the incident of ADR 0012), with three exceptions: the import was   *)
(* asked for while the month had its seal or was about to be moved, or while   *)
(* seals were reconciled, or it waited for a retry when that began.            *)
NotUnderImport ==
    [][\A m \in cold' \ cold, i \in Import :
          job[i].state # "none" /\ MonthOf(i) = m => i \in unseen]_vars

(* A month that was emptied is filled again on the fast disk, unless it was    *)
(* emptied, or moved although empty, just before the insert.                   *)
RefilledOnHot ==
    [][\A m \in filled' \ filled :
          m \in cold' => \E i \in late : MonthOf(i) = m]_vars

(* As long as the newest candle stays young, no import is paused for ever: the *)
(* lower threshold lets it go on.                                              *)
PausesEnd ==
    <>[](age <= ResumeBelow) => \A i \in Import : []<>(job[i].at # "paused")

(* Once no import is in flight any more, a month that is complete goes cold:   *)
(* one that is not, for a hole in its log or a minute left to do, does not     *)
(* hold back a later one.                                                      *)
WholeMonthsGoCold ==
    <>[]~InFlight =>
        \A m \in Month : <>[](m \in filled /\ Complete(m)) => <>[](m \in cold)
=============================================================================
