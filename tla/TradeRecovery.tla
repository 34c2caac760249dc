---------------------------- MODULE TradeRecovery ----------------------------
(***************************************************************************)
(* One symbol's trades from the exchange to Trades, and those who look for *)
(* what the realtime collector missed: QuickAuditorWorker with             *)
(* FillGapWorker, HistoricalAuditorWorker with OnlineArchiveImportWorker,  *)
(* and the in-memory GapProcessingTracker between them.                    *)
(*                                                                         *)
(* One trade is executed per unit of time, so that a trade's id is also    *)
(* its time; a day is the set of its trades.  The millisecond between two  *)
(* audit windows has no trade of its own.  The collector, the auditors and *)
(* the jobs run in one process, which may be stopped or killed; the job    *)
(* table is Hangfire's and survives it.                                    *)
(***************************************************************************)
EXTENDS Naturals, FiniteSets

CONSTANTS
    LastTrade,      \* bound on the trades the exchange executes
    Days,
    MonthStart,     \* the first trade of each month but the first
    KeepBack,       \* how far back rotation keeps everything
    QuickWindow,    \* QuickAuditorWorker: _chunkWindow
    QuickHorizon,   \*   and _totalWindow
    AuditWindow,    \* HistoricalAuditorWorker: _chunkWindow
    HotZone,        \*   and the 48 hours it keeps away from
    MaxRetries,     \*   and its bound on failed checks
    Job,            \* slots of Hangfire's table; a finished job frees its slot
    Attempts        \* retries of a job (AutomaticRetry)

Trade == 1 .. LastTrade

ASSUME RecoveryAssumption ==
    /\ LastTrade \in Nat
    /\ Days \subseteq SUBSET Trade
    /\ \A t \in Trade : \E d \in Days : t \in d
    /\ \A d, e \in Days : d \cap e # {} => d = e
    /\ MonthStart \subseteq Trade
    /\ \A m \in MonthStart, d \in Days : \A t, u \in d : t < m => u < m
    /\ KeepBack \in Nat
    /\ QuickWindow \in Nat \ {0} /\ QuickHorizon \in Nat
    /\ AuditWindow \in Nat \ {0} /\ HotZone \in Nat
    /\ MaxRetries \in Nat \ {0} /\ Attempts \in Nat

VARIABLES
    executed,   \* the exchange's last trade
    added,      \* TrackedSymbols.DateAdded: the first trade after it; 0, no row
    stored,     \* Trades
    floor,      \* the first trade of the oldest partition
    up,         \* the Worker process runs
    queue,      \* _tradeQueue, and what DatabaseWriterLoop has taken from it
    tracker,    \* GapProcessingTracker
    job,        \* Hangfire's jobs: what to bring, and what is left of it
    cursor,     \* HistoricalAudit_Watermarks: LastChecked_Timestamp,
    status,     \*   Status
    retries,    \*   and RetryCount
    auditor,    \* where the historical audit is
    seen,       \* the cursor it has read
    lookups,    \* gaps whose boundary trades ScheduleArchiveImport looks up
    days,       \* days it is about to enqueue
    blind,      \* history: see Check
    forsaken,   \* history: see Discard, Die and ScheduleDay
    orphans     \* history: marks that no job will remove

watermark == <<cursor, status, retries>>
inMemory  == <<auditor, seen, lookups, days>>
audit     == <<inMemory, blind>>
history   == <<forsaken, orphans>>
vars == <<executed, added, stored, floor, up, queue, tracker, job, watermark,
          audit, history>>

Kind == {"fill", "import"}

NoJob == [kind |-> "none", span |-> {}, left |-> {}, tries |-> 0, running |-> FALSE]

JobRecord ==
    [kind: Kind \cup {"none"}, span: SUBSET Trade, left: SUBSET Trade,
     tries: 0 .. Attempts, running: BOOLEAN]

TypeOK ==
    /\ executed \in 0 .. LastTrade
    /\ added \in 0 .. LastTrade + 1
    /\ stored \subseteq floor .. executed
    /\ floor \in MonthStart \cup {1}
    /\ up \in BOOLEAN
    /\ queue \subseteq 1 .. executed
    /\ tracker \subseteq Kind \X SUBSET Trade
    /\ job \in [Job -> JobRecord]
    /\ cursor \in Nat /\ seen \in Nat
    /\ status \in {"none", "Pending", "Failed", "Completed"}
    /\ retries \in 0 .. MaxRetries
    /\ auditor \in {"idle", "read", "checked"}
    /\ lookups \subseteq Trade \X Trade
    /\ days \subseteq Days
    /\ blind \subseteq Trade /\ forsaken \subseteq Trade
    /\ orphans \subseteq Kind \X SUBSET Trade

Init ==
    /\ executed = 0 /\ added = 0 /\ stored = {} /\ floor = 1
    /\ up = TRUE
    /\ queue = {}
    /\ tracker = {}
    /\ job = [j \in Job |-> NoJob]
    /\ cursor = 0 /\ status = "none" /\ retries = 0
    /\ auditor = "idle" /\ seen = 0 /\ lookups = {} /\ days = {}
    /\ blind = {} /\ forsaken = {} /\ orphans = {}

-----------------------------------------------------------------------------
(* The exchange and BinanceCollectorWorker *)

\* sp_update_tracked_symbols: the scan that meets the symbol first gives it its
\* DateAdded; the exchange may have traded it for long.
Track ==
    /\ up
    /\ added = 0
    /\ added' = executed + 1
    /\ UNCHANGED <<executed, stored, floor, up, queue, tracker, job, watermark,
                   audit, history>>

\* The producer enqueues what the streams of a tracked symbol bring.  What happens
\* while they are broken or the process is down is not sent again.
Execute ==
    /\ executed < LastTrade
    /\ executed' = executed + 1
    /\ \/ up /\ added # 0 /\ queue' = queue \cup {executed + 1}
       \/ UNCHANGED queue
    /\ UNCHANGED <<added, stored, floor, up, tracker, job, watermark, audit, history>>

\* mutant: only the newest trade's month is looked at
NewestAccepted(S) == \E t \in S : t >= floor

\* BulkInsertAsync: one statement, refused when a trade has no partition.
Accepts(S) == \A t \in S : t >= floor

Insert(S) ==
    /\ Accepts(S)
    /\ stored' = stored \cup S
    /\ blind' = blind \ S
    /\ forsaken' = forsaken \ S

\* DatabaseWriterLoop takes the whole queue; SaveBufferAsync drops what it took
\* when the insert fails.
SaveBuffer ==
    /\ queue # {}
    /\ \/ Insert(queue)
       \/ UNCHANGED <<stored, blind, forsaken>>
    /\ queue' = {}
    /\ UNCHANGED <<executed, added, floor, up, tracker, job, watermark, inMemory, orphans>>

-----------------------------------------------------------------------------
(* Hangfire's jobs *)

Free(j) == job[j].kind = "none"

KeyOf(j) == <<job[j].kind, job[j].span>>

Enqueued(j, kind, span) ==
    job' = [job EXCEPT ![j] = [NoJob EXCEPT !.kind = kind, !.span = span]]

\* The tracker's key is reserved, and the job put into the table.
Reserve(kind, span) ==
    /\ <<kind, span>> \notin tracker
    /\ tracker' = tracker \cup {<<kind, span>>}
    /\ \E j \in Job : Free(j)
    /\ Enqueued(CHOOSE j \in Job : Free(j), kind, span)

\* [DisableConcurrentExecution] locks the method, whatever its arguments.
Locked(kind) == \E j \in Job : job[j].kind = kind /\ job[j].running

Start(j) ==
    /\ up
    /\ ~Free(j) /\ ~job[j].running
    /\ ~Locked(job[j].kind)
    /\ job' = [job EXCEPT ![j].running = TRUE, ![j].left = job[j].span]
    /\ UNCHANGED <<executed, added, stored, floor, up, queue, tracker,
                   watermark, audit, history>>

KeepMark(j) == tracker   \* mutant: no finally
Unmarked(j) == tracker \ {KeyOf(j)}

\* The method returns: finally, and the slot is free.
Finish(j) ==
    /\ job' = [job EXCEPT ![j] = NoJob]
    /\ tracker' = Unmarked(j)
    /\ orphans' = orphans \ {KeyOf(j)}

\* ImportArchiveAsync looks at the retention floor before it downloads.
SkipBelowFloor(j) ==
    /\ job[j].kind = "import" /\ job[j].running
    /\ job[j].left = job[j].span
    /\ ~Accepts(job[j].span)
    /\ Finish(j)
    /\ UNCHANGED <<executed, added, stored, floor, up, queue, watermark, audit,
                   forsaken>>

\* A page of the API or a batch of the archive, in the order of the ids; only the
\* finally follows the last one.  The archive of a day is there when the day is over.
Bring(j) ==
    /\ job[j].running
    /\ job[j].span \subseteq 1 .. executed
    /\ \E t \in job[j].left :
          LET batch == {u \in job[j].left : u <= t}
          IN  /\ Insert(batch)
              /\ \/ batch = job[j].left /\ Finish(j)
                 \/ /\ batch # job[j].left
                    /\ job' = [job EXCEPT ![j].left = @ \ batch]
                    /\ UNCHANGED <<tracker, orphans>>
    /\ UNCHANGED <<executed, added, floor, up, queue, watermark, inMemory>>

Lost(S) == {t \in S : t >= floor /\ t \notin stored}

\* Attempts are used up: the job is Failed and nobody takes it again.  The quick
\* audit finds its gaps anew; what the historical audit found it found once.
Discard(j, lost) ==
    /\ job' = [job EXCEPT ![j] = NoJob]
    /\ forsaken' = IF job[j].kind = "import" THEN forsaken \cup Lost(lost) ELSE forsaken

Requeue(j) == job' = [job EXCEPT ![j].running = FALSE, ![j].left = {}, ![j].tries = @ + 1]

\* An exception: of the API, of the archive's site, of the insert.
AttemptFails(j) ==
    /\ job[j].running
    /\ tracker' = Unmarked(j)
    /\ orphans' = orphans \ {KeyOf(j)}
    /\ \/ job[j].tries < Attempts /\ Requeue(j) /\ UNCHANGED forsaken
       \/ job[j].tries = Attempts /\ Discard(j, job[j].left)
    /\ UNCHANGED <<executed, added, stored, floor, up, queue, watermark, audit>>

Only(j) == \A i \in Job \ {j} : KeyOf(i) # KeyOf(j)

\* Waiting too long for the lock of the method is an exception too, but one
\* thrown before the method runs: its finally does not.
LockTimeout(j) ==
    /\ up
    /\ ~Free(j) /\ ~job[j].running
    /\ Locked(job[j].kind)
    /\ \/ job[j].tries < Attempts /\ Requeue(j) /\ UNCHANGED history
       \/ /\ job[j].tries = Attempts
          /\ Discard(j, job[j].span)
          /\ orphans' = orphans \cup {k \in tracker : k = KeyOf(j) /\ Only(j)}
    /\ UNCHANGED <<executed, added, stored, floor, up, queue, tracker, watermark,
                   audit>>

-----------------------------------------------------------------------------
(* QuickAuditorWorker.CheckAndFillRecentGapsAsync *)

\* Pairs of stored neighbours that are not neighbours, within a window.
Apart(window) ==
    {g \in (stored \cap window) \X (stored \cap window) :
        /\ g[1] + 1 < g[2]
        /\ \A t \in g[1] + 1 .. g[2] - 1 : t \notin stored}

Between(g) == g[1] + 1 .. g[2] - 1

\* The windows of its walk into the past.
QuickWindows ==
    {{t \in 1 .. executed : t + (k + 1) * QuickWindow > executed
                            /\ t + k * QuickWindow <= executed} :
        k \in {i \in 0 .. QuickHorizon : (i + 1) * QuickWindow < QuickHorizon}}

\* A gap of one of them, if it is not marked.  A gap that has changed since the
\* window was read is no different from a job that is late.
QuickHandle ==
    /\ up
    /\ \E w \in QuickWindows : \E g \in Apart(w) : Reserve("fill", Between(g))
    /\ UNCHANGED <<executed, added, stored, floor, up, queue, watermark, audit, history>>

\* Enqueue throws: the audit ends there, and the gap stays marked.
EnqueueFails ==
    /\ up
    /\ \E w \in QuickWindows : \E g \in Apart(w) :
          LET key == <<"fill", Between(g)>>
          IN  /\ key \notin tracker
              /\ tracker' = tracker \cup {key}
              /\ orphans' = orphans \cup {key}
    /\ UNCHANGED <<executed, added, stored, floor, up, queue, job, watermark, audit,
                   forsaken>>

-----------------------------------------------------------------------------
(* HistoricalAuditorWorker *)

\* InitializeAuditForNewSymbolsAsync: the cursor starts before DateAdded, or before
\* the retention floor if that is later.
InitAudit ==
    /\ up
    /\ added # 0
    /\ status = "none"
    /\ status' = "Pending"
    /\ cursor' = IF added > floor THEN added - 1 ELSE floor - 1
    /\ UNCHANGED <<executed, added, stored, floor, up, queue, tracker, job,
                   retries, audit, history>>

\* GetSymbolsToAuditAsync
AuditBegin ==
    /\ up
    /\ auditor = "idle"
    /\ \/ status = "Pending"
       \/ status = "Failed" /\ retries < MaxRetries
    /\ auditor' = "read"
    /\ seen' = cursor
    /\ UNCHANGED <<executed, added, stored, floor, up, queue, tracker, job,
                   watermark, lookups, days, blind, history>>

\* mutant: the counter is reset by a failure, too
Forgetful(incrementRetryCount) == 0

RetryCount(incrementRetryCount) == IF incrementRetryCount THEN retries + 1 ELSE 0

UpdateWatermark(newTimestamp, newStatus, incrementRetryCount) ==
    /\ cursor' = newTimestamp
    /\ status' = newStatus
    /\ retries' = RetryCount(incrementRetryCount)
    /\ auditor' = "idle"
    /\ seen' = 0
    /\ UNCHANGED <<executed, added, stored, floor, up, queue, tracker, job, lookups, days,
                   history>>

Window == seen + 1 .. seen + AuditWindow

InHotZone == seen + AuditWindow + HotZone >= executed

ReachHotZone ==
    /\ auditor = "read"
    /\ InHotZone
    /\ UpdateWatermark(seen, "Completed", FALSE)
    /\ UNCHANGED blind

\* blind: the missing trades of a window that the audit passed without a pair
\* of stored trades around them.
JumpOver ==
    /\ auditor = "read"
    /\ ~InHotZone
    /\ stored \cap Window = {}
    /\ UpdateWatermark(seen + AuditWindow, "Pending", FALSE)
    /\ blind' = blind \cup Window

Inside(window) == UNION {Between(g) : g \in Apart(window)}

Check ==
    /\ auditor = "read"
    /\ ~InHotZone
    /\ stored \cap Window # {}
    /\ auditor' = "checked"
    /\ lookups' = lookups \cup Apart(Window)
    /\ blind' = (blind \ Window) \cup ((Window \ stored) \ Inside(Window))
    /\ UNCHANGED <<executed, added, stored, floor, up, queue, tracker, job,
                   watermark, seen, days, history>>

AuditAdvance ==
    /\ auditor = "checked"
    /\ UpdateWatermark(seen + AuditWindow, "Pending", FALSE)
    /\ UNCHANGED blind

\* A database that cannot note the failure either is taken for a Halt.
AuditFails ==
    /\ auditor # "idle"
    /\ UpdateWatermark(seen, "Failed", TRUE)
    /\ UNCHANGED blind

DaysTouched(t, u) == {d \in Days : \E x \in d : t <= x /\ x <= u}

\* mutant: GetDatesBetween starts with the day after the first
LaterDays(t, u) == {d \in DaysTouched(t, u) : t \notin d}

DatesBetween(t, u) == DaysTouched(t, u)

\* The process ends: killed, crashed, or stopped.  What was in memory is gone;
\* Hangfire takes its jobs up again, but a filling that had not begun when the
\* process was stopped counts as done.
Halt ==
    /\ up
    /\ up' = FALSE
    /\ queue' = {} /\ tracker' = {}
    /\ lookups' = {} /\ days' = {}
    /\ auditor' = "idle" /\ seen' = 0
    /\ \E cut \in SUBSET {j \in Job : /\ job[j].kind = "fill" /\ job[j].running
                                       /\ job[j].left = job[j].span} :
          job' = [j \in Job |-> IF j \in cut THEN NoJob
                                ELSE [job[j] EXCEPT !.running = FALSE, !.left = {}]]
    /\ forsaken' = forsaken \cup Lost((UNION days) \cup UNION {Between(g) : g \in lookups})
    /\ orphans' = {}
    /\ UNCHANGED <<executed, added, stored, floor, watermark, blind>>

Restart ==
    /\ ~up
    /\ up' = TRUE
    /\ UNCHANGED <<executed, added, stored, floor, queue, tracker, job, watermark,
                   audit, history>>

\* ScheduleArchiveImport, which nobody awaits: its first half reads the boundary
\* trades of a gap; the exception when one is gone ends the process.
Lookup ==
    \/ /\ \E g \in lookups :
             /\ g[1] \in stored /\ g[2] \in stored
             /\ lookups' = lookups \ {g}
             /\ days' = days \cup DatesBetween(g[1], g[2])
       /\ UNCHANGED <<executed, added, stored, floor, up, queue, tracker, job,
                      watermark, auditor, seen, blind, history>>
    \/ /\ \E g \in lookups : {g[1], g[2]} \cap stored # {g[1], g[2]}
       /\ Halt

\* Its second half enqueues the imports of the days that are not marked.
ScheduleDay(d) ==
    /\ d \in days
    /\ days' = days \ {d}
    /\ \/ /\ Reserve("import", d)
          /\ forsaken' = forsaken \ d
       \/ /\ <<"import", d>> \in tracker
          /\ forsaken' = IF <<"import", d>> \in orphans
                          THEN forsaken \cup Lost(d) ELSE forsaken
          /\ UNCHANGED <<tracker, job>>
    /\ UNCHANGED <<executed, added, stored, floor, up, queue, watermark, auditor,
                   seen, lookups, blind, orphans>>

\* sp_rotate_partitions: the trades and the cursor in one transaction.
Rotate ==
    /\ \E f \in MonthStart :
          /\ f > floor
          /\ f + KeepBack <= executed
          /\ floor' = f
          /\ stored' = {t \in stored : t >= f}
          /\ cursor' = IF status # "none" /\ cursor < f THEN f - 1 ELSE cursor
          /\ blind' = {t \in blind : t >= f}
          /\ forsaken' = {t \in forsaken : t >= f}
    /\ UNCHANGED <<executed, added, up, queue, tracker, job, status, retries,
                   inMemory, orphans>>

-----------------------------------------------------------------------------
JobStep(j) ==
    \/ Start(j) \/ LockTimeout(j)
    \/ SkipBelowFloor(j) \/ Bring(j) \/ AttemptFails(j)

QuickAudit == QuickHandle \/ EnqueueFails

AuditStep ==
    \/ InitAudit \/ AuditBegin
    \/ ReachHotZone \/ JumpOver \/ Check \/ AuditAdvance \/ AuditFails

ScheduleImports == \E d \in Days : ScheduleDay(d)

Next ==
    \/ Execute \/ Track \/ SaveBuffer
    \/ \E j \in Job : JobStep(j)
    \/ QuickAudit
    \/ AuditStep \/ Lookup \/ ScheduleImports
    \/ Halt \/ Restart \/ Rotate

Spec == Init /\ [][Next]_vars

\* Hangfire starts what is recurring, enqueued or to be retried, and an attempt
\* ends.  An import may have to wait for one of the model's slots again and again.
FairSpec ==
    /\ Spec
    /\ WF_vars(AuditStep) /\ WF_vars(Lookup) /\ SF_vars(ScheduleImports)
    /\ \A j \in Job : WF_vars(JobStep(j))

-----------------------------------------------------------------------------
Imported(t) == \E j \in Job : job[j].kind = "import" /\ t \in job[j].span

\* The historical audit has found t missing and works on it.
InHand(t) ==
    \/ \E g \in lookups : t \in Between(g)
    \/ \E d \in days : t \in d
    \/ Imported(t)

Missing == {t \in 1 .. executed : t >= floor /\ t \notin stored /\ t \notin queue}

(* Behind the historical audit's cursor a missing trade of the time since the *)
(* symbol is tracked is being brought by somebody: by a gap whose days are     *)
(* still looked up, by a day still to be enqueued or by an import.  The        *)
(* exceptions are what the audit cannot see (blind) and what it found, gave up *)
(* and will not look for again (forsaken).  A trade before DateAdded is behind *)
(* the cursor from the start and nobody's (docs/TECH_DEBT.md, section 1).      *)
AuditLeavesNothing ==
    \A t \in Missing :
        t >= added /\ t <= cursor => InHand(t) \/ t \in blind \/ t \in forsaken

(* A mark of the tracker has a job that will take it away, whatever attempts   *)
(* fail or are timed out, unless that job never came into being or was given   *)
(* up before its method ran (orphans): such a gap or day is not enqueued again *)
(* until the process ends.                                                     *)
MarksHaveJobs ==
    \A k \in tracker : k \in orphans \/ \E j \in Job : KeyOf(j) = k

(* The historical audit of a tracked symbol ends, at the hot zone or after its *)
(* last attempt, and by then the imports it asked for have ended too: unless    *)
(* the process is for ever killed, every trade since DateAdded that is behind   *)
(* the cursor is stored in the end, but for the same exceptions.                *)
AuditEnds ==
    <>[]up => <>[](/\ \/ added = 0
                      \/ status = "Completed"
                      \/ status = "Failed" /\ retries = MaxRetries
                   /\ \A t \in Missing :
                         t >= added /\ t <= cursor => t \in blind \/ t \in forsaken)
=============================================================================
