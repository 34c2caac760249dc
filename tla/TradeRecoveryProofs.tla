------------------------- MODULE TradeRecoveryProofs -------------------------
(***************************************************************************)
(* Proofs about TradeRecovery, for any number of trades, days, months and  *)
(* job slots, any windows of the audits and any number of retries.         *)
(*                                                                         *)
(* The argument.  A missing trade since DateAdded that is behind the       *)
(* audit's frontier, that is its cursor and, once a window is checked, the *)
(* end of that window, is accounted for (Accounted).  The cursor starts    *)
(* before the first of these trades that has a partition (InitAudit).  The *)
(* frontier passes a trade only through JumpOver and Check, which account  *)
(* for their window; from then on the trade is handed from a lookup to a   *)
(* day to an import, and an import ends only with its trades stored        *)
(* (WorkDone), below the floor (ImportsOfDays: no day lies in two months)  *)
(* or forsaken.  A day whose mark the tracker holds is not enqueued, which *)
(* is why MarksHaveJobs is needed.                                         *)
(***************************************************************************)
EXTENDS TradeRecovery, TLAPS

\* A job brings days, or a gap; what is left of it is part of it, and what is
\* not left is stored, if it has a partition.
ImportsOfDays == \A j \in Job : job[j].kind = "import" => job[j].span \in Days

WorkDone ==
    \A j \in Job :
        /\ job[j].left \subseteq job[j].span
        /\ job[j].running =>
              \A t \in job[j].span \ job[j].left : t >= floor => t \in stored

\* The audit begins with a tracked symbol, is behind the exchange, and has read a
\* cursor that only rotation has moved since; it works on a watermark that
\* GetSymbolsToAuditAsync returns.
AuditBehind ==
    /\ floor <= executed + 1
    /\ added <= executed + 1
    /\ status # "none" => added # 0
    /\ cursor <= executed
    /\ auditor # "idle" => seen <= cursor
    /\ auditor = "checked" => seen + AuditWindow <= executed

Audited ==
    /\ status # "Failed" => retries = 0
    /\ auditor # "idle" =>
          \/ status = "Pending"
          \/ status = "Failed" /\ retries < MaxRetries

\* The audit answers for the time since the symbol is tracked.
Passed(t) ==
    /\ t >= added
    /\ t <= cursor \/ (auditor = "checked" /\ t <= seen + AuditWindow)

Accounted(t) == InHand(t) \/ t \in blind \/ t \in forsaken

PassedAccounted ==
    \A t \in Trade : t >= floor /\ t \notin stored /\ Passed(t) => Accounted(t)

Base == TypeOK /\ ImportsOfDays /\ WorkDone /\ AuditBehind /\ Audited

IInv == Base /\ MarksHaveJobs /\ PassedAccounted

-----------------------------------------------------------------------------
(* Operators *)

\* Trades are numbers, days and gaps are sets of trades.
LEMMA Numbers ==
  ASSUME TypeOK
  PROVE  /\ Trade \subseteq Nat /\ executed \in Nat /\ floor \in Nat \ {0}
         /\ stored \subseteq Trade /\ queue \subseteq Trade
         /\ \A d \in Days : d \subseteq Trade
         /\ MonthStart \subseteq Trade
BY RecoveryAssumption DEF TypeOK, Trade

\* The boundaries of a gap are stored, and what lies between them is not.
LEMMA GapsAreTrades ==
  ASSUME TypeOK, NEW window
  PROVE  /\ Apart(window) \subseteq Trade \X Trade
         /\ \A g \in Apart(window) : g[1] \in stored /\ g[2] \in stored
BY Numbers DEF Apart

LEMMA BetweenIsTrades ==
  ASSUME NEW g \in Trade \X Trade
  PROVE  Between(g) \subseteq Trade
BY RecoveryAssumption DEF Between, Trade

\* What is lost has a partition.
LEMMA LostIsTrades ==
  ASSUME NEW S, S \subseteq Trade
  PROVE  Lost(S) \subseteq Trade
BY DEF Lost

\* A day does not lie on both sides of a floor.
LEMMA DayBelowFloor ==
  ASSUME TypeOK, NEW d \in Days, NEW t \in d, t < floor
  PROVE  \A u \in d : u < floor
<1>1. CASE floor = 1
  BY <1>1, RecoveryAssumption DEF Trade
<1>2. CASE floor \in MonthStart
  BY <1>2, RecoveryAssumption
<1> QED
  BY <1>1, <1>2 DEF TypeOK

\* An empty slot, a job that is put into one, an attempt that begins again.
LEMMA NoJobType == NoJob \in JobRecord
BY RecoveryAssumption DEF NoJob, JobRecord

NewJob(kind, span) == [NoJob EXCEPT !.kind = kind, !.span = span]

LEMMA NewJobType ==
  ASSUME NEW kind \in Kind, NEW span \in SUBSET Trade
  PROVE  /\ NewJob(kind, span) \in JobRecord
         /\ NewJob(kind, span).kind = kind /\ NewJob(kind, span).span = span
         /\ NewJob(kind, span).left = {} /\ ~NewJob(kind, span).running
<1>1. NoJob.left = {} /\ NoJob.running = FALSE /\ kind \in Kind \cup {"none"}
  BY DEF NoJob
<1> QED
  BY <1>1, NoJobType DEF JobRecord, NewJob

\* Reserve takes an empty slot.
LEMMA ReserveSlot ==
  ASSUME NEW kind, NEW span, Reserve(kind, span)
  PROVE  \E j \in Job :
            /\ Free(j)
            /\ job' = [job EXCEPT ![j] = NewJob(kind, span)]
            /\ <<kind, span>> \notin tracker
            /\ tracker' = tracker \cup {<<kind, span>>}
<1> DEFINE k == CHOOSE j \in Job : Free(j)
<1>1. k \in Job /\ Free(k)
  BY DEF Reserve
<1> QED
  BY <1>1 DEF Reserve, Enqueued, NewJob

\* A slot may get any record that brings days or a gap and owes nothing that is
\* not left.
LEMMA SlotFrame ==
  ASSUME TypeOK, ImportsOfDays, WorkDone,
         NEW j \in Job, NEW r \in JobRecord,
         job' = [job EXCEPT ![j] = r],
         r.kind = "import" => r.span \in Days,
         r.left \subseteq r.span,
         r.running => \A t \in r.span \ r.left : t >= floor => t \in stored',
         stored \subseteq stored', UNCHANGED floor
  PROVE  job' \in [Job -> JobRecord] /\ ImportsOfDays' /\ WorkDone'
<1>1. job \in [Job -> JobRecord]
  BY DEF TypeOK
<1>2. \A i \in Job : job'[i] = IF i = j THEN r ELSE job[i]
  BY <1>1
<1>3. job' \in [Job -> JobRecord]
  BY <1>1
<1>4. ImportsOfDays'
  BY <1>2 DEF ImportsOfDays
<1>5. WorkDone'
  BY <1>2 DEF WorkDone
<1> QED
  BY <1>3, <1>4, <1>5

\* What the jobs owe does not change while no slot does and nothing is lost
\* above the floor.
LEMMA SlotsRest ==
  ASSUME TypeOK, ImportsOfDays, WorkDone, UNCHANGED job,
         floor' \in Nat, floor' >= floor,
         \A t \in stored : t >= floor' => t \in stored'
  PROVE  ImportsOfDays' /\ WorkDone'
<1>1. ImportsOfDays'
  BY DEF ImportsOfDays
<1>2. ASSUME NEW j \in Job, job[j].running, NEW t \in job[j].span \ job[j].left, t >= floor'
      PROVE  t \in stored'
  <2>1. t \in Nat
    BY Numbers DEF TypeOK, JobRecord
  <2>2. t >= floor
    BY <1>2, <2>1, Numbers
  <2> QED
    BY <1>2, <2>2 DEF WorkDone
<1> QED
  BY <1>1, <1>2 DEF WorkDone

\* Marks keep their jobs while no slot and no mark changes.
LEMMA MarksRest ==
  ASSUME MarksHaveJobs, UNCHANGED <<tracker, job>>, orphans \subseteq orphans'
  PROVE  MarksHaveJobs'
BY DEF MarksHaveJobs, KeyOf

\* What the audit has passed stays accounted for if the frontier passes nothing
\* more and whatever accounted for a trade still does, or has stored it.
LEMMA AccountsRest ==
  ASSUME TypeOK, PassedAccounted, floor' \in Nat, floor' >= floor,
         \A t \in stored : t >= floor' => t \in stored',
         \A t \in Trade : t >= floor' /\ t \notin stored' /\ Passed(t)' => Passed(t),
         \A t \in Trade : t >= floor' /\ t \notin stored' /\ Accounted(t) => Accounted(t)'
  PROVE  PassedAccounted'
<1> SUFFICES ASSUME NEW t \in Trade, t >= floor', t \notin stored', Passed(t)'
             PROVE  Accounted(t)'
  BY DEF PassedAccounted, Trade
<1>1. t \in Nat /\ t >= floor
  BY Numbers
<1> QED
  BY <1>1 DEF PassedAccounted

-----------------------------------------------------------------------------
(* The exchange, the collector, the process *)

\* At first nothing is passed and nothing marked.
LEMMA InitIInv == Init => IInv
<1> SUFFICES ASSUME Init PROVE IInv
  OBVIOUS
<1> USE RecoveryAssumption DEF Init
<1>1. TypeOK
  BY NoJobType DEF TypeOK
<1>2. ImportsOfDays /\ WorkDone
  BY DEF ImportsOfDays, WorkDone, NoJob
<1>3. AuditBehind /\ Audited
  BY DEF AuditBehind, Audited
<1>4. MarksHaveJobs
  BY DEF MarksHaveJobs
<1>5. PassedAccounted
  BY DEF PassedAccounted, Passed, Trade
<1> QED
  BY <1>1, <1>2, <1>3, <1>4, <1>5 DEF IInv, Base

\* A new trade lies ahead of the audit.
LEMMA ExecuteIInv ==
  ASSUME IInv, Execute
  PROVE  IInv'
<1> USE DEF Execute, IInv, Base, watermark, audit, inMemory, history
<1>1. TypeOK'
  <2>1. executed' \in 0 .. LastTrade
    BY RecoveryAssumption DEF TypeOK
  <2>2. floor .. executed \subseteq floor' .. executed'
    BY RecoveryAssumption, Numbers
  <2>3. queue' \subseteq 1 .. executed'
    <3>1. queue' \subseteq queue \cup {executed + 1} /\ queue \subseteq 1 .. executed
      BY DEF TypeOK
    <3>2. (1 .. executed) \cup {executed + 1} \subseteq 1 .. executed'
      BY Numbers
    <3> QED
      BY <3>1, <3>2
  <2> QED
    BY <2>1, <2>2, <2>3 DEF TypeOK
<1>2. ImportsOfDays' /\ WorkDone'
  BY SlotsRest, Numbers
<1>3. AuditBehind' /\ Audited'
  BY RecoveryAssumption, Numbers DEF AuditBehind, Audited, TypeOK
<1>4. MarksHaveJobs'
  BY MarksRest
<1>5. PassedAccounted'
  BY DEF PassedAccounted, Passed, Accounted, InHand, Imported
<1> QED
  BY <1>1, <1>2, <1>3, <1>4, <1>5

\* The audit has not begun when the symbol is first tracked.
LEMMA TrackIInv ==
  ASSUME IInv, Track
  PROVE  IInv'
<1> USE DEF Track, IInv, Base, watermark, audit, inMemory, history
<1>1. TypeOK'
  <2>1. added' \in 0 .. LastTrade + 1
    BY RecoveryAssumption DEF TypeOK
  <2> QED
    BY <2>1 DEF TypeOK
<1>2. ImportsOfDays' /\ WorkDone'
  BY DEF ImportsOfDays, WorkDone
<1>3. AuditBehind' /\ Audited'
  BY Numbers DEF AuditBehind, Audited
<1>4. MarksHaveJobs'
  BY MarksRest
<1>5. PassedAccounted'
  <2>1. \A t \in Trade : Passed(t)' => Passed(t)
    BY Numbers DEF Passed, TypeOK
  <2> QED
    BY <2>1 DEF PassedAccounted, Accounted, InHand, Imported
<1> QED
  BY <1>1, <1>2, <1>3, <1>4, <1>5

\* What is stored needs no account; a queue that is dropped had none.
LEMMA SaveBufferIInv ==
  ASSUME IInv, SaveBuffer
  PROVE  IInv'
<1> USE DEF SaveBuffer, Insert, IInv, Base, watermark, inMemory
<1>0. stored \subseteq stored' /\ UNCHANGED <<floor, job>>
  OBVIOUS
<1>1. TypeOK'
  <2>1. stored' \subseteq floor .. executed
    <3>1. CASE UNCHANGED stored
      BY <3>1 DEF TypeOK
    <3>2. CASE Insert(queue)
      <4>1. ASSUME NEW t \in queue PROVE t \in floor .. executed
        BY <3>2, <4>1, Numbers DEF TypeOK, Insert, Accepts
      <4> QED
        BY <3>2, <4>1 DEF TypeOK
    <3> QED
      BY <3>1, <3>2
  <2> QED
    BY <2>1 DEF TypeOK
<1>2. ImportsOfDays' /\ WorkDone'
  BY <1>0, SlotsRest, Numbers
<1>3. AuditBehind' /\ Audited'
  BY DEF AuditBehind, Audited
<1>4. MarksHaveJobs'
  BY MarksRest
<1>5. PassedAccounted'
  BY DEF PassedAccounted, Passed, Accounted, InHand, Imported
<1> QED
  BY <1>1, <1>2, <1>3, <1>4, <1>5

LEMMA RestartIInv ==
  ASSUME IInv, Restart
  PROVE  IInv'
<1> USE DEF Restart, IInv, Base, watermark, audit, inMemory, history
<1>1. TypeOK'
  BY DEF TypeOK
<1>2. ImportsOfDays' /\ WorkDone' /\ AuditBehind' /\ Audited'
  BY DEF ImportsOfDays, WorkDone, AuditBehind, Audited
<1>3. MarksHaveJobs'
  BY MarksRest
<1>4. PassedAccounted'
  BY DEF PassedAccounted, Passed, Accounted, InHand, Imported
<1> QED
  BY <1>1, <1>2, <1>3, <1>4

\* Rotation takes a trade and its account together, and the cursor ahead only of
\* what it takes.
LEMMA RotateIInv ==
  ASSUME IInv, Rotate
  PROVE  IInv'
<1> USE DEF IInv, Base, inMemory
<1>1. PICK f \in MonthStart :
          /\ f > floor /\ f + KeepBack <= executed
          /\ floor' = f
          /\ stored' = {t \in stored : t >= f}
          /\ cursor' = IF status # "none" /\ cursor < f THEN f - 1 ELSE cursor
          /\ blind' = {t \in blind : t >= f}
          /\ forsaken' = {t \in forsaken : t >= f}
  BY DEF Rotate
<1>2. /\ UNCHANGED <<executed, added, up, queue, tracker, job, status, retries, orphans>>
      /\ UNCHANGED <<auditor, seen, lookups, days>>
  BY DEF Rotate
<1>3. f \in Nat \ {0} /\ cursor \in Nat /\ seen \in Nat /\ KeepBack \in Nat
  BY RecoveryAssumption DEF TypeOK, Trade
<1>4. TypeOK'
  <2>1. stored' \subseteq floor' .. executed'
    <3>1. ASSUME NEW t \in stored, t >= f PROVE t \in f .. executed
      BY <1>3, <3>1, Numbers DEF TypeOK
    <3> QED
      BY <1>1, <1>2, <3>1
  <2>2. cursor' \in Nat
    BY <1>1, <1>3
  <2> QED
    BY <1>1, <1>2, <2>1, <2>2 DEF TypeOK
<1>5. ImportsOfDays' /\ WorkDone'
  BY <1>1, <1>2, <1>3, Numbers, SlotsRest
<1>6. AuditBehind' /\ Audited'
  BY <1>1, <1>2, <1>3, Numbers DEF AuditBehind, Audited
<1>7. MarksHaveJobs'
  BY <1>2, MarksRest
<1>8. PassedAccounted'
  <2>1. ASSUME NEW t \in Trade, t >= floor', Passed(t)'
        PROVE  Passed(t)
    BY <1>1, <1>2, <1>3, <2>1, Numbers DEF Passed
  <2>2. ASSUME NEW t \in Trade, t >= floor', Accounted(t)
        PROVE  Accounted(t)'
    BY <1>1, <1>2, <2>2 DEF Accounted, InHand, Imported
  <2> QED
    BY <1>1, <1>3, <2>1, <2>2, Numbers, AccountsRest
<1> QED
  BY <1>4, <1>5, <1>6, <1>7, <1>8

-----------------------------------------------------------------------------
(* The historical audit *)

\* The audit's own steps leave slots, marks and trades alone, and need only
\* answer for the frontier and its accounts.
LEMMA AuditFrame ==
  ASSUME IInv,
         UNCHANGED <<executed, added, stored, floor, up, queue, tracker, job, orphans>>,
         cursor' \in Nat, seen' \in Nat, retries' \in 0 .. MaxRetries,
         status' \in {"none", "Pending", "Failed", "Completed"},
         auditor' \in {"idle", "read", "checked"},
         lookups' \subseteq Trade \X Trade, days' \subseteq Days,
         blind' \subseteq Trade, forsaken' \subseteq Trade,
         AuditBehind', Audited', PassedAccounted'
  PROVE  IInv'
<1> USE DEF IInv, Base
<1>1. TypeOK'
  BY DEF TypeOK
<1>2. ImportsOfDays' /\ WorkDone'
  BY DEF ImportsOfDays, WorkDone
<1>3. MarksHaveJobs'
  BY MarksRest
<1> QED
  BY <1>1, <1>2, <1>3

LEMMA InitAuditIInv ==
  ASSUME IInv, InitAudit
  PROVE  IInv'
<1> USE DEF InitAudit, IInv, Base, audit, inMemory, history
<1>1. /\ cursor' \in Nat /\ cursor' <= executed'
      /\ \A t \in Nat : t >= floor /\ t >= added => t > cursor'
  BY Numbers DEF AuditBehind, TypeOK
<1>2. AuditBehind' /\ Audited'
  <2>1. auditor = "idle"
    BY DEF Audited
  <2> QED
    BY <1>1, <2>1 DEF AuditBehind, Audited
<1>3. PassedAccounted'
  BY <1>1, Numbers DEF Audited, PassedAccounted, Passed, TypeOK, Trade
<1> QED
  BY <1>1, <1>2, <1>3, AuditFrame DEF TypeOK

LEMMA AuditBeginIInv ==
  ASSUME IInv, AuditBegin
  PROVE  IInv'
<1> USE DEF AuditBegin, IInv, Base, watermark, history
<1>1. AuditBehind' /\ Audited'
  BY DEF AuditBehind, Audited, TypeOK
<1>2. PassedAccounted'
  BY DEF PassedAccounted, Passed, Accounted, InHand, Imported
<1> QED
  BY <1>1, <1>2, AuditFrame DEF TypeOK

\* What follows UpdateWatermark: the status says how the audit went on, and what
\* lies behind the new cursor is accounted for.
LEMMA UpdateFrame ==
  ASSUME IInv, NEW timestamp \in Nat, NEW outcome \in {"Pending", "Failed", "Completed"},
         NEW failed \in BOOLEAN, failed <=> outcome = "Failed",
         auditor # "idle",
         UpdateWatermark(timestamp, outcome, failed),
         timestamp <= executed, blind' \subseteq Trade,
         \A t \in Trade : t >= floor /\ t \notin stored /\ t >= added /\ t <= timestamp =>
            Accounted(t) \/ t \in blind',
         blind \subseteq blind'
  PROVE  IInv'
<1> USE DEF UpdateWatermark, IInv, Base, history
<1>1. retries' = IF failed THEN retries + 1 ELSE 0
  BY DEF RetryCount
<1>2. retries' \in 0 .. MaxRetries
  BY <1>1, RecoveryAssumption DEF Audited, TypeOK
<1>3. AuditBehind' /\ Audited'
  BY <1>1 DEF AuditBehind, Audited
<1>4. PassedAccounted'
  BY DEF PassedAccounted, Passed, Accounted, InHand, Imported
<1> QED
  BY <1>2, <1>3, <1>4, AuditFrame DEF TypeOK

\* What the audit has read lies behind the cursor.
LEMMA SeenAccounted ==
  ASSUME IInv, auditor # "idle",
         NEW t \in Trade, t >= floor, t \notin stored, t >= added, t <= seen
  PROVE  Accounted(t)
<1>1. t <= cursor
  BY Numbers DEF IInv, Base, AuditBehind, TypeOK
<1> QED
  BY <1>1 DEF IInv, PassedAccounted, Passed

LEMMA ReachHotZoneIInv ==
  ASSUME IInv, ReachHotZone
  PROVE  IInv'
<1>1. seen \in Nat /\ seen <= executed
  BY Numbers DEF ReachHotZone, IInv, Base, AuditBehind, TypeOK
<1> QED
  BY <1>1, SeenAccounted, UpdateFrame DEF ReachHotZone, IInv, Base, TypeOK

LEMMA AuditFailsIInv ==
  ASSUME IInv, AuditFails
  PROVE  IInv'
<1>1. seen \in Nat /\ seen <= executed
  BY Numbers DEF AuditFails, IInv, Base, AuditBehind, TypeOK
<1> QED
  BY <1>1, SeenAccounted, UpdateFrame DEF AuditFails, IInv, Base, TypeOK

\* A window ahead of the hot zone is made of executed trades.
LEMMA WindowExecuted ==
  ASSUME IInv, ~InHotZone
  PROVE  /\ seen + AuditWindow \in Nat /\ seen + AuditWindow <= executed
         /\ Window \subseteq Trade
         /\ \A t \in Trade : t <= seen + AuditWindow => t <= seen \/ t \in Window
<1>1. seen \in Nat /\ AuditWindow \in Nat /\ HotZone \in Nat /\ executed \in 0 .. LastTrade
  BY RecoveryAssumption DEF IInv, Base, TypeOK
<1> QED
  BY <1>1, RecoveryAssumption DEF InHotZone, Window, Trade

LEMMA JumpOverIInv ==
  ASSUME IInv, JumpOver
  PROVE  IInv'
<1>1. /\ seen + AuditWindow \in Nat /\ seen + AuditWindow <= executed
      /\ Window \subseteq Trade
      /\ \A t \in Trade : t <= seen + AuditWindow => t <= seen \/ t \in Window
  BY WindowExecuted DEF JumpOver
<1>2. blind' = blind \cup Window /\ blind' \subseteq Trade
  BY <1>1 DEF JumpOver, IInv, Base, TypeOK
<1>3. \A t \in Trade : t >= floor /\ t \notin stored /\ t >= added /\ t <= seen + AuditWindow =>
         Accounted(t) \/ t \in blind'
  BY <1>1, <1>2, SeenAccounted DEF JumpOver
<1> QED
  BY <1>1, <1>2, <1>3, UpdateFrame DEF JumpOver

LEMMA AuditAdvanceIInv ==
  ASSUME IInv, AuditAdvance
  PROVE  IInv'
<1>1. seen + AuditWindow \in Nat /\ seen + AuditWindow <= executed
  BY RecoveryAssumption DEF AuditAdvance, IInv, Base, AuditBehind, TypeOK
<1>2. \A t \in Trade : t >= floor /\ t \notin stored /\ t >= added /\ t <= seen + AuditWindow =>
         Accounted(t)
  BY DEF AuditAdvance, IInv, PassedAccounted, Passed
<1> QED
  BY <1>1, <1>2, UpdateFrame DEF AuditAdvance, IInv, Base, TypeOK

\* A missing trade of a checked window lies in one of its gaps or is blind.
LEMMA CheckIInv ==
  ASSUME IInv, Check
  PROVE  IInv'
<1> USE DEF Check
<1>1. /\ seen + AuditWindow \in Nat /\ seen + AuditWindow <= executed
      /\ Window \subseteq Trade
      /\ \A t \in Trade : t <= seen + AuditWindow => t <= seen \/ t \in Window
  BY WindowExecuted
<1>2. lookups' \subseteq Trade \X Trade /\ blind' \subseteq Trade
  BY <1>1, GapsAreTrades DEF IInv, Base, TypeOK
<1>3. AuditBehind' /\ Audited'
  BY <1>1 DEF IInv, Base, AuditBehind, Audited, watermark
<1>4. ASSUME NEW t \in Trade, t >= floor, t \notin stored, Passed(t)'
      PROVE  Accounted(t)'
  <2>1. CASE t \in Window
    <3>1. CASE t \in Inside(Window)
      <4>1. PICK g \in Apart(Window) : t \in Between(g)
        BY <3>1 DEF Inside
      <4> QED
        BY <4>1 DEF Accounted, InHand
    <3>2. CASE t \notin Inside(Window)
      BY <1>4, <2>1, <3>2 DEF Accounted
    <3> QED
      BY <3>1, <3>2
  <2>2. CASE t \notin Window
    <3>1. Passed(t)
      BY <1>1, <1>4, <2>2, Numbers DEF Passed, watermark, IInv, Base, AuditBehind, TypeOK
    <3>2. Accounted(t)
      BY <1>4, <3>1 DEF IInv, PassedAccounted
    <3> QED
      BY <2>2, <3>2 DEF Accounted, InHand, Imported, history
  <2> QED
    BY <2>1, <2>2
<1>5. PassedAccounted'
  BY <1>4 DEF PassedAccounted, Trade
<1> QED
  BY <1>1, <1>2, <1>3, <1>5, AuditFrame DEF IInv, Base, TypeOK, watermark, history

\* Where a gap has been, the days are that it touches.
LEMMA LookupIInv ==
  ASSUME IInv, NEW g \in lookups,
         lookups' = lookups \ {g},
         days' = days \cup DatesBetween(g[1], g[2]),
         UNCHANGED <<executed, added, stored, floor, up, queue, tracker, job,
                     watermark, auditor, seen, blind, history>>
  PROVE  IInv'
<1> USE DEF watermark, history
<1>1. g \in Trade \X Trade /\ g[1] \in Nat /\ g[2] \in Nat
  BY Numbers DEF IInv, Base, TypeOK
<1>2. ASSUME NEW t \in Between(g)
      PROVE  \E d \in days' : t \in d
  <2>1. t \in Trade /\ g[1] <= t /\ t <= g[2]
    BY <1>1, <1>2, BetweenIsTrades DEF Between
  <2>2. PICK d \in Days : t \in d
    BY <2>1, RecoveryAssumption
  <2> QED
    BY <2>1, <2>2 DEF DatesBetween, DaysTouched
<1>3. days' \subseteq Days /\ lookups' \subseteq Trade \X Trade
  BY DEF DatesBetween, DaysTouched, IInv, Base, TypeOK
<1>4. AuditBehind' /\ Audited'
  BY DEF IInv, Base, AuditBehind, Audited
<1>5. \A t \in Trade : Accounted(t) => Accounted(t)'
  BY <1>2 DEF Accounted, InHand, Imported
<1>6. PassedAccounted'
  BY <1>5 DEF IInv, PassedAccounted, Passed
<1> QED
  BY <1>3, <1>4, <1>6, AuditFrame DEF IInv, Base, TypeOK

\* The end of the process forsakes what was in memory; imports stay.
LEMMA HaltIInv ==
  ASSUME IInv, Halt
  PROVE  IInv'
<1> USE DEF IInv, Base
<1> DEFINE remembered == (UNION days) \cup UNION {Between(g) : g \in lookups}
<1>0. \A t : t \in remembered <=>
          (\E d \in days : t \in d) \/ (\E g \in lookups : t \in Between(g))
  OBVIOUS
<1>1. PICK cut \in SUBSET {j \in Job : job[j].kind = "fill" /\ job[j].running
                                       /\ job[j].left = job[j].span} :
          job' = [j \in Job |-> IF j \in cut THEN NoJob
                                ELSE [job[j] EXCEPT !.running = FALSE, !.left = {}]]
  BY DEF Halt
<1>2. /\ up' = FALSE /\ queue' = {} /\ tracker' = {} /\ orphans' = {}
      /\ lookups' = {} /\ days' = {} /\ auditor' = "idle" /\ seen' = 0
      /\ forsaken' = forsaken \cup Lost(remembered)
      /\ UNCHANGED <<executed, added, stored, floor, cursor, status, retries, blind>>
  BY DEF Halt, watermark
<1> HIDE DEF remembered
<1>3. ASSUME NEW j \in Job
      PROVE  /\ job'[j] \in JobRecord
             /\ job'[j].left = {} /\ job'[j].running = FALSE
             /\ job'[j].kind = "import" =>
                   job[j].kind = "import" /\ job'[j].span = job[j].span
             /\ job[j].kind = "import" =>
                   job'[j].kind = "import" /\ job'[j].span = job[j].span
  <2>1. CASE j \in cut
    <3>1. job'[j] = NoJob /\ job[j].kind = "fill"
      BY <1>1, <2>1
    <3> QED
      BY <3>1, NoJobType DEF NoJob
  <2>2. CASE j \notin cut
    <3>1. job[j] \in JobRecord /\ job'[j] = [job[j] EXCEPT !.running = FALSE, !.left = {}]
      BY <1>1, <2>2 DEF TypeOK
    <3> QED
      BY <3>1 DEF JobRecord
  <2> QED
    BY <2>1, <2>2
<1>4. remembered \subseteq Trade
  <2>1. ASSUME NEW g \in lookups PROVE Between(g) \subseteq Trade
    BY BetweenIsTrades DEF TypeOK
  <2>2. ASSUME NEW d \in days PROVE d \subseteq Trade
    BY Numbers DEF TypeOK
  <2> QED
    BY <1>0, <2>1, <2>2
<1>5. TypeOK'
  <2>1. job' \in [Job -> JobRecord]
    <3>1. job' = [j \in Job |-> job'[j]]
      BY <1>1
    <3> QED
      BY <1>3, <3>1
  <2>2. forsaken' \subseteq Trade
    BY <1>2, <1>4, LostIsTrades DEF TypeOK
  <2> QED
    BY <1>2, <2>1, <2>2 DEF TypeOK
<1>6. ImportsOfDays' /\ WorkDone'
  BY <1>3 DEF ImportsOfDays, WorkDone
<1>7. AuditBehind' /\ Audited' /\ MarksHaveJobs'
  BY <1>2 DEF AuditBehind, Audited, MarksHaveJobs
<1>8. PassedAccounted'
  <2> SUFFICES ASSUME NEW t \in Trade, t >= floor, t \notin stored, t >= added, t <= cursor
               PROVE  Accounted(t)'
    BY <1>2 DEF PassedAccounted, Passed
  <2>1. Accounted(t)
    BY DEF PassedAccounted, Passed
  <2>2. CASE Imported(t)
    BY <1>3, <2>2 DEF Accounted, InHand, Imported
  <2>3. CASE t \in remembered
    BY <1>2, <2>3 DEF Lost, Accounted
  <2>4. CASE t \in blind \/ t \in forsaken
    BY <1>2, <2>4 DEF Accounted
  <2> QED
    BY <1>0, <2>1, <2>2, <2>3, <2>4 DEF Accounted, InHand
<1> QED
  BY <1>5, <1>6, <1>7, <1>8

-----------------------------------------------------------------------------
(* Slots *)

\* A step on one slot that leaves the audit's frontier alone.
LEMMA SlotStep ==
  ASSUME IInv, NEW j \in Job, NEW r \in JobRecord,
         job' = [job EXCEPT ![j] = r],
         r.kind = "import" => r.span \in Days,
         r.left \subseteq r.span,
         r.running => \A t \in r.span \ r.left : t >= floor => t \in stored',
         stored \subseteq stored', stored' \subseteq floor .. executed,
         tracker' \subseteq Kind \X SUBSET Trade, orphans' \subseteq Kind \X SUBSET Trade,
         days' \subseteq Days, blind' \subseteq Trade, forsaken' \subseteq Trade,
         UNCHANGED <<executed, added, floor, up, queue, watermark, auditor, seen, lookups>>,
         MarksHaveJobs',
         \A t \in Trade : t >= floor /\ t \notin stored' /\ Accounted(t) => Accounted(t)'
  PROVE  IInv'
<1> USE DEF IInv, Base, watermark
<1>1. job' \in [Job -> JobRecord] /\ ImportsOfDays' /\ WorkDone'
  BY SlotFrame
<1>2. TypeOK'
  BY <1>1 DEF TypeOK
<1>3. AuditBehind' /\ Audited'
  BY DEF AuditBehind, Audited
<1>4. PassedAccounted'
  BY DEF PassedAccounted, Passed
<1> QED
  BY <1>1, <1>2, <1>3, <1>4

\* What a slot holds, and what follows from overwriting it.
LEMMA SlotFacts ==
  ASSUME IInv, NEW j \in Job
  PROVE  /\ job[j] \in JobRecord
         /\ job[j].span \subseteq Trade
         /\ job[j].kind \in Kind \cup {"none"}
         /\ KeyOf(j) = <<job[j].kind, job[j].span>>
         /\ ~Free(j) => KeyOf(j) \in Kind \X SUBSET Trade
BY DEF IInv, Base, TypeOK, JobRecord, KeyOf, Free

\* A slot that keeps its job keeps marks and imports.
LEMMA SameJob ==
  ASSUME IInv, NEW j \in Job, NEW r \in JobRecord,
         job' = [job EXCEPT ![j] = r],
         r.kind = job[j].kind, r.span = job[j].span
  PROVE  /\ \A i \in Job : KeyOf(i)' = KeyOf(i)
         /\ \A t : Imported(t) => Imported(t)'
<1>1. job \in [Job -> JobRecord]
  BY DEF IInv, Base, TypeOK
<1>2. \A i \in Job : job'[i].kind = job[i].kind /\ job'[i].span = job[i].span
  BY <1>1
<1> QED
  BY <1>2 DEF KeyOf, Imported

\* A slot that is freed takes only its own import along.
LEMMA FreedJob ==
  ASSUME IInv, NEW j \in Job, job' = [job EXCEPT ![j] = NoJob]
  PROVE  /\ \A i \in Job \ {j} : KeyOf(i)' = KeyOf(i)
         /\ \A t : Imported(t) /\ ~Imported(t)' => job[j].kind = "import" /\ t \in job[j].span
<1>1. job \in [Job -> JobRecord]
  BY DEF IInv, Base, TypeOK
<1>2. \A i \in Job \ {j} : job'[i] = job[i]
  BY <1>1
<1> QED
  BY <1>2 DEF KeyOf, Imported

\* Hangfire starts a job with all of its span left.
LEMMA StartIInv ==
  ASSUME IInv, NEW j \in Job, Start(j)
  PROVE  IInv'
<1> DEFINE r == [job[j] EXCEPT !.running = TRUE, !.left = job[j].span]
<1>1. job[j] \in JobRecord /\ job \in [Job -> JobRecord]
  BY DEF IInv, Base, TypeOK
<1>2. r \in JobRecord /\ r.kind = job[j].kind /\ r.span = job[j].span /\ r.left = job[j].span
  BY <1>1 DEF JobRecord
<1>3. job' = [job EXCEPT ![j] = r]
  BY <1>1 DEF Start
<1> HIDE DEF r
<1>4. UNCHANGED <<executed, added, stored, floor, up, queue, tracker, watermark, inMemory, blind, history>>
  BY DEF Start, audit
<1>5. MarksHaveJobs'
  BY <1>2, <1>3, <1>4, SameJob DEF IInv, MarksHaveJobs, history
<1>6. \A t : Accounted(t) => Accounted(t)'
  BY <1>2, <1>3, <1>4, SameJob DEF Accounted, InHand, inMemory, history
<1> QED
  BY <1>2, <1>3, <1>4, <1>5, <1>6, SlotStep DEF IInv, Base, TypeOK, ImportsOfDays, inMemory, history

\* Taking a mark away with its job leaves the others their jobs.
LEMMA UnmarkedFreed ==
  ASSUME IInv, NEW j \in Job, job' = [job EXCEPT ![j] = NoJob],
         tracker' = tracker \ {KeyOf(j)}, orphans' = orphans \ {KeyOf(j)}
  PROVE  MarksHaveJobs'
<1> SUFFICES ASSUME NEW k \in tracker', k \notin orphans'
             PROVE  \E i \in Job : KeyOf(i)' = k
  BY DEF MarksHaveJobs
<1>1. k \in tracker /\ k # KeyOf(j) /\ k \notin orphans
  OBVIOUS
<1>2. PICK i \in Job : KeyOf(i) = k
  BY <1>1 DEF IInv, MarksHaveJobs
<1>3. i # j
  BY <1>1, <1>2
<1> QED
  BY <1>2, <1>3, FreedJob

\* A finished job may go when all that it was to bring is stored or has no
\* partition any more.
LEMMA FinishIInv ==
  ASSUME IInv, NEW j \in Job, Finish(j),
         stored \subseteq stored', stored' \subseteq floor .. executed,
         \A t \in job[j].span : t >= floor => t \in stored',
         blind' \subseteq blind, forsaken' \subseteq forsaken,
         \A t \in Trade : t \notin stored' =>
            (t \in blind => t \in blind') /\ (t \in forsaken => t \in forsaken'),
         UNCHANGED <<executed, added, floor, up, queue, watermark, inMemory>>
  PROVE  IInv'
<1> USE DEF Finish, Unmarked, inMemory
<1>1. MarksHaveJobs'
  BY UnmarkedFreed
<1>2. ASSUME NEW t \in Trade, t >= floor, t \notin stored', Accounted(t)
      PROVE  Accounted(t)'
  <2>1. CASE Imported(t)
    BY <1>2, <2>1, FreedJob DEF Accounted, InHand
  <2>2. CASE ~Imported(t)
    BY <1>2, <2>2 DEF Accounted, InHand
  <2> QED
    BY <2>1, <2>2
<1>3. NoJob.kind # "import" /\ NoJob.left = {} /\ ~NoJob.running
  BY DEF NoJob
<1> QED
  BY <1>1, <1>2, <1>3, NoJobType, SlotStep DEF IInv, Base, TypeOK

\* A day of which one trade is below the floor lies wholly below it.
LEMMA SkipBelowFloorIInv ==
  ASSUME IInv, NEW j \in Job, SkipBelowFloor(j)
  PROVE  IInv'
<1>1. job[j].span \in Days
  BY DEF SkipBelowFloor, IInv, Base, ImportsOfDays
<1>2. PICK t \in job[j].span : ~(t >= floor)
  BY DEF SkipBelowFloor, Accepts
<1>3. \A u \in job[j].span : u \in Nat
  BY SlotFacts, Numbers DEF IInv, Base
<1>4. \A u \in job[j].span : u < floor
  BY <1>1, <1>2, <1>3, Numbers, DayBelowFloor DEF IInv, Base
<1>5. \A u \in job[j].span : ~(u >= floor)
  BY <1>3, <1>4, Numbers DEF IInv, Base
<1> QED
  BY <1>5, FinishIInv DEF SkipBelowFloor, audit, IInv, Base, TypeOK

\* A batch is stored and no longer left; after the last one all of the job is.
LEMMA BringIInv ==
  ASSUME IInv, NEW j \in Job, Bring(j)
  PROVE  IInv'
<1>1. PICK t \in job[j].left :
          LET batch == {u \in job[j].left : u <= t}
          IN  /\ Insert(batch)
              /\ \/ batch = job[j].left /\ Finish(j)
                 \/ /\ batch # job[j].left
                    /\ job' = [job EXCEPT ![j].left = @ \ batch]
                    /\ UNCHANGED <<tracker, orphans>>
  BY DEF Bring
<1> DEFINE batch == {u \in job[j].left : u <= t}
           r == [job[j] EXCEPT !.left = @ \ batch]
<1>2. /\ job[j] \in JobRecord /\ job \in [Job -> JobRecord]
      /\ batch \subseteq job[j].left /\ job[j].left \subseteq job[j].span
      /\ job[j].span \subseteq Trade /\ job[j].span \subseteq 1 .. executed
  BY SlotFacts DEF IInv, Base, TypeOK, WorkDone, Bring
<1>3. /\ Insert(batch)
      /\ \/ batch = job[j].left /\ Finish(j)
         \/ job' = [job EXCEPT ![j] = r] /\ UNCHANGED <<tracker, orphans>>
  BY <1>1, <1>2
<1>4. r \in JobRecord /\ r.kind = job[j].kind /\ r.span = job[j].span /\ r.left = job[j].left \ batch
  BY <1>2 DEF JobRecord
<1> HIDE DEF batch, r
<1>5. /\ UNCHANGED <<executed, added, floor, up, queue, watermark, inMemory>>
      /\ stored' = stored \cup batch /\ blind' = blind \ batch /\ forsaken' = forsaken \ batch
  BY <1>3 DEF Bring, Insert
<1>6. stored' \subseteq floor .. executed
  <2>1. ASSUME NEW u \in batch PROVE u \in floor .. executed
    BY <1>2, <1>3, <2>1, Numbers DEF Insert, Accepts, IInv, Base
  <2> QED
    BY <1>5, <2>1 DEF IInv, Base, TypeOK
<1>7. \A u \in job[j].span : u >= floor /\ u \notin job[j].left \ batch => u \in stored'
  BY <1>5 DEF Bring, IInv, Base, WorkDone
<1>8. CASE batch = job[j].left /\ Finish(j)
  BY <1>5, <1>6, <1>7, <1>8, FinishIInv
<1>9. CASE job' = [job EXCEPT ![j] = r] /\ UNCHANGED <<tracker, orphans>>
  <2>1. MarksHaveJobs'
    BY <1>4, <1>9, SameJob DEF IInv, MarksHaveJobs
  <2>2. \A u \in Trade : u \notin stored' /\ Accounted(u) => Accounted(u)'
    BY <1>4, <1>5, <1>9, SameJob DEF Accounted, InHand, inMemory
  <2>3. blind' \subseteq Trade /\ forsaken' \subseteq Trade
    BY <1>5 DEF IInv, Base, TypeOK
  <2>4. r.kind = "import" => r.span \in Days
    BY <1>4 DEF IInv, Base, ImportsOfDays
  <2>5. /\ tracker' \subseteq Kind \X SUBSET Trade /\ orphans' \subseteq Kind \X SUBSET Trade
        /\ days' \subseteq Days
    BY <1>5, <1>9 DEF IInv, Base, TypeOK, inMemory
  <2> QED
    BY <1>2, <1>4, <1>5, <1>6, <1>7, <1>9, <2>1, <2>2, <2>3, <2>4, <2>5, SlotStep DEF inMemory
<1> QED
  BY <1>3, <1>8, <1>9

\* A job that is put back keeps its import and its key, and owes nothing.
LEMMA RequeueIInv ==
  ASSUME IInv, NEW j \in Job, job[j].tries < Attempts, Requeue(j),
         \/ UNCHANGED tracker /\ UNCHANGED orphans
         \/ tracker' = tracker \ {KeyOf(j)} /\ orphans' = orphans \ {KeyOf(j)},
         UNCHANGED <<executed, added, stored, floor, up, queue, watermark, audit, forsaken>>
  PROVE  IInv'
<1> DEFINE r == [job[j] EXCEPT !.running = FALSE, !.left = {}, !.tries = @ + 1]
<1>1. job[j] \in JobRecord /\ job \in [Job -> JobRecord] /\ job[j].tries + 1 \in 0 .. Attempts
  <2>1. job[j] \in JobRecord /\ job \in [Job -> JobRecord]
    BY DEF IInv, Base, TypeOK
  <2>2. job[j].tries \in 0 .. Attempts
    BY <2>1 DEF JobRecord
  <2> QED
    BY <2>1, <2>2, RecoveryAssumption
<1>2. /\ r \in JobRecord /\ r.kind = job[j].kind /\ r.span = job[j].span
      /\ r.left = {} /\ ~r.running
  BY <1>1 DEF JobRecord
<1>3. job' = [job EXCEPT ![j] = r]
  BY <1>1 DEF Requeue
<1> HIDE DEF r
<1>4. MarksHaveJobs'
  BY <1>2, <1>3, SameJob DEF IInv, MarksHaveJobs
<1>5. \A t : Accounted(t) => Accounted(t)'
  BY <1>2, <1>3, SameJob DEF Accounted, InHand, audit, inMemory
<1>6. r.kind = "import" => r.span \in Days
  BY <1>2 DEF IInv, Base, ImportsOfDays
<1> QED
  BY <1>2, <1>3, <1>4, <1>5, <1>6, SlotStep DEF IInv, Base, TypeOK, audit, inMemory

\* What a discarded import still had to bring is forsaken.
LEMMA DiscardIInv ==
  ASSUME IInv, NEW j \in Job, NEW lost, Discard(j, lost), lost \subseteq job[j].span,
         \A t \in job[j].span \ lost : t >= floor => t \in stored,
         MarksHaveJobs', tracker' \subseteq tracker,
         orphans' \subseteq Kind \X SUBSET Trade,
         UNCHANGED <<executed, added, stored, floor, up, queue, watermark, audit>>
  PROVE  IInv'
<1> USE DEF Discard, audit, inMemory
<1>1. forsaken' \subseteq Trade
  <2>1. Lost(lost) \subseteq Trade
    BY SlotFacts, LostIsTrades
  <2> QED
    BY <2>1 DEF IInv, Base, TypeOK
<1>2. ASSUME NEW t \in Trade, t >= floor, t \notin stored, Accounted(t)
      PROVE  Accounted(t)'
  <2>1. CASE Imported(t) /\ ~Imported(t)'
    <3>1. job[j].kind = "import" /\ t \in job[j].span
      BY <2>1, FreedJob
    <3>2. t \in Lost(lost)
      BY <1>2, <3>1 DEF Lost
    <3> QED
      BY <3>1, <3>2 DEF Accounted
  <2>2. CASE ~Imported(t) \/ Imported(t)'
    BY <1>2, <2>2 DEF Accounted, InHand
  <2> QED
    BY <2>1, <2>2
<1>3. NoJob.kind # "import" /\ NoJob.left = {} /\ ~NoJob.running
  BY DEF NoJob
<1> QED
  BY <1>1, <1>2, <1>3, NoJobType, SlotStep DEF IInv, Base, TypeOK

LEMMA AttemptFailsIInv ==
  ASSUME IInv, NEW j \in Job, AttemptFails(j)
  PROVE  IInv'
<1> USE DEF AttemptFails, Unmarked
<1>1. CASE job[j].tries < Attempts /\ Requeue(j) /\ UNCHANGED forsaken
  BY <1>1, RequeueIInv
<1>2. CASE Discard(j, job[j].left)
  <2>1. MarksHaveJobs'
    BY <1>2, UnmarkedFreed DEF Discard
  <2>2. job[j].left \subseteq job[j].span
    BY DEF IInv, Base, WorkDone
  <2>3. \A t \in job[j].span \ job[j].left : t >= floor => t \in stored
    BY DEF IInv, Base, WorkDone
  <2> QED
    BY <1>2, <2>1, <2>2, <2>3, DiscardIInv DEF IInv, Base, TypeOK
<1> QED
  BY <1>1, <1>2

\* The mark of a job that is given up before its method runs has another job
\* with its key, or becomes an orphan.
LEMMA LockTimeoutIInv ==
  ASSUME IInv, NEW j \in Job, LockTimeout(j)
  PROVE  IInv'
<1> USE DEF LockTimeout
<1>1. CASE job[j].tries < Attempts /\ Requeue(j) /\ UNCHANGED history
  BY <1>1, RequeueIInv DEF history
<1>2. CASE /\ Discard(j, job[j].span)
           /\ orphans' = orphans \cup {k \in tracker : k = KeyOf(j) /\ Only(j)}
  <2>1. MarksHaveJobs'
    <3> SUFFICES ASSUME NEW k \in tracker, k \notin orphans'
                 PROVE  \E i \in Job : KeyOf(i)' = k
      BY DEF MarksHaveJobs
    <3>1. PICK i \in Job : KeyOf(i) = k
      BY <1>2 DEF IInv, MarksHaveJobs
    <3>2. PICK n \in Job \ {j} : KeyOf(n) = k
      BY <1>2, <3>1 DEF Only
    <3> QED
      BY <1>2, <3>2, FreedJob DEF Discard
  <2>2. orphans' \subseteq Kind \X SUBSET Trade
    BY <1>2 DEF IInv, Base, TypeOK
  <2> QED
    BY <1>2, <2>1, <2>2, DiscardIInv
<1> QED
  BY <1>1, <1>2

-----------------------------------------------------------------------------
(* The tracker *)

\* A reserved key has a job, of the trades that are to be brought.
LEMMA ReserveFacts ==
  ASSUME IInv, NEW kind \in Kind, NEW span \in SUBSET Trade, Reserve(kind, span),
         UNCHANGED orphans
  PROVE  /\ MarksHaveJobs'
         /\ tracker' \subseteq Kind \X SUBSET Trade
         /\ \A t : Imported(t) => Imported(t)'
         /\ kind = "import" => \A t \in span : Imported(t)'
         /\ \E j \in Job, r \in JobRecord :
               /\ job' = [job EXCEPT ![j] = r]
               /\ r.kind = kind /\ r.span = span /\ r.left = {} /\ ~r.running
<1>1. PICK j \in Job :
          /\ Free(j)
          /\ job' = [job EXCEPT ![j] = NewJob(kind, span)]
          /\ tracker' = tracker \cup {<<kind, span>>}
  BY ReserveSlot
<1> DEFINE r == NewJob(kind, span)
<1>2. r \in JobRecord /\ r.kind = kind /\ r.span = span /\ r.left = {} /\ ~r.running
  BY NewJobType
<1>3. job' = [job EXCEPT ![j] = r] /\ job \in [Job -> JobRecord]
  BY <1>1, <1>2 DEF IInv, Base, TypeOK
<1>4. job'[j] = r /\ \A i \in Job \ {j} : job'[i] = job[i]
  BY <1>3
<1>5. MarksHaveJobs'
  <2> SUFFICES ASSUME NEW k \in tracker', k \notin orphans
               PROVE  \E i \in Job : KeyOf(i)' = k
    BY DEF MarksHaveJobs
  <2>1. CASE k = <<kind, span>>
    BY <1>2, <1>4, <2>1 DEF KeyOf
  <2>2. CASE k \in tracker
    <3>1. PICK i \in Job : KeyOf(i) = k
      BY <2>2 DEF IInv, MarksHaveJobs
    <3>2. i # j
      <4>1. k[1] \in Kind
        BY <2>2 DEF IInv, Base, TypeOK
      <4> QED
        BY <1>1, <3>1, <4>1 DEF Free, KeyOf, Kind
    <3> QED
      BY <1>4, <3>1, <3>2 DEF KeyOf
  <2> QED
    BY <1>1, <2>1, <2>2
<1>6. tracker' \subseteq Kind \X SUBSET Trade
  BY <1>1 DEF IInv, Base, TypeOK
<1>7. \A t : Imported(t) => Imported(t)'
  BY <1>1, <1>4 DEF Imported, Free
<1>8. kind = "import" => \A t \in span : Imported(t)'
  BY <1>2, <1>4 DEF Imported
<1> QED
  BY <1>2, <1>3, <1>5, <1>6, <1>7, <1>8

LEMMA QuickHandleIInv ==
  ASSUME IInv, QuickHandle
  PROVE  IInv'
<1>0. PICK w \in QuickWindows : \E g \in Apart(w) : Reserve("fill", Between(g))
  BY DEF QuickHandle
<1>1. PICK g \in Apart(w) : Reserve("fill", Between(g))
  BY <1>0
<1>2. Between(g) \in SUBSET Trade
  BY GapsAreTrades, BetweenIsTrades DEF IInv, Base
<1>3. UNCHANGED <<executed, added, stored, floor, up, queue, watermark, inMemory, blind, forsaken, orphans>>
  BY DEF QuickHandle, audit, history
<1>4. PICK j \in Job, r \in JobRecord :
          /\ job' = [job EXCEPT ![j] = r]
          /\ r.kind = "fill" /\ r.span = Between(g) /\ r.left = {} /\ ~r.running
  <2>1. "fill" \in Kind /\ UNCHANGED orphans
    BY <1>3 DEF Kind
  <2> QED
    BY <1>1, <1>2, <2>1, ReserveFacts
<1>5. MarksHaveJobs' /\ tracker' \subseteq Kind \X SUBSET Trade
  BY <1>1, <1>2, <1>3, ReserveFacts DEF Kind
<1>6. \A t : Accounted(t) => Accounted(t)'
  BY <1>1, <1>2, <1>3, ReserveFacts DEF Kind, Accounted, InHand, inMemory
<1> QED
  BY <1>3, <1>4, <1>5, <1>6, SlotStep DEF IInv, Base, TypeOK, inMemory

\* A gap that stays marked without a job is an orphan.
LEMMA EnqueueFailsIInv ==
  ASSUME IInv, EnqueueFails
  PROVE  IInv'
<1> USE DEF IInv, Base, watermark, audit, inMemory
<1>0. PICK w \in QuickWindows : \E g \in Apart(w) :
          /\ tracker' = tracker \cup {<<"fill", Between(g)>>}
          /\ orphans' = orphans \cup {<<"fill", Between(g)>>}
  BY DEF EnqueueFails
<1>1. PICK g \in Apart(w) :
          /\ tracker' = tracker \cup {<<"fill", Between(g)>>}
          /\ orphans' = orphans \cup {<<"fill", Between(g)>>}
  BY <1>0
<1>2. <<"fill", Between(g)>> \in Kind \X SUBSET Trade
  BY GapsAreTrades, BetweenIsTrades DEF Kind
<1>3. UNCHANGED <<executed, added, stored, floor, up, queue, job, watermark, audit, forsaken>>
  BY DEF EnqueueFails
<1>4. TypeOK'
  BY <1>1, <1>2, <1>3 DEF TypeOK
<1>5. ImportsOfDays' /\ WorkDone' /\ AuditBehind' /\ Audited'
  BY <1>3 DEF ImportsOfDays, WorkDone, AuditBehind, Audited
<1>6. MarksHaveJobs'
  BY <1>1, <1>3 DEF MarksHaveJobs, KeyOf
<1>7. PassedAccounted'
  BY <1>3 DEF PassedAccounted, Passed, Accounted, InHand, Imported
<1> QED
  BY <1>4, <1>5, <1>6, <1>7

\* A day that leaves memory is imported, or marked: by a job that imports it, or
\* by an orphan, and then it is forsaken.
LEMMA ScheduleDayIInv ==
  ASSUME IInv, NEW d \in Days, ScheduleDay(d)
  PROVE  IInv'
<1>1. /\ UNCHANGED <<executed, added, stored, floor, up, queue, watermark, auditor, seen,
                     lookups, blind, orphans>>
      /\ days' = days \ {d} /\ days' \subseteq Days /\ d \in SUBSET Trade
  BY Numbers DEF ScheduleDay, IInv, Base, TypeOK
<1>2. CASE Reserve("import", d) /\ forsaken' = forsaken \ d
  <2>1. "import" \in Kind /\ UNCHANGED orphans
    BY <1>1 DEF Kind
  <2>2. /\ MarksHaveJobs' /\ tracker' \subseteq Kind \X SUBSET Trade
        /\ \A t : Imported(t) => Imported(t)'
        /\ \A t \in d : Imported(t)'
    BY <1>1, <1>2, <2>1, ReserveFacts
  <2>3. PICK j \in Job, r \in JobRecord :
            /\ job' = [job EXCEPT ![j] = r]
            /\ r.span = d /\ r.left = {} /\ ~r.running
    BY <1>1, <1>2, <2>1, ReserveFacts
  <2>4. \A t : Accounted(t) => Accounted(t)'
    BY <1>1, <1>2, <2>2 DEF Accounted, InHand
  <2>5. forsaken' \subseteq Trade
    BY <1>2 DEF IInv, Base, TypeOK
  <2> QED
    BY <1>1, <2>2, <2>3, <2>4, <2>5, SlotStep DEF IInv, Base, TypeOK
<1>3. CASE /\ <<"import", d>> \in tracker
           /\ forsaken' = IF <<"import", d>> \in orphans THEN forsaken \cup Lost(d) ELSE forsaken
           /\ UNCHANGED <<tracker, job>>
  <2>1. ASSUME NEW t \in d, t >= floor, t \notin stored
        PROVE  Accounted(t)'
    <3>1. CASE <<"import", d>> \in orphans
      BY <1>3, <2>1, <3>1 DEF Lost, Accounted
    <3>2. CASE <<"import", d>> \notin orphans
      <4>1. PICK j \in Job : KeyOf(j) = <<"import", d>>
        BY <1>3, <3>2 DEF IInv, MarksHaveJobs
      <4> QED
        BY <1>3, <4>1 DEF KeyOf, Imported, InHand, Accounted
    <3> QED
      BY <3>1, <3>2
  <2>2. \A t \in Trade : t \notin d /\ Accounted(t) => Accounted(t)'
    BY <1>1, <1>3 DEF Accounted, InHand, Imported
  <2>3. forsaken' \subseteq Trade
    BY <1>1, <1>3, LostIsTrades DEF IInv, Base, TypeOK
  <2>4. AuditBehind' /\ Audited'
    BY <1>1 DEF IInv, Base, AuditBehind, Audited, watermark
  <2>5. PassedAccounted'
    BY <1>1, <2>1, <2>2 DEF IInv, PassedAccounted, Passed, watermark
  <2> QED
    BY <1>1, <1>3, <2>3, <2>4, <2>5, AuditFrame DEF IInv, Base, TypeOK, watermark
<1> QED
  BY <1>2, <1>3 DEF ScheduleDay

-----------------------------------------------------------------------------
\* Every step preserves the invariant.
LEMMA NextIInv == IInv /\ [Next]_vars => IInv'
<1> SUFFICES ASSUME IInv, [Next]_vars PROVE IInv'
  OBVIOUS
<1>1. CASE Execute \/ Track \/ SaveBuffer \/ Halt \/ Restart \/ Rotate
  BY <1>1, ExecuteIInv, TrackIInv, SaveBufferIInv, HaltIInv, RestartIInv, RotateIInv
<1>2. ASSUME NEW j \in Job, JobStep(j) PROVE IInv'
  BY <1>2, StartIInv, LockTimeoutIInv, SkipBelowFloorIInv, BringIInv, AttemptFailsIInv DEF JobStep
<1>3. CASE QuickAudit
  BY <1>3, QuickHandleIInv, EnqueueFailsIInv DEF QuickAudit
<1>4. CASE AuditStep
  BY <1>4, InitAuditIInv, AuditBeginIInv, ReachHotZoneIInv, JumpOverIInv, CheckIInv,
     AuditAdvanceIInv, AuditFailsIInv DEF AuditStep
<1>5. CASE Lookup
  BY <1>5, LookupIInv, HaltIInv DEF Lookup
<1>6. CASE ScheduleImports
  BY <1>6, ScheduleDayIInv DEF ScheduleImports
<1>7. CASE UNCHANGED vars
  <2> USE <1>7 DEF vars, watermark, audit, inMemory, history
  <2>1. TypeOK'
    BY DEF IInv, Base, TypeOK
  <2>2. ImportsOfDays' /\ WorkDone'
    BY DEF IInv, Base, ImportsOfDays, WorkDone
  <2>3. AuditBehind' /\ Audited'
    BY DEF IInv, Base, AuditBehind, Audited
  <2>4. MarksHaveJobs'
    BY MarksRest DEF IInv
  <2>5. PassedAccounted'
    BY DEF IInv, PassedAccounted, Passed, Accounted, InHand, Imported
  <2> QED
    BY <2>1, <2>2, <2>3, <2>4, <2>5 DEF IInv, Base
<1> QED
  BY <1>1, <1>2, <1>3, <1>4, <1>5, <1>6, <1>7 DEF Next

\* The invariant holds in every reachable state.
THEOREM Invariance == Spec => []IInv
BY InitIInv, NextIInv, PTL DEF Spec

\* The tables, the jobs and the audit's memory keep their types.
THEOREM RecoveryTypes == Spec => []TypeOK
<1>1. IInv => TypeOK
  BY DEF IInv, Base
<1> QED
  BY <1>1, Invariance, PTL

\* A mark of GapProcessingTracker has a job that will take it away, except after
\* an Enqueue that threw or a job that was given up before its method ran.
THEOREM MarksAreTaken == Spec => []MarksHaveJobs
<1>1. IInv => MarksHaveJobs
  BY DEF IInv
<1> QED
  BY <1>1, Invariance, PTL

\* Behind the cursor of HistoricalAuditorWorker a missing trade since DateAdded is
\* looked up, to be scheduled or imported, unless the audit was blind to it or
\* forsook it; of the trades before DateAdded nothing is said.
THEOREM NothingIsLeftBehind == Spec => []AuditLeavesNothing
<1>1. IInv => AuditLeavesNothing
  <2> SUFFICES ASSUME IInv, NEW t \in Missing, t >= added, t <= cursor
               PROVE  InHand(t) \/ t \in blind \/ t \in forsaken
    BY DEF AuditLeavesNothing
  <2>1. t \in Trade /\ t >= floor /\ t \notin stored
    BY RecoveryAssumption DEF Missing, Trade, IInv, Base, TypeOK
  <2> QED
    BY <2>1 DEF IInv, PassedAccounted, Passed, Accounted
<1> QED
  BY <1>1, Invariance, PTL
=============================================================================
