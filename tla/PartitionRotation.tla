-------------------------- MODULE PartitionRotation --------------------------
(***************************************************************************)
(* The monthly partitions: sp_ensure_month_partitions, which every bulk    *)
(* insert calls before it inserts, against sp_rotate_partitions, under     *)
(* READ COMMITTED.  A statement sees what others have committed; CREATE    *)
(* and DROP of a partition lock its parent table until the transaction     *)
(* ends; a table's name is free or it is not.                              *)
(*                                                                         *)
(* The writers go statement by statement.  Of rotation, the choice of the  *)
(* oldest month is a step that takes no lock, and the drop another one     *)
(* that waits for the locks.  Its six DROPs are one step, and so are its   *)
(* first two months: what others do between these statements sees nothing  *)
(* of them, so that it might as well be done before the first.             *)
(*                                                                         *)
(* Table 1 is Trades, the others follow in the order in which              *)
(* sp_ensure_month_partitions creates them.                                *)
(***************************************************************************)
EXTENDS Integers, FiniteSets

CONSTANTS
    LastMonth,      \* bound on the months that pass
    LastTable,
    MinMonthsToKeep,
    Writer          \* connections in TradeRepository.BulkInsertAsync

ASSUME RotationAssumption ==
    /\ LastMonth \in Nat \ {0}
    /\ LastTable \in Nat \ {0}
    /\ MinMonthsToKeep \in Nat

Month == 1 .. LastMonth
Table == 1 .. LastTable
Trades == 1

VARIABLES
    now,        \* the current month
    part,       \* the months' committed partitions
    filled,     \* months with rows in Trades
    txn,        \* the writers' ensure and insert
    rotating,   \* the month in which the rotation under way began (NOW()), or 0,
    adding,     \*   the months it has created,
    chosen,     \*   the oldest month as it was read, or 0,
    dropping,   \*   and the months it has dropped
    top,        \* history: the highest retention floor a rotation has left
    overtaken   \* history: see Commit

rotation == <<rotating, adding, chosen, dropping>>
vars == <<now, part, filled, txn, rotation, top, overtaken>>

NoTxn == [at |-> "idle", month |-> 1, next |-> 1, made |-> {}, late |-> FALSE]

TxnRecord ==
    [at: {"idle", "ensure", "table", "create", "insert"}, month: Month,
     next: 1 .. LastTable + 1, made: SUBSET Table, late: BOOLEAN]

TypeOK ==
    /\ now \in Month
    /\ part \in [Month -> SUBSET Table]
    /\ filled \subseteq {m \in Month : Trades \in part[m]}
    /\ txn \in [Writer -> TxnRecord]
    /\ rotating \in 0 .. LastMonth /\ chosen \in 0 .. LastMonth
    /\ adding \subseteq Month /\ dropping \subseteq Month
    /\ top \in 0 .. LastMonth
    /\ overtaken \subseteq Month

HasTrades == {m \in Month : Trades \in part[m]}

\* fn_retention_floor_ms
FloorOf(months) == IF months = {} THEN 0 ELSE CHOOSE m \in months : \A n \in months : m <= n

Floor == FloorOf(HasTrades)

\* Some past months have been imported, the others not.
Init ==
    /\ now \in Month
    /\ \E old \in SUBSET {m \in Month : m < now} :
          part = [m \in Month |-> IF m \in old \cup {now} THEN Table ELSE {}]
    /\ filled = {}
    /\ txn = [w \in Writer |-> NoTxn]
    /\ rotating = 0 /\ adding = {} /\ chosen = 0 /\ dropping = {}
    /\ top = 0 /\ overtaken = {}

MonthPasses ==
    /\ now < LastMonth
    /\ now' = now + 1
    /\ UNCHANGED <<part, filled, txn, rotation, top, overtaken>>

-----------------------------------------------------------------------------
(* TradeRepository.BulkInsertAsync *)

Moves(w, record) == txn' = [txn EXCEPT ![w] = record]

\* The realtime collector, a filling or an import has a batch of a month.
Batch(w) ==
    /\ txn[w].at = "idle"
    /\ \E m \in 1 .. now : Moves(w, [NoTxn EXCEPT !.at = "ensure", !.month = m])
    /\ UNCHANGED <<now, part, filled, rotation, top, overtaken>>

\* mutant: an off-by-one in the barrier
BarrierBelow(m) == m + 1 < Floor

BelowFloor(m) == m < Floor

CheckFloor(w) ==
    /\ txn[w].at = "ensure"
    /\ Moves(w, [txn[w] EXCEPT !.at = IF BelowFloor(txn[w].month)
                                      THEN "insert" ELSE "table"])
    /\ UNCHANGED <<now, part, filled, rotation, top, overtaken>>

\* IF NOT EXISTS ...
LookForTable(w) ==
    /\ txn[w].at = "table"
    /\ txn[w].next <= LastTable
    /\ IF txn[w].next \in part[txn[w].month]
       THEN Moves(w, [txn[w] EXCEPT !.next = @ + 1])
       ELSE Moves(w, [txn[w] EXCEPT !.at = "create"])
    /\ UNCHANGED <<now, part, filled, rotation, top, overtaken>>

\* Nobody else holds the lock of a table's DDL.
Unlocked(w, t) ==
    /\ \A v \in Writer \ {w} : t \notin txn[v].made
    /\ adding = {} /\ dropping = {}

\* ... CREATE TABLE: an error when another transaction was first.
CreateTable(w) ==
    /\ txn[w].at = "create"
    /\ Unlocked(w, txn[w].next)
    /\ IF txn[w].next \in part[txn[w].month]
       THEN Moves(w, NoTxn)
       ELSE Moves(w, [txn[w] EXCEPT !.at = "table", !.next = @ + 1, !.made = @ \cup {txn[w].next}])
    /\ UNCHANGED <<now, part, filled, rotation, top, overtaken>>

\* overtaken: the month was created by a transaction that had passed the barrier
\* before a rotation was committed.
Commit(w) ==
    LET m == txn[w].month
    IN  /\ txn[w].at = "table"
        /\ txn[w].next > LastTable
        /\ part' = [part EXCEPT ![m] = @ \cup txn[w].made]
        /\ overtaken' = IF txn[w].late /\ txn[w].made # {} THEN overtaken \cup {m}
                        ELSE overtaken
        /\ Moves(w, [NoTxn EXCEPT !.at = "insert", !.month = m])
        /\ UNCHANGED <<now, filled, rotation, top>>

\* mutant: rows without a partition are not refused
Unchecked(m) == {m}

Accepted(m) == {m} \cap HasTrades

\* sp_bulk_insert_trades: refused when the month has no partition.
Insert(w) ==
    /\ txn[w].at = "insert"
    /\ dropping = {}
    /\ filled' = filled \cup Accepted(txn[w].month)
    /\ Moves(w, NoTxn)
    /\ UNCHANGED <<now, part, rotation, top, overtaken>>

\* A time limit, a broken connection, the end of the process.
Abort(w) ==
    /\ txn[w].at # "idle"
    /\ Moves(w, NoTxn)
    /\ UNCHANGED <<now, part, filled, rotation, top, overtaken>>

-----------------------------------------------------------------------------
(* sp_rotate_partitions, one transaction; one at a time (DisableConcurrentExecution) *)

NoDDL == \A w \in Writer : txn[w].made = {}

\* The current and the next month are ensured first, which locks nothing if they
\* are there.
RotateBegin ==
    /\ rotating = 0
    /\ rotating' = now
    /\ adding' = {m \in {now, now + 1} \cap Month : m >= Floor /\ part[m] # Table}
    /\ adding' # {} => NoDDL
    /\ UNCHANGED <<now, part, filled, txn, chosen, dropping, top, overtaken>>

\* mutant: the month just within the window goes, too
OneMore(m) == m <= rotating - MinMonthsToKeep

OldEnough(m) == m < rotating - MinMonthsToKeep

\* The partitions as rotation's own transaction sees them.
Left == (HasTrades \cup adding) \ dropping

\* The size is over the limit: the oldest month is looked up, without a lock.
RotateChoose ==
    /\ rotating # 0
    /\ chosen = 0
    /\ Left # {}
    /\ OldEnough(FloorOf(Left))
    /\ chosen' = FloorOf(Left)
    /\ UNCHANGED <<now, part, filled, txn, rotating, adding, dropping, top, overtaken>>

\* That month goes, from all tables, once their locks are granted.
RotateDrop ==
    /\ chosen # 0
    /\ NoDDL
    /\ dropping' = dropping \cup {chosen}
    /\ chosen' = 0
    /\ UNCHANGED <<now, part, filled, txn, rotating, adding, top, overtaken>>

\* mutant: only Trades is dropped
TradesOnly(m) == part[m] \ {Trades}

AfterDrop(m) == {}

PassedBarrier(w) == txn[w].at \in {"table", "create"}

RotateCommit ==
    /\ rotating # 0
    /\ chosen = 0
    /\ rotating' = 0 /\ adding' = {} /\ dropping' = {}
    /\ part' = [m \in Month |-> IF m \in dropping THEN AfterDrop(m)
                                ELSE IF m \in adding THEN Table ELSE part[m]]
    /\ filled' = filled \ dropping
    /\ top' = IF dropping = {} THEN top
              ELSE LET f == FloorOf(Left)
                   IN  IF f > top THEN f ELSE top
    /\ txn' = [w \in Writer |-> [txn[w] EXCEPT !.late = @ \/ PassedBarrier(w)]]
    /\ UNCHANGED <<now, chosen, overtaken>>

\* A lock is not granted in time, or the process ends: everything is rolled back.
RotateAbort ==
    /\ rotating # 0
    /\ rotating' = 0 /\ adding' = {} /\ chosen' = 0 /\ dropping' = {}
    /\ UNCHANGED <<now, part, filled, txn, top, overtaken>>

-----------------------------------------------------------------------------
WriterStep(w) ==
    \/ Batch(w) \/ CheckFloor(w) \/ LookForTable(w) \/ CreateTable(w)
    \/ Commit(w) \/ Insert(w) \/ Abort(w)

Rotate ==
    RotateBegin \/ RotateChoose \/ RotateDrop \/ RotateCommit \/ RotateAbort

Next == MonthPasses \/ (\E w \in Writer : WriterStep(w)) \/ Rotate

Spec == Init /\ [][Next]_vars

-----------------------------------------------------------------------------
(* A partition below a floor that a rotation has left, whether of a dropped    *)
(* month or of one that was never there, goes back to a transaction that had   *)
(* passed the barrier of sp_ensure_month_partitions before that rotation's     *)
(* commit: it created the month itself, or an older one and lowered the floor. *)
DroppedStaysDropped ==
    \A m \in Month : part[m] # {} /\ m < top => \E k \in overtaken : k <= m

(* A month is in all tables or in none, whoever creates and drops it in        *)
(* parallel, with the same exception: what is created of a month after its     *)
(* Trades partition is dropped is never dropped, for rotation looks at Trades. *)
TablesAgree ==
    \A m \in Month : part[m] = {} \/ part[m] = Table \/ m \in overtaken

(* Rotation takes none of the last MinMonthsToKeep months, and it takes the    *)
(* oldest first.  It leaves an older month behind only if that one was         *)
(* committed while the drop waited for its locks, and then, again, a           *)
(* transaction created it, or an older one, that had passed the barrier before *)
(* an earlier rotation's commit.                                               *)
OldestFirst ==
    [][\A m \in HasTrades :
          m \notin HasTrades' =>
             /\ m < now - MinMonthsToKeep
             /\ \A n \in HasTrades' : n < m => \E k \in overtaken : k <= n]_vars
=============================================================================
