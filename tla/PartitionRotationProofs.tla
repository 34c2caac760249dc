----------------------- MODULE PartitionRotationProofs -----------------------
(***************************************************************************)
(* Proofs about PartitionRotation, for any number of months, tables and    *)
(* writers.                                                                *)
(*                                                                         *)
(* The argument.  Until the next commit of a rotation there is a month     *)
(* with trades at or below that of a writer that has passed the barrier    *)
(* (WritersKept); a writer whose month a rotation's commit may have        *)
(* overtaken is marked late, and what it creates is overtaken.  A writer   *)
(* finds or makes its tables one after the other (TablesSoFar).  Once      *)
(* rotation holds its locks nobody creates partitions (RotationLocks);     *)
(* what is committed before that below the month it has chosen is          *)
(* overtaken, or above an overtaken month (ChosenOldest, DropsOldest).     *)
(* That some month always stays (SomeMonthStays) matters for the barrier:  *)
(* without partitions there is no floor, and any month could be created.   *)
(***************************************************************************)
EXTENDS PartitionRotation, WellFoundedInduction, TLAPS

\* A transaction begins with the first table and creates none past the last.
InOrder ==
    \A w \in Writer :
        /\ txn[w].at = "ensure" => txn[w].next = 1 /\ txn[w].made = {}
        /\ txn[w].at = "create" => txn[w].next \in Table

\* A month that a transaction goes through has its tables up to the next one,
\* committed or made by itself, unless a rotation was committed meanwhile.
TablesSoFar ==
    \A w \in Writer :
        PassedBarrier(w) /\ ~txn[w].late =>
            \A t \in Table : t < txn[w].next => t \in part[txn[w].month] \cup txn[w].made

\* A month may be there below what a rotation has dropped, or drops, if it or an
\* older one was overtaken.
Excused(m) == \E k \in overtaken : k <= m

\* m lies below no floor that a rotation has left, or is excused.
Kept(m) == m >= top \/ Excused(m)

\* The barrier of a transaction holds until the next commit of a rotation.
WritersKept ==
    \A w \in Writer :
        PassedBarrier(w) /\ ~txn[w].late => \E k \in HasTrades : k <= txn[w].month

\* Rotation holds its locks from its first CREATE or DROP on.
RotationLocks ==
    /\ rotating <= now
    /\ rotating = 0 => adding = {} /\ chosen = 0 /\ dropping = {}
    /\ adding # {} \/ dropping # {} => NoDDL

\* Nothing older than m is left, or it is excused.
OldestLeft(m) == \A n \in Left : n < m => Excused(n)

\* What rotation has chosen, and what it has dropped, is old and the oldest.
ChosenOldest == chosen # 0 => OldEnough(chosen) /\ OldestLeft(chosen)

DropsOldest == \A m \in dropping : OldEnough(m) /\ OldestLeft(m)

\* Some month stays, and what rotation adds is kept.
SomeMonthStays ==
    /\ HasTrades # {}
    /\ rotating # 0 => \E m \in HasTrades \cup adding : m >= rotating
    /\ \A m \in adding : Kept(m)

IInv ==
    /\ TypeOK
    /\ InOrder
    /\ TablesSoFar
    /\ TablesAgree
    /\ WritersKept
    /\ DroppedStaysDropped
    /\ RotationLocks
    /\ ChosenOldest
    /\ DropsOldest
    /\ SomeMonthStays

-----------------------------------------------------------------------------
(* The retention floor is the least month of a nonempty set of months. *)
LEMMA LeastMonth ==
  ASSUME NEW S, S \subseteq Nat, S # {}
  PROVE  FloorOf(S) \in S /\ \A n \in S : FloorOf(S) <= n
<1> DEFINE Less == {p \in Nat \X Nat : p[1] < p[2]}
<1>1. IsWellFoundedOn(Less, Nat)
  BY NatLessThanWellFounded DEF OpToRel
<1>2. PICK m \in S : \A n \in S : ~ (<<n, m>> \in Less)
  <2> HIDE DEF Less
  <2> QED
    BY <1>1, WFMin
<1>3. ASSUME NEW n \in S PROVE m <= n
  <2>1. m \in Nat /\ n \in Nat
    OBVIOUS
  <2>2. n < m => <<n, m>> \in Less
    BY <2>1
  <2> QED
    BY <2>1, <2>2, <1>2
<1> QED
  BY <1>3 DEF FloorOf

(* Months are numbers, and those with trades are months. *)
LEMMA MonthsAreNat == Month \subseteq Nat /\ HasTrades \subseteq Month
  BY RotationAssumption DEF Month, HasTrades

(* A month at or above one with trades is kept. *)
LEMMA AboveTradesKept ==
  ASSUME IInv, NEW m \in Month, NEW k \in HasTrades, k <= m
  PROVE  Kept(m)
<1>1. k \in Month /\ Month \subseteq Nat /\ part[k] # {}
  BY MonthsAreNat DEF HasTrades
<1>2. k < top => \E n \in overtaken : n <= k
  BY <1>1 DEF IInv, DroppedStaysDropped
<1>3. top \in Nat /\ overtaken \subseteq Nat
  BY <1>1, RotationAssumption DEF IInv, TypeOK
<1> QED
  BY <1>1, <1>2, <1>3 DEF Kept, Excused

(* What passes the barrier lies at or above a month with trades. *)
LEMMA AboveFloor ==
  ASSUME IInv, NEW m \in Month, ~BelowFloor(m)
  PROVE  \E k \in HasTrades : k <= m
<1>1. Floor \in HasTrades /\ HasTrades \subseteq Nat /\ m \in Nat
  BY LeastMonth, MonthsAreNat DEF IInv, SomeMonthStays, Floor
<1> QED
  BY <1>1 DEF BelowFloor

(* What is excused or not older than m stays so while no month is added. *)
LEMMA OldestLeftRests ==
  ASSUME NEW m, OldestLeft(m), Left' \subseteq Left, overtaken \subseteq overtaken'
  PROVE  OldestLeft(m)'
BY DEF OldestLeft, Excused

(* The invariant holds initially. *)
LEMMA InitIInv == Init => IInv
<1> SUFFICES ASSUME Init PROVE IInv
  OBVIOUS
<1> USE RotationAssumption DEF Init
<1>1. now \in HasTrades
  BY DEF HasTrades, Trades, Table, Month
<1>2. TypeOK
  BY DEF TypeOK, TxnRecord, NoTxn, Month, Table
<1>3. InOrder /\ TablesSoFar /\ WritersKept
  BY DEF InOrder, TablesSoFar, WritersKept, PassedBarrier, NoTxn
<1>4. TablesAgree /\ DroppedStaysDropped
  BY DEF TablesAgree, DroppedStaysDropped, Month
<1>5. RotationLocks /\ ChosenOldest /\ DropsOldest /\ SomeMonthStays
  BY <1>1 DEF RotationLocks, ChosenOldest, DropsOldest, SomeMonthStays, Month
<1> QED
  BY <1>2, <1>3, <1>4, <1>5 DEF IInv

-----------------------------------------------------------------------------
(* Writers *)

(* A step of a writer that leaves the tables and rotation alone need only      *)
(* answer for the writer's own record.                                         *)
LEMMA RecordFrame ==
  ASSUME IInv, NEW w \in Writer, NEW r \in TxnRecord, Moves(w, r),
         UNCHANGED <<now, part, rotation, top, overtaken>>,
         filled' \subseteq {m \in Month : Trades \in part[m]},
         r.at = "ensure" => r.next = 1 /\ r.made = {},
         r.at = "create" => r.next \in Table,
         r.at \in {"table", "create"} /\ ~r.late =>
            /\ \A t \in Table : t < r.next => t \in part[r.month] \cup r.made
            /\ \E k \in HasTrades : k <= r.month,
         adding # {} \/ dropping # {} => r.made = {}
  PROVE  IInv'
<1> USE DEF IInv, Moves, rotation
<1>1. txn' = [txn EXCEPT ![w] = r] /\ txn \in [Writer -> TxnRecord]
  BY DEF TypeOK
<1>2. TypeOK'
  BY <1>1 DEF TypeOK
<1>3. InOrder'
  BY <1>1 DEF InOrder
<1>4. TablesSoFar'
  BY <1>1 DEF TablesSoFar, PassedBarrier
<1>5. WritersKept'
  BY <1>1 DEF WritersKept, PassedBarrier, HasTrades
<1>6. TablesAgree' /\ DroppedStaysDropped'
  BY DEF TablesAgree, DroppedStaysDropped
<1>7. RotationLocks'
  BY <1>1 DEF RotationLocks, NoDDL
<1>8. ChosenOldest' /\ DropsOldest' /\ SomeMonthStays'
  BY DEF ChosenOldest, DropsOldest, OldestLeft, Left, Excused, SomeMonthStays,
         OldEnough, HasTrades, Kept
<1> QED
  BY <1>2, <1>3, <1>4, <1>5, <1>6, <1>7, <1>8

(* The record of a transaction that begins has its type and no tables. *)
LEMMA FreshRecord ==
  ASSUME NEW m \in Month, NEW p \in {"ensure", "insert"}
  PROVE  /\ NoTxn \in TxnRecord
         /\ [NoTxn EXCEPT !.at = p, !.month = m] \in TxnRecord
         /\ [NoTxn EXCEPT !.at = p, !.month = m].at = p
         /\ [NoTxn EXCEPT !.at = p, !.month = m].next = 1
         /\ [NoTxn EXCEPT !.at = p, !.month = m].made = {}
<1>1. 1 \in Month /\ 1 \in 1 .. LastTable + 1 /\ {} \in SUBSET Table
  BY RotationAssumption DEF Month
<1>2. NoTxn \in TxnRecord
  BY <1>1 DEF NoTxn, TxnRecord
<1>3. NoTxn.next = 1 /\ NoTxn.made = {}
  BY DEF NoTxn
<1>4. /\ [NoTxn EXCEPT !.at = p, !.month = m] \in TxnRecord
      /\ [NoTxn EXCEPT !.at = p, !.month = m].at = p
      /\ [NoTxn EXCEPT !.at = p, !.month = m].next = NoTxn.next
      /\ [NoTxn EXCEPT !.at = p, !.month = m].made = NoTxn.made
  BY <1>2 DEF TxnRecord
<1> QED
  BY <1>2, <1>3, <1>4

(* A writer that gives up leaves nothing behind. *)
LEMMA NoTxnFrame ==
  ASSUME IInv, NEW w \in Writer, Moves(w, NoTxn),
         UNCHANGED <<now, part, rotation, top, overtaken>>,
         filled' \subseteq {m \in Month : Trades \in part[m]}
  PROVE  IInv'
<1>1. now \in Month
  BY DEF IInv, TypeOK
<1>2. NoTxn \in TxnRecord
  BY <1>1, FreshRecord
<1>3. NoTxn.at = "idle" /\ NoTxn.made = {}
  BY DEF NoTxn
<1> QED
  BY <1>2, <1>3, RecordFrame

(* A new batch starts with a record that owes nothing. *)
LEMMA BatchIInv ==
  ASSUME IInv, NEW w \in Writer, Batch(w)
  PROVE  IInv'
<1>1. PICK m \in 1 .. now : Moves(w, [NoTxn EXCEPT !.at = "ensure", !.month = m])
  BY DEF Batch
<1> DEFINE r == [NoTxn EXCEPT !.at = "ensure", !.month = m]
<1>2. m \in Month
  BY RotationAssumption DEF IInv, TypeOK, Month
<1>3. r \in TxnRecord /\ r.at = "ensure" /\ r.next = 1 /\ r.made = {}
  BY <1>2, FreshRecord
<1>4. /\ filled' \subseteq {n \in Month : Trades \in part[n]}
      /\ UNCHANGED <<now, part, rotation, top, overtaken>>
  BY DEF Batch, IInv, TypeOK
<1>5. Moves(w, r)
  BY <1>1
<1> HIDE DEF r
<1> QED
  BY <1>3, <1>4, <1>5, RecordFrame

(* What passes the barrier lies at or above the floor. *)
LEMMA CheckFloorIInv ==
  ASSUME IInv, NEW w \in Writer, CheckFloor(w)
  PROVE  IInv'
<1> DEFINE r == [txn[w] EXCEPT !.at = IF BelowFloor(txn[w].month) THEN "insert" ELSE "table"]
<1>1. txn[w] \in TxnRecord /\ txn[w].next = 1 /\ txn[w].made = {}
  BY DEF CheckFloor, IInv, TypeOK, InOrder
<1>2. /\ r \in TxnRecord /\ r.at \in {"insert", "table"}
      /\ r.month = txn[w].month /\ r.made = {} /\ r.next = 1
      /\ r.at = "table" => ~BelowFloor(txn[w].month)
  BY <1>1 DEF TxnRecord
<1>3. r.at = "table" => \E k \in HasTrades : k <= r.month
  <2>1. txn[w].month \in Month
    BY <1>1 DEF TxnRecord
  <2> QED
    BY <1>2, <2>1, AboveFloor
<1>4. /\ filled' \subseteq {n \in Month : Trades \in part[n]}
      /\ UNCHANGED <<now, part, rotation, top, overtaken>>
      /\ Moves(w, r)
  BY DEF CheckFloor, IInv, TypeOK
<1>5. \A t \in Table : ~(t < 1)
  BY RotationAssumption DEF Table
<1> HIDE DEF r
<1> QED
  BY <1>2, <1>3, <1>4, <1>5, RecordFrame

(* A table that exists counts as ensured. *)
LEMMA LookForTableIInv ==
  ASSUME IInv, NEW w \in Writer, LookForTable(w)
  PROVE  IInv'
<1> DEFINE found == [txn[w] EXCEPT !.next = @ + 1]
           missing == [txn[w] EXCEPT !.at = "create"]
<1>1. /\ txn[w] \in TxnRecord /\ txn[w].at = "table"
      /\ txn[w].next \in Table
  BY RotationAssumption DEF LookForTable, IInv, TypeOK, TxnRecord, Table
<1>2. /\ filled' \subseteq {n \in Month : Trades \in part[n]}
      /\ UNCHANGED <<now, part, rotation, top, overtaken>>
  BY DEF LookForTable, IInv, TypeOK
<1>3. ~txn[w].late => /\ \A t \in Table : t < txn[w].next => t \in part[txn[w].month] \cup txn[w].made
                      /\ \E k \in HasTrades : k <= txn[w].month
  BY <1>1 DEF IInv, TablesSoFar, WritersKept, PassedBarrier
<1>4. adding # {} \/ dropping # {} => txn[w].made = {}
  BY DEF IInv, RotationLocks, NoDDL
<1>5. CASE txn[w].next \in part[txn[w].month]
  <2>1. Moves(w, found)
    BY <1>5 DEF LookForTable
  <2>2. /\ found \in TxnRecord /\ found.at = "table" /\ found.late = txn[w].late
        /\ found.month = txn[w].month /\ found.made = txn[w].made
        /\ found.next = txn[w].next + 1
    BY <1>1, RotationAssumption DEF TxnRecord, Table
  <2>3. \A t \in Table : t < txn[w].next + 1 => t < txn[w].next \/ t = txn[w].next
    BY <1>1, RotationAssumption DEF Table
  <2> HIDE DEF found
  <2> QED
    BY <1>2, <1>3, <1>4, <1>5, <2>1, <2>2, <2>3, RecordFrame
<1>6. CASE txn[w].next \notin part[txn[w].month]
  <2>1. Moves(w, missing)
    BY <1>6 DEF LookForTable
  <2>2. /\ missing \in TxnRecord /\ missing.at = "create" /\ missing.late = txn[w].late
        /\ missing.month = txn[w].month /\ missing.made = txn[w].made
        /\ missing.next = txn[w].next
    BY <1>1 DEF TxnRecord
  <2> HIDE DEF missing
  <2> QED
    BY <1>1, <1>2, <1>3, <1>4, <2>1, <2>2, RecordFrame
<1> QED
  BY <1>5, <1>6

(* A created table counts as ensured; its lock keeps rotation out. *)
LEMMA CreateTableIInv ==
  ASSUME IInv, NEW w \in Writer, CreateTable(w)
  PROVE  IInv'
<1> DEFINE made == [txn[w] EXCEPT !.at = "table", !.next = @ + 1, !.made = @ \cup {txn[w].next}]
<1>1. txn[w] \in TxnRecord /\ txn[w].at = "create" /\ txn[w].next \in Table
  BY DEF CreateTable, IInv, TypeOK, InOrder
<1>2. /\ filled' \subseteq {n \in Month : Trades \in part[n]}
      /\ UNCHANGED <<now, part, rotation, top, overtaken>>
  BY DEF CreateTable, IInv, TypeOK
<1>3. CASE txn[w].next \in part[txn[w].month]
  BY <1>2, <1>3, NoTxnFrame DEF CreateTable
<1>4. CASE txn[w].next \notin part[txn[w].month]
  <2>1. Moves(w, made) /\ adding = {} /\ dropping = {}
    BY <1>4 DEF CreateTable, Unlocked
  <2>2. /\ made \in TxnRecord /\ made.at = "table" /\ made.late = txn[w].late
        /\ made.month = txn[w].month /\ made.made = txn[w].made \cup {txn[w].next}
        /\ made.next = txn[w].next + 1
    <3>1. /\ txn[w].next + 1 \in 1 .. LastTable + 1
          /\ txn[w].made \cup {txn[w].next} \in SUBSET Table
      BY <1>1, RotationAssumption DEF TxnRecord, Table
    <3> QED
      BY <1>1, <3>1 DEF TxnRecord
  <2>3. ~txn[w].late => /\ \A t \in Table : t < txn[w].next => t \in part[txn[w].month] \cup txn[w].made
                        /\ \E k \in HasTrades : k <= txn[w].month
    BY <1>1 DEF IInv, TablesSoFar, WritersKept, PassedBarrier
  <2>4. \A t \in Table : t < txn[w].next + 1 => t < txn[w].next \/ t = txn[w].next
    BY <1>1, RotationAssumption DEF Table
  <2> HIDE DEF made
  <2> QED
    BY <1>2, <2>1, <2>2, <2>3, <2>4, RecordFrame
<1> QED
  BY <1>3, <1>4

(* The insert gives rows to existing partitions only. *)
LEMMA InsertIInv ==
  ASSUME IInv, NEW w \in Writer, Insert(w)
  PROVE  IInv'
<1>1. filled' \subseteq {m \in Month : Trades \in part[m]}
  BY DEF Insert, Accepted, HasTrades, IInv, TypeOK
<1> QED
  BY <1>1, NoTxnFrame DEF Insert

(* A rolled back transaction leaves nothing. *)
LEMMA AbortIInv ==
  ASSUME IInv, NEW w \in Writer, Abort(w)
  PROVE  IInv'
<1>1. filled' \subseteq {m \in Month : Trades \in part[m]}
  BY DEF Abort, IInv, TypeOK
<1> QED
  BY <1>1, NoTxnFrame DEF Abort

(* A commit makes a month whole, or overtaken. *)
LEMMA CommitIInv ==
  ASSUME IInv, NEW w \in Writer, Commit(w)
  PROVE  IInv'
<1> DEFINE m == txn[w].month
           r == [NoTxn EXCEPT !.at = "insert", !.month = m]
<1>1. /\ txn[w] \in TxnRecord /\ txn[w].at = "table" /\ txn[w].next > LastTable
      /\ m \in Month /\ txn[w].made \subseteq Table
  BY DEF Commit, IInv, TypeOK, TxnRecord
<1>2. /\ r \in TxnRecord /\ r.at = "insert" /\ r.made = {}
  BY <1>1, FreshRecord
<1>3. /\ txn' = [txn EXCEPT ![w] = r] /\ txn \in [Writer -> TxnRecord]
      /\ part' = [part EXCEPT ![m] = @ \cup txn[w].made]
      /\ part \in [Month -> SUBSET Table]
      /\ overtaken' = IF txn[w].late /\ txn[w].made # {} THEN overtaken \cup {m} ELSE overtaken
      /\ UNCHANGED <<now, filled, rotating, adding, chosen, dropping, top>>
  BY DEF Commit, Moves, IInv, TypeOK, rotation
<1>4. ~txn[w].late => part'[m] = Table /\ Kept(m)
  <2>1. \A t \in Table : t < txn[w].next
    BY <1>1, RotationAssumption DEF Table, TxnRecord
  <2> QED
    BY <1>1, <1>3, <2>1, AboveTradesKept DEF IInv, TablesSoFar, WritersKept, PassedBarrier, TypeOK, TxnRecord
<1>5. adding # {} \/ dropping # {} => txn[w].made = {}
  BY DEF IInv, RotationLocks, NoDDL
<1> HIDE DEF r
<1>6. HasTrades \subseteq HasTrades' /\ (txn[w].made = {} => HasTrades' = HasTrades)
  BY <1>1, <1>3 DEF HasTrades
<1>7. TypeOK'
  <2>1. /\ txn' \in [Writer -> TxnRecord] /\ part' \in [Month -> SUBSET Table]
        /\ overtaken' \subseteq Month
    BY <1>1, <1>2, <1>3 DEF IInv, TypeOK
  <2>2. filled' \subseteq {n \in Month : Trades \in part'[n]}
    BY <1>1, <1>3 DEF IInv, TypeOK
  <2> QED
    BY <1>3, <2>1, <2>2 DEF IInv, TypeOK
<1>8. InOrder'
  BY <1>2, <1>3 DEF IInv, InOrder
<1>9. TablesSoFar'
  BY <1>1, <1>2, <1>3 DEF IInv, TypeOK, TxnRecord, TablesSoFar, PassedBarrier
<1>10. TablesAgree'
  <2> SUFFICES ASSUME NEW n \in Month
               PROVE  part'[n] = {} \/ part'[n] = Table \/ n \in overtaken'
    BY DEF TablesAgree
  <2>1. CASE n = m
    BY <1>3, <1>4, <2>1 DEF IInv, TablesAgree
  <2>2. CASE n # m
    BY <1>3, <2>2 DEF IInv, TablesAgree
  <2> QED
    BY <2>1, <2>2
<1>11. WritersKept'
  BY <1>2, <1>3, <1>6 DEF IInv, WritersKept, PassedBarrier
<1>12. DroppedStaysDropped'
  <2> SUFFICES ASSUME NEW n \in Month, part'[n] # {}, n < top'
               PROVE  \E k \in overtaken' : k <= n
    BY DEF DroppedStaysDropped
  <2>1. CASE part[n] # {}
    BY <1>3, <2>1 DEF IInv, DroppedStaysDropped
  <2>2. CASE part[n] = {}
    <3>1. n = m /\ txn[w].made # {}
      BY <1>1, <1>3, <2>2
    <3>2. n \in Nat /\ top \in Nat
      BY MonthsAreNat, RotationAssumption DEF IInv, TypeOK
    <3> QED
      BY <1>3, <1>4, <3>1, <3>2 DEF Kept, Excused
  <2> QED
    BY <2>1, <2>2
<1>13. RotationLocks'
  BY <1>2, <1>3 DEF IInv, RotationLocks, NoDDL
<1>14. ChosenOldest'
  <2> SUFFICES ASSUME chosen # 0, NEW n \in Left', n < chosen
               PROVE  Excused(n)'
    BY <1>3 DEF IInv, ChosenOldest, OldEnough, OldestLeft
  <2>1. CASE n \in Left
    BY <1>3, <2>1 DEF IInv, ChosenOldest, OldestLeft, Excused
  <2>2. CASE n \notin Left
    <3>1. n = m /\ txn[w].made # {} /\ adding = {} /\ dropping = {}
      BY <1>3, <1>5, <1>6, <2>2 DEF Left, HasTrades
    <3>0. m \in Nat
      BY <1>1, MonthsAreNat
    <3> HIDE DEF m
    <3>2. CASE txn[w].late
      <4>1. n \in overtaken' /\ n <= n
        BY <1>3, <3>0, <3>1, <3>2
      <4> QED
        BY <4>1 DEF Excused
    <3>3. CASE ~txn[w].late
      <4>1. PICK k \in HasTrades : k <= m
        BY <1>1, <3>3 DEF IInv, WritersKept, PassedBarrier, m
      <4>2. k \in Left /\ k < chosen /\ k \in Nat /\ n \in Nat /\ overtaken \subseteq Nat
        <5>1. k \in Nat /\ chosen \in Nat /\ overtaken \subseteq Nat
          BY <4>1, MonthsAreNat, RotationAssumption DEF IInv, TypeOK
        <5>2. k < chosen
          BY <3>0, <3>1, <4>1, <5>1
        <5> QED
          BY <3>0, <3>1, <4>1, <5>1, <5>2 DEF Left
      <4>3. PICK o \in overtaken : o <= k
        BY <4>2 DEF IInv, ChosenOldest, OldestLeft, Excused
      <4> QED
        BY <1>3, <3>1, <4>1, <4>2, <4>3 DEF Excused
    <3> QED
      BY <3>2, <3>3
  <2> QED
    BY <2>1, <2>2
<1>15. DropsOldest'
  <2>1. CASE dropping = {}
    BY <1>3, <2>1 DEF DropsOldest
  <2>2. CASE dropping # {}
    <3>1. Left' = Left
      BY <1>3, <1>5, <1>6, <2>2 DEF Left
    <3>2. overtaken \subseteq overtaken'
      BY <1>3
    <3> QED
      BY <1>3, <3>1, <3>2, OldestLeftRests DEF IInv, DropsOldest, OldEnough
  <2> QED
    BY <2>1, <2>2
<1>16. SomeMonthStays'
  BY <1>3, <1>6 DEF IInv, SomeMonthStays, Kept, Excused
<1> QED
  BY <1>7, <1>8, <1>9, <1>10, <1>11, <1>12, <1>13, <1>14, <1>15, <1>16 DEF IInv

-----------------------------------------------------------------------------
(* The months and rotation *)

(* Time only moves away from what rotation has chosen. *)
LEMMA MonthPassesIInv ==
  ASSUME IInv, MonthPasses
  PROVE  IInv'
<1> USE RotationAssumption DEF MonthPasses, rotation
<1>1. TypeOK'
  BY DEF IInv, TypeOK, Month
<1>2. InOrder' /\ TablesSoFar' /\ TablesAgree'
  BY DEF IInv, InOrder, TablesSoFar, PassedBarrier, TablesAgree
<1>3. WritersKept' /\ DroppedStaysDropped'
  BY DEF IInv, WritersKept, PassedBarrier, HasTrades, DroppedStaysDropped
<1>4. RotationLocks'
  BY DEF IInv, TypeOK, Month, RotationLocks, NoDDL
<1>5. ChosenOldest' /\ DropsOldest' /\ SomeMonthStays'
  BY DEF IInv, ChosenOldest, DropsOldest, OldestLeft, Left, Excused, SomeMonthStays,
         OldEnough, HasTrades, Kept
<1> QED
  BY <1>1, <1>2, <1>3, <1>4, <1>5 DEF IInv

(* What rotation ensures is at or above the floor. *)
LEMMA RotateBeginIInv ==
  ASSUME IInv, RotateBegin
  PROVE  IInv'
<1> USE RotationAssumption DEF RotateBegin
<1>1. /\ rotating' = now /\ now \in Month /\ now # 0
      /\ adding' = {m \in {now, now + 1} \cap Month : m >= Floor /\ part[m] # Table}
      /\ chosen' = 0 /\ dropping' = {} /\ HasTrades' = HasTrades
      /\ adding' # {} => NoDDL
      /\ UNCHANGED <<now, part, filled, txn, top, overtaken>>
  BY DEF IInv, TypeOK, RotationLocks, HasTrades, Month
<1>2. \A m \in adding' : m \in Month /\ ~BelowFloor(m)
  <2>1. Floor \in Nat
    BY LeastMonth, MonthsAreNat DEF IInv, SomeMonthStays, Floor
  <2> QED
    BY <1>1, <2>1, MonthsAreNat DEF BelowFloor
<1>3. \A m \in adding' : Kept(m)'
  <2> SUFFICES ASSUME NEW m \in adding' PROVE Kept(m)'
    OBVIOUS
  <2>1. PICK k \in HasTrades : k <= m
    BY <1>2, AboveFloor
  <2> QED
    BY <1>1, <1>2, <2>1, AboveTradesKept DEF Kept, Excused
<1>4. \E m \in HasTrades \cup adding' : m >= now
  <2>1. Floor \in HasTrades /\ HasTrades \subseteq Nat /\ now \in Nat
    BY <1>1, LeastMonth, MonthsAreNat DEF IInv, SomeMonthStays, Floor
  <2>2. CASE Floor > now
    BY <2>1, <2>2
  <2>3. CASE Floor <= now /\ part[now] # Table
    BY <1>1, <2>1, <2>3
  <2>4. CASE part[now] = Table
    BY <1>1, <2>1, <2>4 DEF HasTrades, Trades, Table
  <2> QED
    BY <2>1, <2>2, <2>3, <2>4
<1>5. TypeOK'
  BY <1>1, <1>2 DEF IInv, TypeOK, Month
<1>6. InOrder' /\ TablesSoFar' /\ TablesAgree'
  BY <1>1 DEF IInv, InOrder, TablesSoFar, PassedBarrier, TablesAgree
<1>7. WritersKept' /\ DroppedStaysDropped'
  BY <1>1 DEF IInv, WritersKept, PassedBarrier, DroppedStaysDropped
<1>8. RotationLocks'
  BY <1>1 DEF RotationLocks, NoDDL, Month
<1>9. ChosenOldest' /\ DropsOldest' /\ SomeMonthStays'
  BY <1>1, <1>3, <1>4 DEF IInv, ChosenOldest, DropsOldest, SomeMonthStays
<1> QED
  BY <1>5, <1>6, <1>7, <1>8, <1>9 DEF IInv

(* The oldest month that is left is chosen. *)
LEMMA RotateChooseIInv ==
  ASSUME IInv, RotateChoose
  PROVE  IInv'
<1>1. /\ rotating # 0 /\ Left # {} /\ chosen' = FloorOf(Left) /\ OldEnough(chosen')
      /\ HasTrades' = HasTrades /\ Left' = Left
      /\ UNCHANGED <<now, part, filled, txn, rotating, adding, dropping, top, overtaken>>
  BY DEF RotateChoose, HasTrades, Left
<1>2. Left \subseteq Month /\ Left \subseteq Nat
  BY MonthsAreNat DEF IInv, TypeOK, Left
<1>3. chosen' \in Left /\ \A n \in Left : chosen' <= n
  BY <1>1, <1>2, LeastMonth
<1>4. TypeOK'
  BY <1>1, <1>2, <1>3, RotationAssumption DEF IInv, TypeOK, Month
<1>5. InOrder' /\ TablesSoFar' /\ TablesAgree'
  BY <1>1 DEF IInv, InOrder, TablesSoFar, PassedBarrier, TablesAgree
<1>6. WritersKept' /\ DroppedStaysDropped'
  BY <1>1 DEF IInv, WritersKept, PassedBarrier, DroppedStaysDropped
<1>7. RotationLocks'
  BY <1>1 DEF IInv, RotationLocks, NoDDL
<1>8. ChosenOldest'
  <2>1. \A n \in Left : ~(n < chosen')
    BY <1>2, <1>3
  <2> QED
    BY <1>1, <2>1 DEF ChosenOldest, OldestLeft, OldEnough
<1>9. DropsOldest' /\ SomeMonthStays'
  BY <1>1, OldestLeftRests DEF IInv, DropsOldest, OldEnough, SomeMonthStays, Kept, Excused
<1> QED
  BY <1>4, <1>5, <1>6, <1>7, <1>8, <1>9 DEF IInv

(* What has been chosen is dropped; from now on the locks keep others out. *)
LEMMA RotateDropIInv ==
  ASSUME IInv, RotateDrop
  PROVE  IInv'
<1>1. /\ rotating # 0 /\ NoDDL /\ chosen # 0 /\ chosen' = 0 /\ chosen \in Month
      /\ dropping' = dropping \cup {chosen} /\ HasTrades' = HasTrades
      /\ UNCHANGED <<now, part, filled, txn, rotating, adding, top, overtaken>>
  BY RotationAssumption DEF RotateDrop, HasTrades, IInv, RotationLocks, TypeOK, Month
<1>2. Left' \subseteq Left
  BY <1>1 DEF Left
<1>3. TypeOK'
  BY <1>1, RotationAssumption DEF IInv, TypeOK
<1>4. InOrder' /\ TablesSoFar' /\ TablesAgree'
  BY <1>1 DEF IInv, InOrder, TablesSoFar, PassedBarrier, TablesAgree
<1>5. WritersKept' /\ DroppedStaysDropped'
  BY <1>1 DEF IInv, WritersKept, PassedBarrier, DroppedStaysDropped
<1>6. RotationLocks'
  BY <1>1 DEF IInv, RotationLocks, NoDDL
<1>7. ASSUME NEW d \in dropping' PROVE OldEnough(d)' /\ OldestLeft(d)'
  <2>1. OldEnough(d) /\ OldestLeft(d)
    BY <1>1 DEF IInv, DropsOldest, ChosenOldest
  <2> QED
    BY <1>1, <1>2, <2>1, OldestLeftRests DEF OldEnough
<1>8. ChosenOldest' /\ DropsOldest'
  BY <1>1, <1>7 DEF ChosenOldest, DropsOldest
<1>9. SomeMonthStays'
  BY <1>1 DEF IInv, SomeMonthStays, Kept, Excused
<1> QED
  BY <1>3, <1>4, <1>5, <1>6, <1>8, <1>9 DEF IInv

(* A commit marks those that have passed the barrier as late. *)
LEMMA RotateCommitIInv ==
  ASSUME IInv, RotateCommit
  PROVE  IInv'
<1> DEFINE left == Left
<1>1. /\ rotating # 0 /\ chosen' = 0 /\ rotating' = 0 /\ adding' = {} /\ dropping' = {}
      /\ part' = [n \in Month |-> IF n \in dropping THEN {}
                                  ELSE IF n \in adding THEN Table ELSE part[n]]
      /\ filled' = filled \ dropping
      /\ top' = IF dropping = {} THEN top
                ELSE IF FloorOf(left) > top THEN FloorOf(left) ELSE top
      /\ txn' = [w \in Writer |-> [txn[w] EXCEPT !.late = @ \/ PassedBarrier(w)]]
      /\ UNCHANGED <<now, overtaken>>
  BY DEF RotateCommit, AfterDrop
<1>2. \A w \in Writer : /\ txn'[w] \in TxnRecord /\ txn'[w].at = txn[w].at
                        /\ txn'[w].month = txn[w].month /\ txn'[w].next = txn[w].next
                        /\ txn'[w].made = txn[w].made
                        /\ PassedBarrier(w) => txn'[w].late
  <2> SUFFICES ASSUME NEW w \in Writer
               PROVE  /\ txn'[w] \in TxnRecord /\ txn'[w].at = txn[w].at
                      /\ txn'[w].month = txn[w].month /\ txn'[w].next = txn[w].next
                      /\ txn'[w].made = txn[w].made
                      /\ PassedBarrier(w) => txn'[w].late
    OBVIOUS
  <2>1. txn[w] \in TxnRecord /\ txn'[w] = [txn[w] EXCEPT !.late = @ \/ PassedBarrier(w)]
    BY <1>1 DEF IInv, TypeOK
  <2>2. (txn[w].late \/ PassedBarrier(w)) \in BOOLEAN
    BY <2>1 DEF TxnRecord
  <2> QED
    BY <2>1, <2>2 DEF TxnRecord
<1>3. HasTrades' = left /\ left \subseteq Month /\ left \subseteq Nat
  <2>1. Trades \in Table
    BY RotationAssumption DEF Trades, Table
  <2>2. adding \subseteq Month
    BY DEF IInv, TypeOK
  <2> QED
    BY <1>1, <2>1, <2>2, MonthsAreNat DEF HasTrades, Left
<1>4. left # {}
  <2>1. PICK m \in HasTrades \cup adding : m >= rotating
    BY <1>1 DEF IInv, SomeMonthStays
  <2>2. m \notin dropping
    <3>1. m \in Nat /\ rotating \in Nat /\ MinMonthsToKeep \in Nat
      BY <2>1, MonthsAreNat, RotationAssumption DEF IInv, TypeOK
    <3> QED
      BY <2>1, <3>1 DEF IInv, DropsOldest, OldEnough
  <2> QED
    BY <2>1, <2>2 DEF Left
<1>5. FloorOf(left) \in left /\ \A n \in left : FloorOf(left) <= n
  BY <1>3, <1>4, LeastMonth
<1> HIDE DEF left
<1>6. TypeOK'
  <2>1. /\ txn' \in [Writer -> TxnRecord]
        /\ part' \in [Month -> SUBSET Table]
    BY <1>1, <1>2 DEF IInv, TypeOK
  <2>2. top' \in 0 .. LastMonth
    BY <1>1, <1>3, <1>5 DEF IInv, TypeOK, Month
  <2>3. filled' \subseteq {m \in Month : Trades \in part'[m]}
    <3>1. Trades \in Table
      BY RotationAssumption DEF Trades, Table
    <3> QED
      BY <1>1, <3>1 DEF IInv, TypeOK
  <2>4. now' \in Month /\ overtaken' \subseteq Month
    BY <1>1 DEF IInv, TypeOK
  <2>5. /\ rotating' \in 0 .. LastMonth /\ chosen' \in 0 .. LastMonth
        /\ adding' \subseteq Month /\ dropping' \subseteq Month
    BY <1>1, RotationAssumption
  <2> QED
    BY <2>1, <2>2, <2>3, <2>4, <2>5 DEF TypeOK
<1>7. InOrder'
  BY <1>2 DEF IInv, InOrder
<1>8. TablesSoFar' /\ WritersKept'
  BY <1>2 DEF TablesSoFar, WritersKept, PassedBarrier
<1>9. TablesAgree'
  BY <1>1 DEF IInv, TablesAgree
<1>10. DroppedStaysDropped'
  <2> SUFFICES ASSUME NEW m \in Month, part'[m] # {}, m < top'
               PROVE  \E k \in overtaken : k <= m
    BY <1>1 DEF DroppedStaysDropped
  <2>0. m \in Nat /\ top \in Nat /\ overtaken \subseteq Nat
    BY MonthsAreNat, RotationAssumption DEF IInv, TypeOK
  <2>1. CASE top' = top
    <3>1. CASE part[m] # {}
      BY <2>1, <3>1 DEF IInv, DroppedStaysDropped
    <3>2. CASE part[m] = {}
      BY <1>1, <2>0, <2>1, <3>2 DEF IInv, SomeMonthStays, Kept, Excused
    <3> QED
      BY <3>1, <3>2
  <2>2. CASE top' # top
    <3>1. m \notin HasTrades'
      BY <1>1, <1>3, <1>5, <2>0, <2>2
    <3>2. m \in overtaken
      <4>1. Trades \in Table
        BY RotationAssumption DEF Trades, Table
      <4> QED
        BY <1>1, <1>9, <3>1, <4>1 DEF TablesAgree, HasTrades
    <3> QED
      BY <2>0, <3>2
  <2> QED
    BY <2>1, <2>2
<1>11. RotationLocks' /\ ChosenOldest' /\ DropsOldest' /\ SomeMonthStays'
  BY <1>1, <1>3, <1>4, RotationAssumption
  DEF IInv, TypeOK, Month, RotationLocks, ChosenOldest, DropsOldest, SomeMonthStays
<1> QED
  BY <1>6, <1>7, <1>8, <1>9, <1>10, <1>11 DEF IInv

(* A rotation that is rolled back leaves nothing. *)
LEMMA RotateAbortIInv ==
  ASSUME IInv, RotateAbort
  PROVE  IInv'
<1> USE RotationAssumption DEF RotateAbort
<1>1. TypeOK'
  BY DEF IInv, TypeOK
<1>2. InOrder' /\ TablesSoFar' /\ TablesAgree'
  BY DEF IInv, InOrder, TablesSoFar, PassedBarrier, TablesAgree
<1>3. WritersKept' /\ DroppedStaysDropped'
  BY DEF IInv, WritersKept, PassedBarrier, HasTrades, DroppedStaysDropped
<1>4. RotationLocks'
  BY DEF IInv, TypeOK, Month, RotationLocks, NoDDL
<1>5. ChosenOldest' /\ DropsOldest' /\ SomeMonthStays'
  BY DEF IInv, ChosenOldest, DropsOldest, SomeMonthStays, HasTrades
<1> QED
  BY <1>1, <1>2, <1>3, <1>4, <1>5 DEF IInv

-----------------------------------------------------------------------------
(* Every step preserves the invariant. *)
LEMMA NextIInv == IInv /\ [Next]_vars => IInv'
<1> SUFFICES ASSUME IInv, [Next]_vars PROVE IInv'
  OBVIOUS
<1>1. CASE MonthPasses
  BY <1>1, MonthPassesIInv
<1>2. ASSUME NEW w \in Writer, WriterStep(w)
      PROVE  IInv'
  BY <1>2, BatchIInv, CheckFloorIInv, LookForTableIInv, CreateTableIInv,
     CommitIInv, InsertIInv, AbortIInv DEF WriterStep
<1>3. CASE Rotate
  BY <1>3, RotateBeginIInv, RotateChooseIInv, RotateDropIInv, RotateCommitIInv, RotateAbortIInv DEF Rotate
<1>4. CASE UNCHANGED vars
  <2> USE <1>4 DEF vars, rotation
  <2>1. TypeOK' /\ InOrder' /\ TablesSoFar' /\ TablesAgree'
    BY DEF IInv, TypeOK, InOrder, TablesSoFar, PassedBarrier, TablesAgree
  <2>2. WritersKept' /\ DroppedStaysDropped'
    BY DEF IInv, WritersKept, PassedBarrier, HasTrades, DroppedStaysDropped
  <2>3. RotationLocks' /\ ChosenOldest' /\ DropsOldest' /\ SomeMonthStays'
    BY DEF IInv, RotationLocks, NoDDL, ChosenOldest, DropsOldest, OldestLeft, Left, Excused,
           OldEnough, SomeMonthStays, HasTrades, Kept
  <2> QED
    BY <2>1, <2>2, <2>3 DEF IInv
<1> QED
  BY <1>1, <1>2, <1>3, <1>4 DEF Next

(* The invariant holds in every reachable state. *)
THEOREM Invariance == Spec => []IInv
  BY InitIInv, NextIInv, PTL DEF Spec

(* Every variable keeps its type. *)
THEOREM RotationTypes == Spec => []TypeOK
<1>1. IInv => TypeOK
  BY DEF IInv
<1> QED
  BY <1>1, Invariance, PTL

(* The tables of a month exist together, whatever sp_ensure_month_partitions    *)
(* and sp_rotate_partitions create and drop in parallel, unless a rotation's    *)
(* commit overtook their creation.                                              *)
THEOREM TablesTogether == Spec => []TablesAgree
<1>1. IInv => TablesAgree
  BY DEF IInv
<1> QED
  BY <1>1, Invariance, PTL

(* Nothing comes back below a retention floor, with the same exception.        *)
THEOREM NothingComesBack == Spec => []DroppedStaysDropped
<1>1. IInv => DroppedStaysDropped
  BY DEF IInv
<1> QED
  BY <1>1, Invariance, PTL

(* Only the commit of a rotation takes a month's trades away. *)
LEMMA OnlyCommitTakes ==
  ASSUME TypeOK, [Next]_vars, NEW m \in HasTrades, m \notin HasTrades'
  PROVE  RotateCommit
<1>1. m \in Month /\ Trades \in part[m] /\ part \in [Month -> SUBSET Table]
  BY DEF HasTrades, TypeOK
<1>2. Trades \notin part'[m]
  BY <1>1 DEF HasTrades
<1>3. part' # part
  BY <1>1, <1>2
<1>4. ASSUME NEW w \in Writer PROVE ~WriterStep(w)
  <2>1. ~Commit(w)
    BY <1>1, <1>2 DEF Commit
  <2> QED
    BY <1>3, <2>1 DEF WriterStep, Batch, CheckFloor, LookForTable, CreateTable, Insert, Abort
<1>5. ~MonthPasses /\ ~RotateBegin /\ ~RotateChoose /\ ~RotateDrop /\ ~RotateAbort /\ ~UNCHANGED vars
  BY <1>3 DEF MonthPasses, RotateBegin, RotateChoose, RotateDrop, RotateAbort, vars
<1> QED
  BY <1>4, <1>5 DEF Next, Rotate

(* Rotation takes none within the window, and leaves no older month behind that *)
(* is not excused.                                                             *)
LEMMA DropStep ==
  ASSUME IInv, [Next]_vars, NEW m \in HasTrades, m \notin HasTrades'
  PROVE  /\ m < now - MinMonthsToKeep
         /\ \A n \in HasTrades' : n < m => \E k \in overtaken : k <= n
<1>1. RotateCommit /\ m \in Month /\ Trades \in part[m] /\ Trades \in Table
  BY OnlyCommitTakes, RotationAssumption DEF IInv, HasTrades, Trades, Table
<1>2. HasTrades' \subseteq Left
  BY <1>1 DEF RotateCommit, AfterDrop, HasTrades, Left
<1>3. m \in dropping
  BY <1>1 DEF RotateCommit, HasTrades
<1>4. m < now - MinMonthsToKeep
  <2>1. m < rotating - MinMonthsToKeep /\ rotating <= now
    BY <1>3 DEF IInv, DropsOldest, OldEnough, RotationLocks
  <2>2. m \in Nat /\ now \in Nat /\ rotating \in Nat /\ MinMonthsToKeep \in Nat
    BY <1>1, MonthsAreNat, RotationAssumption DEF IInv, TypeOK
  <2> QED
    BY <2>1, <2>2
<1>5. \A n \in HasTrades' : n < m => \E k \in overtaken : k <= n
  BY <1>2, <1>3 DEF IInv, DropsOldest, OldestLeft, Excused
<1> QED
  BY <1>4, <1>5

(* Only the commit of a rotation takes partitions away, none within the window  *)
(* and the oldest first: an older month that it leaves was committed while the  *)
(* drop waited for its locks, by a transaction that had passed the barrier of   *)
(* sp_ensure_month_partitions before an earlier rotation's commit, or lies      *)
(* above such a month.                                                          *)
THEOREM DropsInOrder == Spec => OldestFirst
<1> DEFINE InOrderStep ==
      \A m \in HasTrades :
          m \notin HasTrades' =>
             /\ m < now - MinMonthsToKeep
             /\ \A n \in HasTrades' : n < m => \E k \in overtaken : k <= n
<1>1. IInv /\ [Next]_vars => InOrderStep
  BY DropStep
<1>2. Spec => [][InOrderStep]_vars
  BY <1>1, Invariance, PTL DEF Spec
<1> QED
  BY <1>2 DEF OldestFirst
=============================================================================
