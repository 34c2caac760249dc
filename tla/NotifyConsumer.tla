--------------------------- MODULE NotifyConsumer ---------------------------
(***************************************************************************)
(* PgNotifyConsumer, the loop under OhlcvAggregationService and            *)
(* FeatureCalculationService: LISTEN on a connection of its own, drain the *)
(* queue chunk by chunk over the pool, wait for a notification or 60 s,    *)
(* drain again; reconnect when the listener's connection breaks.           *)
(*                                                                         *)
(* A queue is a set of items.  Both queues take a chunk with FOR UPDATE    *)
(* SKIP LOCKED: rows that other transactions have locked are passed over,  *)
(* and a chunk of nothing but such rows is a dry queue to the loop.  Which *)
(* rows are taken first, and what is done with them, is CandlePipeline's   *)
(* and FeaturePipeline's subject; here a chunk takes any ChunkSize of the  *)
(* rows it can lock out of the queue, or throws and leaves them.  A        *)
(* notification reaches the consumer only if its LISTEN is in force when   *)
(* the sender commits.                                                     *)
(***************************************************************************)
EXTENDS Naturals, FiniteSets

CONSTANTS
    Item,
    ChunkSize,
    MaxPosts        \* bound on what producers and other transactions begin

ASSUME ConsumerAssumption ==
    /\ ChunkSize \in Nat \ {0}
    /\ MaxPosts \in Nat

VARIABLES
    queue,      \* committed work
    held,       \* rows that other transactions have locked
    posts,      \* transactions of others, as far as they are bounded
    pc,         \* where ExecuteAsync is
    alive,      \* the listener's connection stands
    signals,    \* notifications it has received and WaitAsync has not returned
    gaveUp,     \* this wait follows a drain that ended with an exception
    stopping,   \* stoppingToken is cancelled
    untold      \* history: what has become work again, with no NOTIFY, during this wait

work     == <<queue, held, posts>>
listener == <<alive, signals>>
vars     == <<work, pc, listener, gaveUp, stopping, untold>>

TypeOK ==
    /\ queue \subseteq Item
    /\ held \subseteq Item
    /\ posts \in Nat
    /\ pc \in {"connect", "drain", "wait", "stopped"}
    /\ alive \in BOOLEAN
    /\ signals \in Nat
    /\ gaveUp \in BOOLEAN
    /\ stopping \in BOOLEAN
    /\ untold \subseteq Item

\* Work may lie in the queue when the service starts.
Init ==
    /\ queue \in SUBSET Item
    /\ held = {}
    /\ posts = 0
    /\ pc = "connect"
    /\ alive = FALSE
    /\ signals = 0
    /\ gaveUp = FALSE
    /\ stopping = FALSE
    /\ untold = {}

-----------------------------------------------------------------------------
(* The producers, and other transactions on the queue *)

\* LISTEN has been executed on a connection that still stands.
Listening == alive

Idle == UNCHANGED <<pc, alive, gaveUp, stopping>>

\* A transaction that queues S, rows it had locked or new ones, commits: its
\* locks go and its NOTIFY is sent.
Deliver(S) ==
    /\ queue' = queue \cup S
    /\ held' = held \ S
    /\ untold' = untold \ S
    /\ signals' = IF Listening THEN signals + 1 ELSE signals
    /\ Idle

\* Work comes back without a NOTIFY.
Unannounced(S) ==
    /\ untold' = IF pc = "wait" THEN untold \cup S ELSE untold
    /\ Idle /\ UNCHANGED signals

\* A transaction locks rows, queued or not.
Lock(S) ==
    /\ S \cap held = {}
    /\ held' = held \cup S
    /\ Idle /\ UNCHANGED <<queue, signals, untold>>

\* A transaction that has locked S rolls back, and sends nothing.
RolledBack(S) ==
    /\ S # {}
    /\ S \subseteq held
    /\ held' = held \ S
    /\ Unannounced(S \cap queue)
    /\ UNCHANGED queue

\* It commits, having done the work that S is.
Done(S) ==
    /\ S # {}
    /\ S \subseteq held
    /\ queue' = queue \ S
    /\ held' = held \ S
    /\ Idle /\ UNCHANGED <<signals, untold>>

\* Work that had been taken is work again: the claim of whoever took it has expired.
Return(S) ==
    /\ S \cap queue = {}
    /\ queue' = queue \cup S
    /\ Unannounced(S)
    /\ UNCHANGED held

Bounded(A) == A /\ posts < MaxPosts /\ posts' = posts + 1

Others ==
    \/ \E S \in (SUBSET Item) \ {{}} : Bounded(Deliver(S) \/ Lock(S) \/ Return(S))
    \/ \E S \in SUBSET held : (RolledBack(S) \/ Done(S)) /\ UNCHANGED posts

-----------------------------------------------------------------------------
(* The listener's connection *)

\* What follows LISTEN: draining first, because the work that was queued
\* before has no notification left to send.
WaitFirst == "wait"   \* mutant
AfterListen == "drain"

\* OpenAsync and LISTEN succeed.  Nothing sent before LISTEN takes effect
\* reaches the consumer, so that the opening has no step of its own.  When one
\* of them throws nothing changes: RetryDelay later there is another attempt.
Listen ==
    /\ pc = "connect"
    /\ ~stopping
    /\ pc' = AfterListen
    /\ alive' = TRUE
    /\ signals' = 0
    /\ UNCHANGED <<work, gaveUp, stopping, untold>>

\* The connection breaks; what it had received is gone with it.
Break ==
    /\ alive
    /\ alive' = FALSE
    /\ signals' = 0
    /\ UNCHANGED <<work, pc, gaveUp, stopping, untold>>

EndWait == gaveUp' = FALSE /\ untold' = {}

\* WaitAsync throws on the broken connection.
BreakNoticed ==
    /\ pc = "wait"
    /\ ~alive
    /\ pc' = "connect"
    /\ EndWait
    /\ UNCHANGED <<work, listener, stopping>>

-----------------------------------------------------------------------------
(* DrainAsync *)

\* What FOR UPDATE SKIP LOCKED can lock.
Ready == queue \ held

IsChunk(B) == B \subseteq Ready /\ Cardinality(B) \in 1..ChunkSize

\* Where the loop goes after a chunk: round again, unless the token was
\* cancelled while the chunk ran.
AfterChunk == IF stopping THEN "wait" ELSE "drain"

\* ProcessChunkAsync commits.
Chunk(B) ==
    /\ pc = "drain"
    /\ IsChunk(B)
    /\ queue' = queue \ B
    /\ pc' = AfterChunk
    /\ UNCHANGED <<held, posts, listener, gaveUp, stopping, untold>>

\* It returns 0: nothing is queued, or nothing that is not locked.
Dry ==
    /\ pc = "drain"
    /\ Ready = {}
    /\ pc' = "wait"
    /\ UNCHANGED <<work, listener, gaveUp, stopping, untold>>

\* What a chunk has locked when its client is gone.  The server runs on with
\* it, as another's transaction now.
Orphaned(S) ==
    /\ S # {} => pc = "drain" /\ IsChunk(S)
    /\ held' = held \cup S

\* It throws, whatever the queue holds: an error of the database or the pool,
\* or the command's timeout.
ChunkFails(S) ==
    /\ pc = "drain"
    /\ Orphaned(S)
    /\ pc' = "wait"
    /\ gaveUp' = TRUE
    /\ UNCHANGED <<queue, posts, listener, stopping, untold>>

-----------------------------------------------------------------------------
(* WaitAsync *)

Unasked == TRUE   \* mutant: a wake-up without a notification is counted
HasSignal == signals > 0

WakeUp ==
    /\ pc = "wait"
    /\ alive
    /\ HasSignal
    /\ ~stopping
    /\ signals' = signals - 1
    /\ pc' = "drain"
    /\ EndWait
    /\ UNCHANGED <<work, alive, stopping>>

\* SafetyRecheck.  Also the way out of waiting on a connection that broke
\* without anybody noticing.
NoRecheck == FALSE   \* mutant
RecheckDue == pc = "wait" /\ ~stopping

Recheck ==
    /\ RecheckDue
    /\ pc' = "drain"
    /\ EndWait
    /\ UNCHANGED <<work, listener, stopping>>

-----------------------------------------------------------------------------
(* Life of the process *)

Cancel ==
    /\ pc # "stopped"
    /\ ~stopping
    /\ stopping' = TRUE
    /\ UNCHANGED <<work, pc, listener, gaveUp, untold>>

Terminate(S) ==
    /\ Orphaned(S)
    /\ pc' = "stopped"
    /\ alive' = FALSE
    /\ signals' = 0
    /\ EndWait
    /\ UNCHANGED <<queue, posts, stopping>>

\* OpenAsync, LISTEN, the drain loop between two chunks, WaitAsync or the
\* delay, whichever runs, sees the token, and ExecuteAsync returns.
Stop == stopping /\ pc # "stopped" /\ Terminate({})

\* The container is killed at any point, or the host has waited ShutdownTimeout.
Kill(S) == Terminate(S)

Restart ==
    /\ pc = "stopped"
    /\ pc' = "connect"
    /\ stopping' = FALSE
    /\ UNCHANGED <<work, listener, gaveUp, untold>>

-----------------------------------------------------------------------------
Connecting == Listen \/ Break \/ BreakNoticed

Next ==
    \/ Others
    \/ Connecting
    \/ \E B \in SUBSET queue : Chunk(B) \/ ChunkFails(B) \/ Kill(B)
    \/ Dry
    \/ WakeUp
    \/ Recheck
    \/ Cancel
    \/ Stop
    \/ Restart

Ends(i) == \E S \in SUBSET held : i \in S /\ (RolledBack(S) \/ Done(S)) /\ UNCHANGED posts

\* The loop keeps running and the container is started again (restart:
\* unless-stopped in docker-compose.demo.yml); the timers fire; every
\* transaction ends.  Strong fairness where a fault can intervene: not every
\* connection attempt, LISTEN or chunk fails.
Fairness ==
    /\ SF_vars(Listen)
    /\ SF_vars(\E B \in SUBSET Item : Chunk(B))
    /\ WF_vars(Dry)
    /\ WF_vars(BreakNoticed \/ WakeUp \/ Recheck)
    /\ WF_vars(Stop)
    /\ WF_vars(Restart)
    /\ \A i \in Item : WF_vars(Ends(i))

Spec == Init /\ [][Next]_vars

FairSpec == Spec /\ Fairness

-----------------------------------------------------------------------------
(* Properties *)

\* A consumer that waits while there is work it could take has been told so,
\* as long as its connection stands and its last drain did not fail: what was
\* queued before LISTEN took effect is found by the drain that follows it,
\* what is queued later leaves a notification (the comment in
\* ListenAndDrainAsync).  Excepted is what became work again during this very
\* wait and no statement announces: rows the drain had passed over as locked,
\* whose transaction then rolled back, and expired claims.  For these, for
\* failed drains and for broken connections there is the 60 s recheck.
NoSleepOnWork ==
    pc = "wait" /\ alive /\ ~gaveUp /\ ~stopping /\ Ready \ untold # {} => signals > 0

\* Queued work is done in the end, through lost notifications, broken
\* connections, failed chunks, other transactions' locks, deployments and kills.
WorkGetsDone ==
    \A i \in Item : i \in queue ~> i \notin queue
=============================================================================
