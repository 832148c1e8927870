------------------------------- MODULE Runtime -------------------------------
(***************************************************************************)
(* One Cloud process and its connections: install_runtime and              *)
(* CloudRuntime.close of runtime.py over DatabaseRuntime of database.py,   *)
(* with sessions in flight while PostgreSQL stops and starts.              *)
(*                                                                         *)
(* ReceiptStore says what a session does to its tenant's evidence; here it *)
(* is only a holder of a connection.  A connection is the number of the    *)
(* server start it was made in: it is alive while that start lasts.  The   *)
(* engine's QueuePool keeps idle connections in a queue and counts those   *)
(* taken out; dispose leaves it a new pool and forgets the old one.        *)
(***************************************************************************)
EXTENDS Naturals, Sequences, FiniteSets

CONSTANTS
    Workers,        \* threads, each with at most one session
    None,
    PoolSize,       \* idle connections kept (SQLAlchemy's default: 5)
    MaxOverflow,    \* connections beyond these (SQLAlchemy's default: 10)
    MaxStarts,      \* bound: starts of the server
    MaxCloses       \* bound: calls of close

ASSUME RuntimeAssumption ==
    /\ IsFiniteSet(Workers)
    /\ PoolSize \in Nat \ {0} /\ MaxOverflow \in Nat
    /\ MaxStarts \in Nat \ {0} /\ MaxCloses \in Nat
    /\ None \notin [pool : 0..MaxCloses, start : 1..MaxStarts]

VARIABLES
    installed,   \* install_runtime has returned a runtime
    up, starts,  \* the server, and how often it has been started
    pool, idle,  \* which pool the engine has, and its queue
    held,        \* the connection of each worker, and the pool it is of
    orphans,     \* connections that went home to a pool nobody has any more
    unused,      \* nothing was taken from the pool since close
    pc, heard,
    begun        \* the server start a session was begun in, 0 when it was down

vars == <<installed, up, starts, pool, idle, held, orphans, unused, pc, heard, begun>>
server == <<up, starts>>
engine == <<pool, idle, orphans, unused>>
session == <<held, pc, heard, begun>>

Made(w) == IF held[w] = None THEN 0 ELSE held[w].start
Alive(start) == up /\ start = starts
Holders == {w \in Workers : held[w] # None}
TakenOut == {w \in Holders : held[w].pool = pool}
Limit == PoolSize + MaxOverflow

TypeOK ==
    /\ installed \in BOOLEAN
    /\ up \in BOOLEAN /\ starts \in 1..MaxStarts /\ (~up => starts < MaxStarts)
    /\ pool \in 0..MaxCloses
    /\ idle \in Seq(1..MaxStarts) /\ Len(idle) <= PoolSize
    /\ held \in [Workers -> [pool : 0..MaxCloses, start : 1..MaxStarts] \cup {None}]
    /\ orphans \in Nat
    /\ unused \in BOOLEAN
    /\ pc \in [Workers -> {"out", "waiting", "begun", "open"}]
    /\ heard \in [Workers -> {"nothing", "done", "raised", "timeout", "unreachable", "lost"}]
    /\ begun \in [Workers -> 0..MaxStarts]
    /\ \A w \in Workers : pc[w] \in {"begun", "open"} => held[w] # None

Init ==
    /\ installed = FALSE
    /\ up = TRUE /\ starts = 1
    /\ pool = 0 /\ idle = <<>> /\ orphans = 0 /\ unused = TRUE
    /\ held = [w \in Workers |-> None]
    /\ pc = [w \in Workers |-> "out"]
    /\ heard = [w \in Workers |-> "nothing"]
    /\ begun = [w \in Workers |-> 0]

-----------------------------------------------------------------------------
(***************************************************************************)
(* install_runtime: the URL given to it, or else to the process, is there  *)
(* and is PostgreSQL's.  Any other raises and leaves nothing behind.  No   *)
(* connection is made yet.                                                 *)
(***************************************************************************)
Install ==
    /\ ~installed
    /\ installed' = TRUE
    /\ UNCHANGED <<server, engine, session>>

-----------------------------------------------------------------------------
(* tenant_session is entered. *)
Begin(w) ==
    /\ installed /\ pc[w] = "out"
    /\ pc' = [pc EXCEPT ![w] = "waiting"]
    /\ heard' = [heard EXCEPT ![w] = "nothing"]
    /\ begun' = [begun EXCEPT ![w] = IF up THEN starts ELSE 0]
    /\ UNCHANGED <<installed, server, engine, held>>

(* Mutation of HasRoom: the pool hands out one connection too many. *)
HasRoomForAnother == Len(idle) + Cardinality(TakenOut) <= Limit

(* The pool has an idle connection, or room for one more. *)
HasRoom == Len(idle) + Cardinality(TakenOut) < Limit
Available(w) == pc[w] = "waiting" /\ (idle # <<>> \/ HasRoom)

(* Mutation of Pinged: pool_pre_ping is not set. *)
Unpinged(start) == start

(* pool_pre_ping: a dead connection is replaced by a new one. *)
Pinged(start) == IF Alive(start) THEN start ELSE starts

Checkout(w) ==
    /\ Available(w) /\ up
    /\ LET start == IF idle # <<>> THEN Pinged(Head(idle)) ELSE starts
       IN  held' = [held EXCEPT ![w] = [pool |-> pool, start |-> start]]
    /\ idle' = IF idle # <<>> THEN Tail(idle) ELSE idle
    /\ unused' = FALSE
    /\ pc' = [pc EXCEPT ![w] = "begun"]
    /\ UNCHANGED <<installed, server, pool, orphans, heard, begun>>

(* What the ping found dead cannot be replaced while the server is down. *)
Unreachable(w) ==
    /\ Available(w) /\ ~up
    /\ idle' = IF idle # <<>> THEN Tail(idle) ELSE idle
    /\ pc' = [pc EXCEPT ![w] = "out"]
    /\ heard' = [heard EXCEPT ![w] = "unreachable"]
    /\ UNCHANGED <<installed, server, pool, orphans, unused, held, begun>>

(* Everybody else's sessions took longer than the pool waits. *)
TimeOut(w) ==
    /\ pc[w] = "waiting" /\ ~Available(w)
    /\ pc' = [pc EXCEPT ![w] = "out"]
    /\ heard' = [heard EXCEPT ![w] = "timeout"]
    /\ UNCHANGED <<installed, server, engine, held, begun>>

(* The first statement of the transaction. *)
SetScope(w) ==
    /\ pc[w] = "begun" /\ Alive(Made(w))
    /\ pc' = [pc EXCEPT ![w] = "open"]
    /\ UNCHANGED <<installed, server, engine, held, heard, begun>>

Leave(w, answer) ==
    /\ held' = [held EXCEPT ![w] = None]
    /\ pc' = [pc EXCEPT ![w] = "out"]
    /\ heard' = [heard EXCEPT ![w] = answer]
    /\ UNCHANGED <<installed, server, pool, unused, begun>>

(* A live connection goes home: into the queue while it has room. *)
Return(w) ==
    IF held[w].pool = pool
    THEN /\ idle' = IF Len(idle) < PoolSize THEN Append(idle, Made(w)) ELSE idle
         /\ UNCHANGED orphans
    ELSE orphans' = orphans + 1 /\ UNCHANGED idle

Drop(w) == UNCHANGED <<idle, orphans>>

(* The block ends normally. *)
Commit(w) ==
    /\ pc[w] = "open" /\ Alive(Made(w))
    /\ Leave(w, "done")
    /\ Return(w)

(* The block raises; a connection that cannot roll back is dropped. *)
Raise(w) ==
    /\ pc[w] = "open"
    /\ Leave(w, "raised")
    /\ IF Alive(Made(w)) THEN Return(w) ELSE Drop(w)

(* Mutation of Lose: the session is not closed when its connection is lost. *)
LoseUnclosed(w) ==
    /\ pc[w] \in {"begun", "open"} /\ ~Alive(Made(w))
    /\ pc' = [pc EXCEPT ![w] = "out"]
    /\ heard' = [heard EXCEPT ![w] = "lost"]
    /\ UNCHANGED <<installed, server, engine, held, begun>>

(* A statement meets a dead connection: it is invalidated, not returned. *)
Lose(w) ==
    /\ pc[w] \in {"begun", "open"} /\ ~Alive(Made(w))
    /\ Leave(w, "lost")
    /\ Drop(w)

-----------------------------------------------------------------------------
(* Mutation of Close: idle connections are closed, the pool stays. *)
CloseIdle ==
    /\ installed /\ pool < MaxCloses
    /\ idle' = <<>>
    /\ unused' = TRUE
    /\ UNCHANGED <<installed, server, pool, orphans, session>>

(***************************************************************************)
(* CloudRuntime.close: dispose closes what is idle and starts a new pool.  *)
(* Sessions in flight keep their connections, and another may begin.       *)
(***************************************************************************)
Close ==
    /\ installed /\ pool < MaxCloses
    /\ pool' = pool + 1
    /\ idle' = <<>>
    /\ unused' = TRUE
    /\ UNCHANGED <<installed, server, orphans, session>>

(* A forgotten pool is garbage: its connections are closed with it. *)
Collect ==
    /\ orphans > 0
    /\ orphans' = 0
    /\ UNCHANGED <<installed, server, pool, idle, unused, session>>

StopServer ==
    /\ up /\ starts < MaxStarts
    /\ up' = FALSE
    /\ UNCHANGED <<installed, starts, engine, session>>

StartServer ==
    /\ ~up
    /\ up' = TRUE
    /\ starts' = starts + 1
    /\ UNCHANGED <<installed, engine, session>>

Step(w) == Unreachable(w) \/ SetScope(w) \/ Commit(w) \/ Raise(w) \/ Lose(w)

Next ==
    \/ Install \/ Close \/ Collect \/ StopServer \/ StartServer
    \/ \E w \in Workers : Begin(w) \/ Checkout(w) \/ TimeOut(w) \/ Step(w)

Spec == Init /\ [][Next]_vars

(***************************************************************************)
(* Blocks end, the pool serves its waiters in turn, garbage is collected.  *)
(* A wait for the pool need not time out, nor a stopped server come back.  *)
(***************************************************************************)
Fairness ==
    /\ WF_vars(Collect)
    /\ \A w \in Workers : WF_vars(Step(w)) /\ SF_vars(Checkout(w))
FairSpec == Spec /\ Fairness
-----------------------------------------------------------------------------
(* A connection in use was alive when, or after, its session was begun. *)
HeldIsFresh == \A w \in Workers :
    /\ begun[w] <= starts
    /\ pc[w] \in {"begun", "open"} => begun[w] <= Made(w) /\ Made(w) <= starts

(* A connection is out while its session has a transaction, and no longer. *)
HoldersAreInSession == \A w \in Workers :
    /\ pc[w] \in {"begun", "open"} <=> held[w] # None
    /\ held[w] # None => held[w].pool <= pool

(* The engine's pool never has more connections than it was configured for. *)
PoolIsBounded == Len(idle) + Cardinality(TakenOut) <= Limit

(***************************************************************************)
(* A session that has to wait for the pool waits for a session in flight:  *)
(* no connection is counted as taken out that nobody will bring back, not  *)
(* after an outage, and not after a close under the sessions.              *)
(***************************************************************************)
NobodyWaitsInVain == \A w \in Workers :
    pc[w] = "waiting" /\ ~Available(w) =>
        \E v \in Workers : pc[v] \in {"begun", "open"} /\ held[v].pool = pool

(***************************************************************************)
(* What holds of the pool and its holders between any two steps.  The      *)
(* first four are inductive together, the last one follows from them.      *)
(***************************************************************************)
IInv ==
    /\ TypeOK
    /\ HeldIsFresh
    /\ HoldersAreInSession
    /\ PoolIsBounded
    /\ NobodyWaitsInVain

(***************************************************************************)
(* pool_pre_ping: an outage harms the sessions that were begun before it   *)
(* ended, and none that begins when the server is back, although the pool  *)
(* may be full of connections that did not survive it.                     *)
(***************************************************************************)
Harmed(w) == pc'[w] = "out" /\ heard'[w] \in {"lost", "unreachable"}
OutageEndsWithServer ==
    [][\A w \in Workers : pc[w] # "out" /\ Harmed(w) => ~(up /\ begun[w] = starts)]_vars

(***************************************************************************)
(* A session that was begun comes to its end: connections that were lost   *)
(* with the server, or stay with a pool that was closed, never leave the   *)
(* waiters of the pool with nothing to wait for.                           *)
(***************************************************************************)
EverySessionEnds == \A w \in Workers : pc[w] # "out" ~> pc[w] = "out"

(***************************************************************************)
(* "Release process-owned resources" (CloudRuntime.close): when no session *)
(* begins after it, every connection is closed in the end, those of the    *)
(* sessions that were in flight included.                                  *)
(***************************************************************************)
NothingIsOpen == idle = <<>> /\ Holders = {} /\ orphans = 0
CloseReleases == <>[](installed /\ unused) => <>[]NothingIsOpen
=============================================================================
