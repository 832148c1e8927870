---------------------------- MODULE RuntimeProofs ----------------------------
(***************************************************************************)
(* Proofs about Runtime for every value of its constants: any number of    *)
(* workers, any size of the pool, any number of outages and closes.        *)
(***************************************************************************)
EXTENDS Runtime, TLAPS, SequenceTheorems, FiniteSetTheorems

Held == [pool : 0..MaxCloses, start : 1..MaxStarts]

(* What the queue holds after one connection is taken or comes home. *)
LEMMA QueueTypes ==
    ASSUME TypeOK
    PROVE  /\ idle # <<>> => /\ Head(idle) \in 1..MaxStarts
                             /\ Tail(idle) \in Seq(1..MaxStarts)
                             /\ Len(Tail(idle)) <= PoolSize
           /\ \A start \in 1..MaxStarts : Len(idle) < PoolSize =>
                 /\ Append(idle, start) \in Seq(1..MaxStarts)
                 /\ Len(Append(idle, start)) <= PoolSize
  <1>1. idle \in Seq(1..MaxStarts) /\ Len(idle) <= PoolSize /\ PoolSize \in Nat
    BY RuntimeAssumption DEF TypeOK
  <1>2. ASSUME idle # <<>>
        PROVE  /\ Head(idle) \in 1..MaxStarts
               /\ Tail(idle) \in Seq(1..MaxStarts)
               /\ Len(Tail(idle)) = Len(idle) - 1
    BY <1>1, <1>2, HeadTailProperties
  <1>3. ASSUME NEW start \in 1..MaxStarts
        PROVE  /\ Append(idle, start) \in Seq(1..MaxStarts)
               /\ Len(Append(idle, start)) = Len(idle) + 1
    BY <1>1, AppendProperties
  <1>4. Len(idle) \in Nat
    BY <1>1
  <1> QED  BY <1>1, <1>2, <1>3, <1>4

(* A connection in use has a start of the server. *)
LEMMA HeldType ==
    ASSUME TypeOK, NEW w \in Workers, pc[w] \in {"begun", "open"}
    PROVE  held[w] # None /\ held[w] \in Held /\ Made(w) \in 1..MaxStarts
                /\ Made(w) = held[w].start
  BY DEF TypeOK, Held, Made

LEMMA InitType == Init => TypeOK
  <1> SUFFICES ASSUME Init PROVE TypeOK
    OBVIOUS
  <1>1. <<>> \in Seq(1..MaxStarts) /\ Len(<<>>) = 0
    BY EmptySeq
  <1>2. installed \in BOOLEAN /\ up \in BOOLEAN /\ unused \in BOOLEAN
    BY DEF Init
  <1>3. /\ starts \in 1..MaxStarts /\ (~up => starts < MaxStarts)
        /\ pool \in 0..MaxCloses /\ orphans \in Nat
        /\ idle \in Seq(1..MaxStarts) /\ Len(idle) <= PoolSize
    BY <1>1, RuntimeAssumption DEF Init
  <1>4. /\ held \in [Workers -> [pool : 0..MaxCloses, start : 1..MaxStarts] \cup {None}]
        /\ pc \in [Workers -> {"out", "waiting", "begun", "open"}]
        /\ heard \in [Workers -> {"nothing", "done", "raised", "timeout", "unreachable", "lost"}]
        /\ begun \in [Workers -> 0..MaxStarts]
        /\ \A w \in Workers : pc[w] \in {"begun", "open"} => held[w] # None
    BY RuntimeAssumption DEF Init
  <1> QED  BY <1>2, <1>3, <1>4 DEF TypeOK

(* The end of a session, however it ends, keeps the types. *)
LEMMA LeaveType ==
    ASSUME TypeOK, NEW w \in Workers, pc[w] \in {"begun", "open"},
           NEW answer \in {"done", "raised", "lost"},
           Leave(w, answer), Return(w) \/ Drop(w)
    PROVE  TypeOK'
  <1>1. Made(w) \in 1..MaxStarts
    BY HeldType
  <1>2. idle' \in Seq(1..MaxStarts) /\ Len(idle') <= PoolSize /\ orphans' \in Nat
    <2>1. CASE Drop(w)
      BY <2>1 DEF Drop, TypeOK
    <2>2. CASE Return(w)
      <3>1. idle' = idle \/ (Len(idle) < PoolSize /\ idle' = Append(idle, Made(w)))
        BY <2>2 DEF Return
      <3>2. orphans' \in Nat
        BY <2>2 DEF Return, TypeOK
      <3>3. idle \in Seq(1..MaxStarts) /\ Len(idle) <= PoolSize
        BY DEF TypeOK
      <3>4. CASE idle' = idle
        BY <3>2, <3>3, <3>4
      <3>5. CASE Len(idle) < PoolSize /\ idle' = Append(idle, Made(w))
        BY <1>1, <3>2, <3>5, QueueTypes
      <3> QED  BY <3>1, <3>4, <3>5
    <2> QED  BY <2>1, <2>2
  <1>3. /\ held' \in [Workers -> Held \cup {None}]
        /\ pc' \in [Workers -> {"out", "waiting", "begun", "open"}]
        /\ heard' \in [Workers -> {"nothing", "done", "raised", "timeout", "unreachable", "lost"}]
        /\ \A v \in Workers : pc'[v] \in {"begun", "open"} => held'[v] # None
    BY DEF Leave, TypeOK, Held
  <1>4. UNCHANGED <<installed, up, starts, pool, unused, begun>>
    BY DEF Leave, server
  <1>5. /\ installed' \in BOOLEAN
        /\ up' \in BOOLEAN /\ starts' \in 1..MaxStarts /\ (~up' => starts' < MaxStarts)
        /\ pool' \in 0..MaxCloses /\ unused' \in BOOLEAN
        /\ begun' \in [Workers -> 0..MaxStarts]
    BY <1>4 DEF TypeOK
  <1> QED  BY <1>2, <1>3, <1>5 DEF TypeOK, Held

LEMMA CheckoutType ==
    ASSUME TypeOK, NEW w \in Workers, Checkout(w)
    PROVE  TypeOK' /\ held'[w] = [pool |-> pool, start |-> starts]
  <1> DEFINE start == IF idle # <<>> THEN Pinged(Head(idle)) ELSE starts
  <1>1. start = starts /\ starts \in 1..MaxStarts /\ pool \in 0..MaxCloses
    BY DEF Pinged, Alive, TypeOK
  <1>2. held' = [held EXCEPT ![w] = [pool |-> pool, start |-> starts]]
    BY <1>1 DEF Checkout
  <1>3. idle' \in Seq(1..MaxStarts) /\ Len(idle') <= PoolSize
    BY QueueTypes DEF Checkout, TypeOK
  <1>4. [pool |-> pool, start |-> starts] # None /\ [pool |-> pool, start |-> starts] \in Held
    BY <1>1, RuntimeAssumption DEF Held
  <1> HIDE DEF start
  <1>5. /\ held' \in [Workers -> Held \cup {None}]
        /\ pc' \in [Workers -> {"out", "waiting", "begun", "open"}]
        /\ \A v \in Workers : pc'[v] \in {"begun", "open"} => held'[v] # None
    BY <1>2, <1>4 DEF Checkout, TypeOK, Held
  <1>6. unused' \in BOOLEAN /\ UNCHANGED <<installed, up, starts, pool, orphans, heard, begun>>
    BY DEF Checkout, server
  <1>7. TypeOK'
    BY <1>3, <1>5, <1>6 DEF TypeOK, Held
  <1> QED  BY <1>2, <1>7 DEF TypeOK

LEMMA StepType == TypeOK /\ [Next]_vars => TypeOK'
  <1> SUFFICES ASSUME TypeOK, [Next]_vars PROVE TypeOK'
    OBVIOUS
  <1>1. CASE UNCHANGED vars
    BY <1>1 DEF vars, TypeOK
  <1>2. CASE Install
    BY <1>2 DEF Install, TypeOK, server, engine, session
  <1>3. CASE Close
    <2>1. <<>> \in Seq(1..MaxStarts) /\ Len(<<>>) = 0
      BY EmptySeq
    <2> QED  BY <1>3, <2>1, RuntimeAssumption DEF Close, TypeOK, server, session
  <1>4. CASE Collect
    BY <1>4 DEF Collect, TypeOK, server, session
  <1>5. CASE StopServer
    BY <1>5 DEF StopServer, TypeOK, engine, session
  <1>6. CASE StartServer
    <2>1. starts' \in 1..MaxStarts /\ up' = TRUE
      BY <1>6, RuntimeAssumption DEF StartServer, TypeOK
    <2>2. UNCHANGED <<installed, pool, idle, orphans, unused, held, pc, heard, begun>>
      BY <1>6 DEF StartServer, engine, session
    <2> QED  BY <2>1, <2>2 DEF TypeOK
  <1>7. ASSUME NEW w \in Workers,
               Begin(w) \/ Checkout(w) \/ TimeOut(w) \/ Step(w)
        PROVE  TypeOK'
    <2>1. CASE Begin(w)
      <3>1. begun' \in [Workers -> 0..MaxStarts]
        <4>1. starts \in 0..MaxStarts /\ 0 \in 0..MaxStarts
          BY RuntimeAssumption DEF TypeOK
        <4>2. (IF up THEN starts ELSE 0) \in 0..MaxStarts
          BY <4>1
        <4>3. begun \in [Workers -> 0..MaxStarts]
          BY DEF TypeOK
        <4> QED  BY <2>1, <4>2, <4>3 DEF Begin
      <3>2. /\ pc' \in [Workers -> {"out", "waiting", "begun", "open"}]
            /\ heard' \in [Workers -> {"nothing", "done", "raised", "timeout",
                                        "unreachable", "lost"}]
            /\ \A v \in Workers : pc'[v] \in {"begun", "open"} => held'[v] # None
        BY <2>1 DEF Begin, TypeOK
      <3>3. UNCHANGED <<installed, up, starts, pool, idle, orphans, unused, held>>
        BY <2>1 DEF Begin, server, engine
      <3> QED  BY <3>1, <3>2, <3>3 DEF TypeOK
    <2>2. CASE Checkout(w)
      BY <2>2, CheckoutType
    <2>3. CASE TimeOut(w)
      BY <2>3 DEF TimeOut, TypeOK, server, engine
    <2>4. CASE Unreachable(w)
      BY <2>4, QueueTypes DEF Unreachable, TypeOK, server
    <2>5. CASE SetScope(w)
      BY <2>5 DEF SetScope, TypeOK, server, engine
    <2>6. CASE Commit(w)
      BY <2>6, LeaveType DEF Commit
    <2>7. CASE Raise(w)
      BY <2>7, LeaveType DEF Raise
    <2>8. CASE Lose(w)
      BY <2>8, LeaveType DEF Lose
    <2> QED  BY <1>7, <2>1, <2>2, <2>3, <2>4, <2>5, <2>6, <2>7, <2>8 DEF Step
  <1> QED  BY <1>1, <1>2, <1>3, <1>4, <1>5, <1>6, <1>7 DEF Next

(* Type correctness of the runtime. *)
THEOREM TypeCorrect == Spec => []TypeOK
  BY InitType, StepType, PTL DEF Spec

-----------------------------------------------------------------------------
(* The pool hands out connections of the present start only, and starts only grow. *)
LEMMA StepFresh == TypeOK /\ HeldIsFresh /\ [Next]_vars => HeldIsFresh'
  <1> SUFFICES ASSUME TypeOK, HeldIsFresh, [Next]_vars, NEW v \in Workers
               PROVE  /\ begun'[v] <= starts'
                      /\ pc'[v] \in {"begun", "open"} =>
                            begun'[v] <= Made(v)' /\ Made(v)' <= starts'
    BY DEF HeldIsFresh
  <1> DEFINE Fresh == /\ begun'[v] <= starts'
                      /\ pc'[v] \in {"begun", "open"} =>
                            begun'[v] <= Made(v)' /\ Made(v)' <= starts'
  <1>1. starts \in Nat /\ begun[v] \in Nat /\ begun[v] <= starts
    BY DEF TypeOK, HeldIsFresh
  <1>2. ASSUME UNCHANGED session, starts <= starts', starts' \in Nat PROVE Fresh
    <2>1. pc[v] \in {"begun", "open"} => Made(v) \in Nat
      BY HeldType
    <2>2. Made(v)' = Made(v)
      BY <1>2 DEF session, Made
    <2> QED  BY <1>1, <1>2, <2>1, <2>2 DEF session, HeldIsFresh
  <1>3. CASE UNCHANGED vars \/ Install \/ Close \/ Collect \/ StopServer \/ StartServer
    <2>1. UNCHANGED session /\ starts <= starts' /\ starts' \in Nat
      BY <1>1, <1>3
         DEF vars, Install, Close, Collect, StopServer, StartServer, server, session
    <2> QED  BY <1>2, <2>1
  <1>4. ASSUME NEW w \in Workers,
               Begin(w) \/ Checkout(w) \/ TimeOut(w) \/ Step(w)
        PROVE  Fresh
    <2>1. starts' = starts
      BY <1>4 DEF Begin, Checkout, TimeOut, Step, Unreachable, SetScope, Commit, Raise,
                  Lose, Leave, server
    <2>2. CASE v # w
      <3>1. pc'[v] = pc[v] /\ begun'[v] = begun[v] /\ held'[v] = held[v]
        BY <1>4, <2>2 DEF Begin, Checkout, TimeOut, Step, Unreachable, SetScope, Commit,
                          Raise, Lose, Leave, TypeOK
      <3>2. Made(v)' = Made(v)
        BY <3>1 DEF Made
      <3> QED  BY <2>1, <3>1, <3>2 DEF HeldIsFresh
    <2>3. CASE v = w
      <3>1. CASE Checkout(w)
        <4>1. held'[w] = [pool |-> pool, start |-> starts] /\ held'[w] # None
          BY <3>1, CheckoutType DEF Checkout, TypeOK
        <4>2. Made(w)' = starts
          BY <4>1 DEF Made
        <4>3. begun' = begun
          BY <3>1 DEF Checkout
        <4> QED  BY <1>1, <2>1, <2>3, <4>2, <4>3
      <3>2. CASE SetScope(w)
        <4>1. Made(w)' = Made(w) /\ begun' = begun /\ pc[w] = "begun"
          BY <3>2 DEF SetScope, engine, Made
        <4> QED  BY <2>1, <2>3, <4>1 DEF HeldIsFresh
      <3>3. CASE ~Checkout(w) /\ ~SetScope(w)
        <4>1. pc'[w] \in {"out", "waiting"}
          BY <1>4, <3>3 DEF Begin, TimeOut, Step, Unreachable, Commit, Raise, Lose,
                            Leave, TypeOK
        <4>2. begun'[w] \in {begun[w], starts, 0}
          BY <1>4, <3>3 DEF Begin, TimeOut, Step, Unreachable, Commit, Raise, Lose,
                            Leave, TypeOK
        <4> QED  BY <1>1, <2>1, <2>3, <4>1, <4>2
      <3> QED  BY <3>1, <3>2, <3>3
    <2> QED  BY <2>2, <2>3
  <1> QED  BY <1>3, <1>4 DEF Next

(***************************************************************************)
(* No session that began in the present start of the server loses its      *)
(* connection, or finds none, while that start lasts.                      *)
(***************************************************************************)
THEOREM OutagesEnd == Spec => OutageEndsWithServer
  <1>1. Init => HeldIsFresh
    BY DEF Init, HeldIsFresh
  <1>2. ASSUME TypeOK, HeldIsFresh, [Next]_vars, NEW v \in Workers,
               pc[v] # "out", Harmed(v), up, begun[v] = starts
        PROVE  FALSE
    <2>1. PICK w \in Workers : Begin(w) \/ Checkout(w) \/ TimeOut(w) \/ Step(w)
      BY <1>2 DEF Next, vars, Harmed, Install, Close, Collect, StopServer, StartServer,
                  session
    <2>2. v = w
      BY <1>2, <2>1 DEF Harmed, Begin, Checkout, TimeOut, Step, Unreachable, SetScope,
                        Commit, Raise, Lose, Leave, TypeOK
    <2>3. Lose(v)
      BY <1>2, <2>1, <2>2 DEF Harmed, Begin, Checkout, TimeOut, Step, Unreachable, SetScope,
                              Commit, Raise, Leave, TypeOK
    <2>4. pc[v] \in {"begun", "open"} /\ ~Alive(Made(v))
      BY <2>3 DEF Lose
    <2>5. Made(v) \in Nat /\ starts \in Nat
      BY <2>4, <1>2, HeldType DEF TypeOK
    <2>6. Made(v) = starts
      BY <1>2, <2>4, <2>5 DEF HeldIsFresh
    <2> QED  BY <1>2, <2>4, <2>6 DEF Alive
  <1>3. TypeOK /\ HeldIsFresh /\ [Next]_vars =>
            [\A w \in Workers : pc[w] # "out" /\ Harmed(w) => ~(up /\ begun[w] = starts)]_vars
    BY <1>2
  <1> QED
    BY <1>1, <1>3, StepFresh, TypeCorrect, PTL DEF Spec, OutageEndsWithServer
-----------------------------------------------------------------------------
(***************************************************************************)
(* Who holds a connection, and how many there are.                         *)
(***************************************************************************)
LEMMA Counting ==
    ASSUME TypeOK
    PROVE  /\ IsFiniteSet(TakenOut) /\ Cardinality(TakenOut) \in Nat
           /\ Len(idle) \in Nat /\ PoolSize \in Nat /\ Limit \in Nat /\ PoolSize <= Limit
           /\ Limit > 0
  <1>1. TakenOut \in SUBSET Workers
    BY DEF TakenOut, Holders
  <1>2. IsFiniteSet(TakenOut)
    BY <1>1, RuntimeAssumption, FS_Subset
  <1>3. idle \in Seq(1..MaxStarts)
    BY DEF TypeOK
  <1> QED  BY <1>2, <1>3, FS_CardinalityType, RuntimeAssumption DEF Limit

LEMMA InitPool == Init => HoldersAreInSession /\ PoolIsBounded
  <1> SUFFICES ASSUME Init PROVE HoldersAreInSession /\ PoolIsBounded
    OBVIOUS
  <1>1. TakenOut = {} /\ Len(idle) = 0
    BY EmptySeq DEF Init, TakenOut, Holders
  <1>2. PoolIsBounded
    BY <1>1, FS_EmptySet, RuntimeAssumption DEF PoolIsBounded, Limit
  <1> QED  BY <1>2 DEF Init, HoldersAreInSession

(* Nothing is taken out or brought home. *)
LEMMA UnchangedPool ==
    ASSUME HoldersAreInSession, PoolIsBounded, UNCHANGED <<held, pool, idle>>,
           \A w \in Workers : pc'[w] \in {"begun", "open"} <=> pc[w] \in {"begun", "open"}
    PROVE  HoldersAreInSession' /\ PoolIsBounded'
  BY DEF HoldersAreInSession, PoolIsBounded, TakenOut, Holders, Limit

(* One more is taken out, from the queue or from the room there is. *)
LEMMA CheckoutPool ==
    ASSUME TypeOK, HoldersAreInSession, PoolIsBounded, NEW w \in Workers, Checkout(w)
    PROVE  HoldersAreInSession' /\ PoolIsBounded'
  <1> DEFINE own == [pool |-> pool, start |-> starts]
  <1>1. /\ held' = [held EXCEPT ![w] = own] /\ own # None
        /\ pool' = pool /\ pool \in Nat
        /\ pc' = [pc EXCEPT ![w] = "begun"] /\ pc[w] = "waiting" /\ held[w] = None
    <2>1. own \in Held
      BY DEF TypeOK, Held
    <2>2. IF idle # <<>> THEN Pinged(Head(idle)) = starts ELSE TRUE
      BY DEF Checkout, Pinged, Alive
    <2>3. held' = [held EXCEPT ![w] = own]
      BY <2>2 DEF Checkout
    <2>4. own # None
      BY <2>1, RuntimeAssumption DEF Held
    <2>5. pool \in Nat
      BY RuntimeAssumption DEF TypeOK
    <2>6. pc[w] = "waiting" /\ held[w] = None
      BY DEF Checkout, Available, HoldersAreInSession
    <2> QED  BY <2>3, <2>4, <2>5, <2>6 DEF Checkout
  <1> HIDE DEF own
  <1>2. own.pool = pool
    BY DEF own
  <1>3. HoldersAreInSession'
    BY <1>1, <1>2 DEF HoldersAreInSession, TypeOK
  <1>4. TakenOut' = TakenOut \cup {w} /\ w \notin TakenOut
    BY <1>1, <1>2 DEF TakenOut, Holders, TypeOK
  <1>5. Cardinality(TakenOut') = Cardinality(TakenOut) + 1
    BY <1>4, Counting, FS_AddElement
  <1>6. Len(idle) \in Nat /\ Cardinality(TakenOut) \in Nat /\ Limit \in Nat
    BY Counting
  <1>7. PoolIsBounded'
    <2>1. CASE idle # <<>>
      <3>1. idle' = Tail(idle) /\ Len(Tail(idle)) = Len(idle) - 1
        BY <2>1, HeadTailProperties DEF Checkout, TypeOK
      <3>2. Len(idle') = Len(idle) - 1
        BY <3>1
      <3>3. Len(idle) + Cardinality(TakenOut) <= Limit
        BY DEF PoolIsBounded
      <3>4. Len(idle') + Cardinality(TakenOut') <= Limit
        BY <1>5, <1>6, <3>2, <3>3
      <3> QED  BY <3>4 DEF PoolIsBounded, Limit
    <2>2. CASE idle = <<>>
      <3>1. Len(idle') = Len(idle) /\ Len(idle) + Cardinality(TakenOut) < Limit
        BY <2>2 DEF Checkout, Available, HasRoom
      <3>2. Len(idle') + Cardinality(TakenOut') <= Limit
        BY <1>5, <1>6, <3>1
      <3> QED  BY <3>2 DEF PoolIsBounded, Limit
    <2> QED  BY <2>1, <2>2
  <1> QED  BY <1>3, <1>7

(* A connection comes home, or is dropped. *)
LEMMA LeavePool ==
    ASSUME TypeOK, HoldersAreInSession, PoolIsBounded, NEW w \in Workers,
           pc[w] \in {"begun", "open"}, NEW answer,
           Leave(w, answer), Return(w) \/ Drop(w)
    PROVE  HoldersAreInSession' /\ PoolIsBounded'
  <1>1. /\ held' = [held EXCEPT ![w] = None] /\ held[w] # None
        /\ pc' = [pc EXCEPT ![w] = "out"] /\ pool' = pool
    BY DEF Leave, HoldersAreInSession
  <1>2. HoldersAreInSession'
    BY <1>1 DEF HoldersAreInSession, TypeOK
  <1>3. TakenOut' = TakenOut \ {w}
    BY <1>1 DEF TakenOut, Holders, TypeOK
  <1>4. CASE idle' = idle
    <2>1. Cardinality(TakenOut') <= Cardinality(TakenOut) /\ Cardinality(TakenOut') \in Nat
      BY <1>3, Counting, FS_Subset, FS_CardinalityType
    <2> QED  BY <1>2, <1>4, <2>1, Counting DEF PoolIsBounded, Limit
  <1>5. CASE idle' # idle
    <2>1. held[w].pool = pool /\ idle' = Append(idle, Made(w))
      BY <1>5 DEF Return, Drop
    <2>2. w \in TakenOut
      BY <1>1, <2>1 DEF TakenOut, Holders
    <2>3. Cardinality(TakenOut') = Cardinality(TakenOut) - 1
      BY <1>3, <2>2, Counting, FS_RemoveElement
    <2>4. Len(idle') = Len(idle) + 1
      BY <2>1, HeldType, AppendProperties DEF TypeOK
    <2> QED  BY <1>2, <2>3, <2>4, Counting DEF PoolIsBounded, Limit
  <1> QED  BY <1>4, <1>5

(* The new pool has nothing, and nobody holds anything of it. *)
LEMMA ClosePool ==
    ASSUME TypeOK, HoldersAreInSession, Close
    PROVE  HoldersAreInSession' /\ PoolIsBounded'
  <1>1. /\ pool' = pool + 1 /\ idle' = <<>> /\ UNCHANGED <<held, pc>> /\ pool \in Nat
        /\ \A w \in Holders : held[w].pool \in Nat /\ held[w].pool <= pool
    BY DEF Close, session, TypeOK, Holders, HoldersAreInSession
  <1>2. HoldersAreInSession'
    BY <1>1 DEF HoldersAreInSession, Holders
  <1>3. TakenOut' = {}
    BY <1>1 DEF TakenOut, Holders
  <1>4. Len(idle') = 0
    BY <1>1, EmptySeq
  <1> QED  BY <1>2, <1>3, <1>4, FS_EmptySet, Counting DEF PoolIsBounded, Limit

LEMMA StepPool ==
    ASSUME TypeOK, HoldersAreInSession, PoolIsBounded, [Next]_vars
    PROVE  HoldersAreInSession' /\ PoolIsBounded'
  <1>1. CASE UNCHANGED vars \/ Install \/ Collect \/ StopServer \/ StartServer
    <2>1. UNCHANGED <<held, pool, idle, pc>>
      BY <1>1 DEF vars, Install, Collect, StopServer, StartServer, engine, session
    <2> QED  BY <2>1, UnchangedPool
  <1>2. ASSUME NEW w \in Workers, Begin(w) \/ TimeOut(w) \/ SetScope(w)
        PROVE  HoldersAreInSession' /\ PoolIsBounded'
    BY <1>2, UnchangedPool DEF Begin, TimeOut, SetScope, engine, TypeOK
  <1>3. ASSUME NEW w \in Workers, Unreachable(w)
        PROVE  HoldersAreInSession' /\ PoolIsBounded'
    <2>1. /\ UNCHANGED <<held, pool>>
          /\ \A v \in Workers : pc'[v] \in {"begun", "open"} <=> pc[v] \in {"begun", "open"}
      BY <1>3 DEF Unreachable, Available, TypeOK
    <2>2. Len(idle') \in Nat /\ Len(idle') <= Len(idle)
      BY <1>3, Counting, HeadTailProperties DEF Unreachable, TypeOK
    <2>3. HoldersAreInSession' /\ TakenOut' = TakenOut
      BY <2>1 DEF HoldersAreInSession, TakenOut, Holders
    <2> QED  BY <2>2, <2>3, Counting DEF PoolIsBounded, Limit
  <1>4. ASSUME NEW w \in Workers, Commit(w) \/ Raise(w) \/ Lose(w)
        PROVE  HoldersAreInSession' /\ PoolIsBounded'
    BY <1>4, LeavePool DEF Commit, Raise, Lose
  <1> QED
    BY <1>1, <1>2, <1>3, <1>4, CheckoutPool, ClosePool DEF Next, Step

(* When nothing is available the whole limit is in use, so somebody uses it. *)
LEMMA WaitersHaveSomeone ==
    ASSUME TypeOK, HoldersAreInSession, PoolIsBounded
    PROVE  NobodyWaitsInVain
  <1> SUFFICES ASSUME NEW w \in Workers, pc[w] = "waiting", ~Available(w)
               PROVE  \E v \in Workers : pc[v] \in {"begun", "open"} /\ held[v].pool = pool
    BY DEF NobodyWaitsInVain
  <1>1. Len(idle) = 0 /\ ~(Len(idle) + Cardinality(TakenOut) < Limit)
    BY EmptySeq DEF Available, HasRoom
  <1>2. TakenOut # {}
    BY <1>1, Counting, FS_EmptySet
  <1> QED  BY <1>2 DEF TakenOut, Holders, HoldersAreInSession

(* The whole invariant of the runtime. *)
THEOREM Invariance == Spec => []IInv
  <1>1. Init => HeldIsFresh
    BY DEF Init, HeldIsFresh
  <1> DEFINE Inductive == TypeOK /\ HeldIsFresh /\ HoldersAreInSession /\ PoolIsBounded
  <1>2. Init => Inductive
    BY <1>1, InitType, InitPool
  <1>3. Inductive /\ [Next]_vars => Inductive'
    BY StepType, StepFresh, StepPool
  <1>4. Inductive => IInv
    BY WaitersHaveSomeone DEF IInv
  <1> QED  BY <1>2, <1>3, <1>4, PTL DEF Spec

(* Whatever the size of the pool, and however often the server stops and   *)
(* the runtime is closed: the engine's pool keeps its limit.               *)
THEOREM PoolKeepsItsLimit == Spec => []PoolIsBounded
  BY Invariance, PTL DEF IInv

(* A session that finds no connection to have waits for a session that is  *)
(* still to end and will give one back.                                    *)
THEOREM WaitersAreServed == Spec => []NobodyWaitsInVain
  BY Invariance, PTL DEF IInv
=============================================================================
