-------------------------- MODULE ReceiptStoreProofs --------------------------
(***************************************************************************)
(* Proofs about ReceiptStore for any number of tenants, callers and pooled *)
(* connections, any tasks and any number of failures.                      *)
(***************************************************************************)
EXTENDS ReceiptStore, TLAPS

LEMMA TaskType ==
    ASSUME TypeOK, NEW c \in Callers, task[c] \in Tasks
    PROVE  /\ task[c].tenant \in Tenants /\ task[c].ledger \in Tenants
           /\ task[c].receipts \in Seq(Receipts) /\ Len(task[c].receipts) \in Nat
           /\ \A n \in 1..Len(task[c].receipts) : task[c].receipts[n] \in Receipts
  BY StoreAssumption

LEMMA SessionType ==
    ASSUME TypeOK, NEW c \in Callers, pc[c] \notin {"idle", "waiting"}
    PROVE  conn[c] \in Connections /\ conn[c] # None /\ task[c] \in Tasks
  BY StoreAssumption DEF TypeOK

LEMMA EntryType ==
    ASSUME TypeOK, NEW c \in Callers, pc[c] \notin {"idle", "waiting"}, HasMore(c)
    PROVE  Entry(c) \in Receipts
  BY SessionType, TaskType DEF TypeOK, HasMore, Entry

LEMMA VisibleType ==
    ASSUME NEW c, NEW table, NEW own
    PROVE  Visible(c, table, own) \subseteq table[task[c].ledger] \cup own[c]
  BY DEF Visible

(* What every end of a session does to the types. *)
LEMMA LeaveType ==
    ASSUME TypeOK, NEW c \in Callers, pc[c] # "idle",
           NEW answer \in {"done", "conflict", "refused", "error"}, Leave(c, answer),
           rows' \in [Tenants -> SUBSET Receipts], records' \in [Tenants -> SUBSET Receipts],
           faults' \in 0..MaxFaults
    PROVE  TypeOK'
  <1>1. /\ scope' \in [Connections -> Tenants \cup {None}]
        /\ conn' \in [Callers -> Connections \cup {None}]
        /\ pc' \in [Callers -> {"idle", "waiting", "begun", "open", "write", "record", "read"}]
        /\ heard' \in [Callers -> {"nothing", "done", "conflict", "refused", "error"}]
        /\ appended' \in [Callers -> Nat] /\ evidence' \in [Callers -> SUBSET Receipts]
        /\ newRows' \in [Callers -> SUBSET Receipts]
        /\ newRecords' \in [Callers -> SUBSET Receipts] /\ task' = task
    BY DEF TypeOK, Leave, Release
  <1>2. \A d \in Callers :
          /\ pc'[d] # "idle" \/ heard'[d] # "nothing" => task'[d] \in Tasks
          /\ pc'[d] \in {"idle", "waiting"} <=> conn'[d] = None
          /\ pc'[d] \in {"write", "record"} => appended'[d] < Len(task'[d].receipts)
    BY DEF TypeOK, Leave, Release
  <1> QED  BY <1>1, <1>2 DEF TypeOK

LEMMA PublishType ==
    ASSUME TypeOK, NEW c \in Callers, Publish(c)
    PROVE  rows' \in [Tenants -> SUBSET Receipts] /\ records' \in [Tenants -> SUBSET Receipts]
  <1>1. pc[c] \notin {"idle", "waiting"}
    BY DEF Publish, InSession
  <1>2. task[c].ledger \in Tenants
    BY <1>1, SessionType, TaskType
  <1> QED  BY <1>2 DEF TypeOK, Publish

LEMMA StepType == TypeOK /\ [Next]_vars => TypeOK'
  <1> SUFFICES ASSUME TypeOK, [Next]_vars PROVE TypeOK'
    OBVIOUS
  <1>0. faults \in 0..MaxFaults /\ (faults < MaxFaults => faults + 1 \in 0..MaxFaults)
    BY StoreAssumption DEF TypeOK
  <1>1. CASE UNCHANGED vars
    BY <1>1 DEF TypeOK, vars
  <1> SUFFICES ASSUME NEW c \in Callers,
                      \/ \E t \in Tasks : Begin(c, t)
                      \/ Checkout(c) \/ Step(c) \/ ReadEvidence(c)
                      \/ CommitUnheard(c) \/ Fail(c) \/ GiveUp(c)
               PROVE  TypeOK'
    BY <1>1 DEF Next
  <1>2. ASSUME NEW t \in Tasks, Begin(c, t) PROVE TypeOK'
    BY <1>2 DEF TypeOK, Begin, committed, pool, pending
  <1>3. CASE Checkout(c)
    BY <1>3, StoreAssumption DEF TypeOK, Checkout, committed, pending
  <1>4. CASE SetScope(c)
    <2>1. task[c].tenant \in Tenants
      BY <1>4, SessionType, TaskType DEF SetScope
    <2> QED  BY <1>4, <2>1 DEF TypeOK, SetScope, committed, pending
  <1>5. CASE Replay(c)
    BY <1>5 DEF TypeOK, Replay, InSession, committed, pool, pending
  <1>6. CASE Execute(c)
    BY <1>6 DEF TypeOK, Execute, InSession, HasMore, committed, pool, pending
  <1>7. CASE WriteRow(c)
    <2>1. Entry(c) \in Receipts
      BY <1>7, EntryType DEF WriteRow, TypeOK, HasMore
    <2> QED  BY <1>7, <2>1 DEF TypeOK, WriteRow, committed, pool
  <1>8. CASE WriteRecord(c)
    <2>1. Entry(c) \in Receipts
      BY <1>8, EntryType DEF WriteRecord, TypeOK, HasMore
    <2> QED  BY <1>8, <2>1 DEF TypeOK, WriteRecord, committed, pool
  <1>9. CASE ReadEvidence(c)
    <2>1. Visible(c, rows, newRows) \subseteq Receipts
      <3>1. task[c].ledger \in Tenants
        BY <1>9, SessionType, TaskType DEF ReadEvidence
      <3> QED  BY <3>1, VisibleType DEF TypeOK
    <2> QED  BY <1>9, <2>1 DEF TypeOK, ReadEvidence, committed, pool, pending
  <1>10. ASSUME NEW answer \in {"done", "conflict", "refused", "error"}, Abort(c, answer),
                pc[c] # "idle", faults' \in 0..MaxFaults
         PROVE  TypeOK'
    BY <1>10, LeaveType DEF Abort, TypeOK, committed
  <1>11. CASE Conflict(c)
    BY <1>0, <1>10, <1>11 DEF Conflict, InSession
  <1>12. CASE WriteRefused(c)
    BY <1>0, <1>10, <1>12 DEF WriteRefused
  <1>13. CASE WriteRaced(c)
    <2>1. CASE Abort(c, "error")
      BY <1>0, <1>10, <1>13, <2>1 DEF WriteRaced
    <2>2. CASE ~Abort(c, "error")
      BY <1>13, <2>2 DEF TypeOK, WriteRaced, committed, pool, pending
    <2> QED  BY <2>1, <2>2
  <1>14. CASE Fail(c)
    BY <1>0, <1>10, <1>14 DEF Fail
  <1>15. CASE GiveUp(c)
    BY <1>0, <1>10, <1>15 DEF GiveUp
  <1>16. CASE Commit(c)
    BY <1>0, <1>16, PublishType, LeaveType DEF Commit, Publish, InSession
  <1>17. CASE CommitUnheard(c)
    BY <1>0, <1>17, PublishType, LeaveType DEF CommitUnheard, Publish, InSession
  <1> QED
    BY <1>2, <1>3, <1>4, <1>5, <1>6, <1>7, <1>8, <1>9, <1>11, <1>12, <1>13, <1>14,
       <1>15, <1>16, <1>17 DEF Step, Write

LEMMA InitType == Init => TypeOK
  BY StoreAssumption DEF Init, TypeOK

(* Every variable of the store keeps its type. *)
THEOREM TypeCorrect == Spec => []TypeOK
  BY InitType, StepType, PTL DEF Spec

-----------------------------------------------------------------------------
(***************************************************************************)
(* The inductive invariant.  First the end of a session, with or without   *)
(* its writes; then one step per action.                                   *)
(***************************************************************************)
Rest == RowsMatchRecords /\ OneHolder /\ Scoped /\ PoolIsClean
        /\ PendingIsNew /\ FactsHeldOnce /\ AppendedIsHeld

(* A session that leaves gives up its connection, its scope and its facts. *)
LEMMA LeavePool ==
    ASSUME TypeOK, OneHolder, Scoped, PoolIsClean, NEW c \in Callers, NEW answer, Leave(c, answer)
    PROVE  OneHolder' /\ Scoped' /\ PoolIsClean'
  <1>1. /\ conn'[c] = None /\ pc'[c] = "idle" /\ task' = task
        /\ \A d \in Callers \ {c} : conn'[d] = conn[d] /\ pc'[d] = pc[d]
    BY DEF Leave, Release, TypeOK
  <1>2. OneHolder'
    BY <1>1 DEF OneHolder
  <1>3. Scoped'
    <2> SUFFICES ASSUME NEW d \in Callers, InScopedSession(d)'
                 PROVE  scope'[conn'[d]] = task'[d].tenant
      BY DEF Scoped
    <2>1. d # c /\ InScopedSession(d)
      BY <1>1 DEF InScopedSession
    <2>2. conn[d] \in Connections /\ conn[d] # None
      BY <2>1, SessionType DEF InScopedSession
    <2>3. conn[d] # conn[c]
      BY <2>1, <2>2 DEF OneHolder
    <2>4. scope'[conn[d]] = scope[conn[d]]
      BY <2>2, <2>3 DEF Leave, Release
    <2> QED  BY <1>1, <2>1, <2>4 DEF Scoped
  <1>4. PoolIsClean'
    <2> SUFFICES ASSUME NEW k \in Connections, scope'[k] # None
                 PROVE  \E d \in Callers : /\ conn'[d] = k /\ task'[d].tenant = scope'[k]
                                           /\ InScopedSession(d)'
      BY DEF PoolIsClean
    <2>1. k # conn[c] /\ scope'[k] = scope[k]
      BY DEF Leave, Release
    <2>2. PICK d \in Callers : conn[d] = k /\ task[d].tenant = scope[k] /\ InScopedSession(d)
      BY <2>1 DEF PoolIsClean
    <2>3. d # c
      BY <2>1, <2>2
    <2> QED  BY <1>1, <2>1, <2>2, <2>3 DEF InScopedSession
  <1> QED  BY <1>2, <1>3, <1>4

(* What the end of c's session leaves of the others' invariants. *)
LEMMA LeavePending ==
    ASSUME TypeOK, PendingIsNew, FactsHeldOnce, AppendedIsHeld,
           NEW c \in Callers, NEW answer, Leave(c, answer),
           \A d \in Callers \ {c} : \A r \in newRows[d] : ~Spent(rows'[task[d].ledger], r),
           \A t \in Tenants : rows[t] \subseteq rows'[t]
    PROVE  PendingIsNew' /\ FactsHeldOnce' /\ AppendedIsHeld'
  <1>1. /\ pc'[c] = "idle" /\ newRows'[c] = {} /\ newRecords'[c] = {} /\ appended'[c] = 0
        /\ task' = task
        /\ \A d \in Callers \ {c} :
              /\ pc'[d] = pc[d] /\ newRows'[d] = newRows[d] /\ newRecords'[d] = newRecords[d]
              /\ appended'[d] = appended[d]
    BY DEF Leave, Release, TypeOK
  <1>2. PendingIsNew'
    <2> SUFFICES ASSUME NEW d \in Callers
                 PROVE  /\ newRows'[d] # {} => InScopedSession(d)' /\ task'[d].ledger = task'[d].tenant
                        /\ newRows'[d] = newRecords'[d] \cup InFlight(d)'
                        /\ UniqueIdentity(newRows'[d])
                        /\ \A r \in newRows'[d] : ~Spent(rows'[task'[d].ledger], r)
                        /\ pc'[d] = "write" => ~Spent(newRows'[d], Entry(d)')
      BY DEF PendingIsNew, UniqueIdentity, Spent
    <2>1. CASE d = c
      BY <1>1, <2>1 DEF InFlight, UniqueIdentity
    <2>2. CASE d # c
      BY <1>1, <2>2 DEF PendingIsNew, InFlight, Entry, InScopedSession
    <2> QED  BY <2>1, <2>2
  <1>3. FactsHeldOnce'
    BY <1>1 DEF FactsHeldOnce
  <1>4. AppendedIsHeld'
    <2> SUFFICES ASSUME NEW d \in Callers
                 PROVE  IF InScopedSession(d)'
                        THEN /\ appended'[d] <= Len(task'[d].receipts)
                             /\ appended'[d] > 0 => task'[d].ledger = task'[d].tenant
                             /\ Appended(d)' \subseteq rows'[task'[d].tenant] \cup newRecords'[d]
                        ELSE appended'[d] = 0
      BY DEF AppendedIsHeld
    <2>1. CASE d = c
      BY <1>1, <2>1 DEF InScopedSession
    <2>2. CASE d # c /\ InScopedSession(d)
      <3>1. task[d].tenant \in Tenants
        BY <2>2, SessionType, TaskType DEF InScopedSession
      <3> QED  BY <1>1, <2>2, <3>1 DEF AppendedIsHeld, Appended, InScopedSession
    <2>3. CASE d # c /\ ~InScopedSession(d)
      BY <1>1, <2>3 DEF AppendedIsHeld, InScopedSession
    <2> QED  BY <2>1, <2>2, <2>3
  <1> QED  BY <1>2, <1>3, <1>4

LEMMA AbortKeeps ==
    ASSUME TypeOK, Rest, NEW c \in Callers, NEW answer, Abort(c, answer)
    PROVE  Rest'
  <1>1. rows' = rows /\ records' = records /\ Leave(c, answer)
    BY DEF Abort, committed
  <1>2. /\ \A d \in Callers \ {c} : \A r \in newRows[d] : ~Spent(rows'[task[d].ledger], r)
        /\ \A t \in Tenants : rows[t] \subseteq rows'[t]
    BY <1>1 DEF Rest, PendingIsNew
  <1> QED  BY <1>1, <1>2, LeavePool, LeavePending DEF Rest, RowsMatchRecords

(***************************************************************************)
(* A commit: the session's rows and records are the same, nobody else      *)
(* holds any of its facts.                                                 *)
(***************************************************************************)
LEMMA PublishKeeps ==
    ASSUME TypeOK, Rest, NEW c \in Callers, NEW answer, Publish(c), Leave(c, answer)
    PROVE  Rest'
  <1>1. /\ newRows[c] = newRecords[c]
        /\ task[c].ledger \in Tenants
    <2>1. pc[c] \notin {"idle", "waiting", "record"}
      BY DEF Publish, InSession
    <2> QED  BY <2>1, SessionType, TaskType DEF Rest, PendingIsNew, InFlight
  <1>2. /\ rows' = [rows EXCEPT ![task[c].ledger] = @ \cup newRows[c]]
        /\ records' = [records EXCEPT ![task[c].ledger] = @ \cup newRecords[c]]
    BY DEF Publish
  <1>3. RowsMatchRecords'
    BY <1>1, <1>2 DEF Rest, RowsMatchRecords
  <1>4. \A d \in Callers \ {c} : \A r \in newRows[d] : ~Spent(rows'[task[d].ledger], r)
    <2> SUFFICES ASSUME NEW d \in Callers \ {c}, NEW r \in newRows[d]
                 PROVE  ~Spent(rows'[task[d].ledger], r)
      OBVIOUS
    <2>1. task[d].ledger \in Tenants /\ ~Spent(rows[task[d].ledger], r)
      BY SessionType, TaskType DEF Rest, PendingIsNew, InScopedSession
    <2>2. CASE task[d].ledger = task[c].ledger
      <3>1. rows'[task[d].ledger] = rows[task[d].ledger] \cup newRows[c]
        BY <1>1, <1>2, <2>2 DEF TypeOK
      <3>2. \A s \in newRows[c] : ~SameIdentity(s, r)
        BY <2>2 DEF Rest, FactsHeldOnce
      <3> QED  BY <2>1, <3>1, <3>2 DEF Spent
    <2>3. CASE task[d].ledger # task[c].ledger
      BY <1>1, <1>2, <2>1, <2>3 DEF TypeOK
    <2> QED  BY <2>2, <2>3
  <1>5. \A t \in Tenants : rows[t] \subseteq rows'[t]
    BY <1>1, <1>2 DEF TypeOK
  <1> QED  BY <1>3, <1>4, <1>5, LeavePool, LeavePending DEF Rest

(* The step, one case per action. *)
LEMMA RestStep == TypeOK /\ TypeOK' /\ Rest /\ [Next]_vars => Rest'
  <1> SUFFICES ASSUME TypeOK, TypeOK', Rest, [Next]_vars PROVE Rest'
    OBVIOUS
  <1>1. CASE UNCHANGED vars
    BY <1>1 DEF vars, Rest, RowsMatchRecords, OneHolder, Scoped, PoolIsClean, PendingIsNew,
                FactsHeldOnce, AppendedIsHeld, InScopedSession, InFlight, Entry, Appended
  <1> SUFFICES ASSUME NEW c \in Callers,
                      \/ \E t \in Tasks : Begin(c, t)
                      \/ Checkout(c) \/ Step(c) \/ ReadEvidence(c)
                      \/ CommitUnheard(c) \/ Fail(c) \/ GiveUp(c)
               PROVE  Rest'
    BY <1>1 DEF Next
  <1>2. ASSUME NEW t \in Tasks, Begin(c, t) PROVE Rest'
    <2>1. /\ pc[c] = "idle" /\ pc'[c] = "waiting" /\ rows' = rows /\ records' = records
          /\ scope' = scope /\ conn' = conn /\ appended' = appended
          /\ newRows' = newRows /\ newRecords' = newRecords
          /\ \A d \in Callers \ {c} : pc'[d] = pc[d] /\ task'[d] = task[d]
      BY <1>2 DEF Begin, TypeOK, committed, pool, pending
    <2>2. newRows[c] = {} /\ newRecords[c] = {} /\ appended[c] = 0 /\ ~InScopedSession(c)
      BY <2>1 DEF Rest, PendingIsNew, AppendedIsHeld, InScopedSession
    <2>3. RowsMatchRecords' /\ OneHolder' /\ Scoped'
      BY <2>1, <2>2 DEF Rest, RowsMatchRecords, OneHolder, Scoped, InScopedSession
    <2>4. PoolIsClean'
      BY <2>1, <2>2 DEF Rest, PoolIsClean, InScopedSession
    <2>5. PendingIsNew'
      BY <2>1, <2>2 DEF Rest, PendingIsNew, InFlight, Entry, InScopedSession
    <2>6. FactsHeldOnce'
      BY <2>1, <2>2 DEF Rest, FactsHeldOnce
    <2>7. AppendedIsHeld'
      BY <2>1, <2>2 DEF Rest, AppendedIsHeld, Appended, InScopedSession
    <2> QED  BY <2>3, <2>4, <2>5, <2>6, <2>7 DEF Rest
  <1>3. CASE Checkout(c)
    <2>1. /\ pc[c] = "waiting" /\ pc'[c] = "begun" /\ rows' = rows /\ records' = records
          /\ scope' = scope /\ task' = task /\ appended' = appended
          /\ newRows' = newRows /\ newRecords' = newRecords
          /\ \A d \in Callers \ {c} : pc'[d] = pc[d] /\ conn'[d] = conn[d] /\ conn'[c] # conn[d]
      BY <1>3 DEF Checkout, Idle, TypeOK, committed, pending
    <2>2. OneHolder'
      BY <2>1 DEF Rest, OneHolder
    <2>3. RowsMatchRecords' /\ Scoped' /\ PoolIsClean'
      BY <2>1 DEF Rest, RowsMatchRecords, Scoped, PoolIsClean, InScopedSession
    <2>4. PendingIsNew' /\ FactsHeldOnce'
      BY <2>1 DEF Rest, PendingIsNew, FactsHeldOnce, InFlight, Entry, InScopedSession
    <2>5. AppendedIsHeld'
      BY <2>1 DEF Rest, AppendedIsHeld, Appended, InScopedSession
    <2> QED  BY <2>2, <2>3, <2>4, <2>5 DEF Rest
  <1>4. CASE SetScope(c)
    <2>1. /\ pc[c] = "begun" /\ pc'[c] = "open" /\ rows' = rows /\ records' = records
          /\ conn' = conn /\ task' = task /\ appended' = appended
          /\ newRows' = newRows /\ newRecords' = newRecords
          /\ scope'[conn[c]] = task[c].tenant /\ conn[c] \in Connections /\ conn[c] # None
          /\ \A k \in Connections \ {conn[c]} : scope'[k] = scope[k]
          /\ \A d \in Callers \ {c} : pc'[d] = pc[d]
      BY <1>4, SessionType DEF SetScope, TypeOK, committed, pending
    <2>2. RowsMatchRecords' /\ OneHolder'
      BY <2>1 DEF Rest, RowsMatchRecords, OneHolder
    <2>3. Scoped'
      <3> SUFFICES ASSUME NEW d \in Callers, InScopedSession(d)'
                   PROVE  scope'[conn'[d]] = task'[d].tenant
        BY DEF Scoped
      <3>1. CASE d = c
        BY <2>1, <3>1
      <3>2. CASE d # c
        <4>1. InScopedSession(d) /\ conn[d] \in Connections
          BY <2>1, <3>2, SessionType DEF InScopedSession
        <4>2. conn[d] # conn[c]
          BY <2>1, <3>2 DEF Rest, OneHolder
        <4> QED  BY <2>1, <4>1, <4>2 DEF Rest, Scoped
      <3> QED  BY <3>1, <3>2
    <2>4. PoolIsClean'
      <3> SUFFICES ASSUME NEW k \in Connections, scope'[k] # None
                   PROVE  \E d \in Callers : /\ conn'[d] = k /\ task'[d].tenant = scope'[k]
                                             /\ InScopedSession(d)'
        BY DEF PoolIsClean
      <3>1. CASE k = conn[c]
        BY <2>1, <3>1 DEF InScopedSession
      <3>2. CASE k # conn[c]
        <4>1. PICK d \in Callers : conn[d] = k /\ task[d].tenant = scope[k] /\ InScopedSession(d)
          BY <2>1, <3>2 DEF Rest, PoolIsClean
        <4> QED  BY <2>1, <3>2, <4>1 DEF InScopedSession
      <3> QED  BY <3>1, <3>2
    <2>5. PendingIsNew' /\ FactsHeldOnce'
      BY <2>1 DEF Rest, PendingIsNew, FactsHeldOnce, InFlight, Entry, InScopedSession
    <2>6. AppendedIsHeld'
      <3>1. appended[c] = 0
        BY <2>1 DEF Rest, AppendedIsHeld, InScopedSession
      <3>2. Len(task[c].receipts) \in Nat
        BY <2>1, SessionType, TaskType
      <3> QED  BY <2>1, <3>1, <3>2 DEF Rest, AppendedIsHeld, Appended, InScopedSession
    <2> QED  BY <2>2, <2>3, <2>4, <2>5, <2>6 DEF Rest
  <1>5. ASSUME InScopedSession(c), InScopedSession(c)', UNCHANGED <<scope, conn, task>>,
               \A d \in Callers \ {c} : pc'[d] = pc[d]
        PROVE  OneHolder' /\ Scoped' /\ PoolIsClean'
    BY <1>5 DEF Rest, OneHolder, Scoped, PoolIsClean, InScopedSession
  <1>6. CASE Replay(c)
    <2>1. /\ InSession(c) /\ HasMore(c) /\ pc'[c] = "open" /\ rows' = rows /\ records' = records
          /\ UNCHANGED <<scope, conn, task>>
          /\ appended'[c] = appended[c] + 1 /\ appended[c] \in Nat
          /\ newRows' = newRows /\ newRecords' = newRecords
          /\ \A d \in Callers \ {c} : pc'[d] = pc[d] /\ appended'[d] = appended[d]
      BY <1>6 DEF Replay, TypeOK, committed, pool, pending
    <2>2. OneHolder' /\ Scoped' /\ PoolIsClean' /\ RowsMatchRecords'
      BY <1>5, <2>1 DEF InSession, InScopedSession, Rest, RowsMatchRecords
    <2>3. PendingIsNew' /\ FactsHeldOnce'
      BY <2>1 DEF Rest, PendingIsNew, FactsHeldOnce, InFlight, Entry, InScopedSession, InSession
    <2>4. /\ task[c].ledger = task[c].tenant
          /\ Entry(c) \in rows[task[c].tenant] \cup newRecords[c]
      <3>1. Visible(c, records, newRecords) # {} => InScope(c)
        BY DEF Visible
      <3>2. Entry(c) \in Visible(c, records, newRecords)
        BY <1>6 DEF Replay, Spent, Conflicts, SameIdentity
      <3>3. task[c].ledger = task[c].tenant
        BY <2>1, <3>1, <3>2 DEF Rest, Scoped, InScope, InSession, InScopedSession
      <3> QED  BY <3>2, <3>3, VisibleType DEF Rest, RowsMatchRecords
    <2>5. AppendedIsHeld'
      <3> SUFFICES ASSUME NEW d \in Callers
                   PROVE  IF InScopedSession(d)'
                          THEN /\ appended'[d] <= Len(task'[d].receipts)
                               /\ appended'[d] > 0 => task'[d].ledger = task'[d].tenant
                               /\ Appended(d)' \subseteq rows'[task'[d].tenant] \cup newRecords'[d]
                          ELSE appended'[d] = 0
        BY DEF AppendedIsHeld
      <3>1. CASE d = c
        <4>1. appended[c] < Len(task[c].receipts) /\ Len(task[c].receipts) \in Nat
          BY <2>1, SessionType, TaskType DEF HasMore, InSession
        <4>2. Appended(c)' = Appended(c) \cup {Entry(c)}
          <5>1. 1..(appended[c] + 1) = 1..appended[c] \cup {appended[c] + 1}
            BY <2>1
          <5> QED  BY <2>1, <5>1 DEF Appended, Entry
        <4>3. Appended(c) \subseteq rows[task[c].tenant] \cup newRecords[c]
          BY <2>1 DEF Rest, AppendedIsHeld, InSession, InScopedSession
        <4> QED  BY <2>1, <2>4, <3>1, <4>1, <4>2, <4>3 DEF InScopedSession
      <3>2. CASE d # c
        BY <2>1, <3>2 DEF Rest, AppendedIsHeld, Appended, InScopedSession
      <3> QED  BY <3>1, <3>2
    <2> QED  BY <2>2, <2>3, <2>5 DEF Rest
  <1>7. CASE Execute(c)
    <2>1. /\ InSession(c) /\ HasMore(c) /\ pc'[c] = "write" /\ rows' = rows /\ records' = records
          /\ UNCHANGED <<scope, conn, task, appended>>
          /\ newRows' = newRows /\ newRecords' = newRecords
          /\ \A d \in Callers \ {c} : pc'[d] = pc[d]
      BY <1>7 DEF Execute, TypeOK, committed, pool, pending
    <2>2. OneHolder' /\ Scoped' /\ PoolIsClean' /\ RowsMatchRecords'
      BY <1>5, <2>1 DEF InSession, InScopedSession, Rest, RowsMatchRecords
    <2>3. ~Spent(newRows[c], Entry(c))
      <3>1. CASE newRows[c] = {}
        BY <3>1 DEF Spent
      <3>2. CASE newRows[c] # {}
        <4>1. InScope(c) /\ newRows[c] = newRecords[c]
          BY <2>1, <3>2 DEF Rest, PendingIsNew, InFlight, Scoped, InScope, InSession
        <4>2. newRows[c] \subseteq Visible(c, records, newRecords)
          BY <4>1 DEF Visible
        <4> QED  BY <1>7, <4>2 DEF Execute, Spent
      <3> QED  BY <3>1, <3>2
    <2>4. PendingIsNew' /\ FactsHeldOnce'
      BY <2>1, <2>3 DEF Rest, PendingIsNew, FactsHeldOnce, InFlight, Entry, InScopedSession, InSession
    <2>5. AppendedIsHeld'
      BY <2>1 DEF Rest, AppendedIsHeld, Appended, InScopedSession, InSession
    <2> QED  BY <2>2, <2>4, <2>5 DEF Rest
  <1>8. CASE ReadEvidence(c)
    <2>1. /\ pc[c] = "open" /\ pc'[c] = "read" /\ rows' = rows /\ records' = records
          /\ UNCHANGED <<scope, conn, task, appended>>
          /\ newRows' = newRows /\ newRecords' = newRecords
          /\ \A d \in Callers \ {c} : pc'[d] = pc[d]
      BY <1>8 DEF ReadEvidence, TypeOK, committed, pool, pending
    <2>2. OneHolder' /\ Scoped' /\ PoolIsClean' /\ RowsMatchRecords'
      BY <1>5, <2>1 DEF InScopedSession, Rest, RowsMatchRecords
    <2>3. PendingIsNew' /\ FactsHeldOnce'
      BY <2>1 DEF Rest, PendingIsNew, FactsHeldOnce, InFlight, Entry, InScopedSession
    <2>4. AppendedIsHeld'
      BY <2>1 DEF Rest, AppendedIsHeld, Appended, InScopedSession
    <2> QED  BY <2>2, <2>3, <2>4 DEF Rest
  <1>9. CASE WriteRow(c)
    <2> DEFINE r == Entry(c)
    <2>1. /\ pc[c] = "write" /\ pc'[c] = "record" /\ rows' = rows /\ records' = records
          /\ UNCHANGED <<scope, conn, task, appended, newRecords>>
          /\ newRows'[c] = newRows[c] \cup {r}
          /\ \A d \in Callers \ {c} : pc'[d] = pc[d] /\ newRows'[d] = newRows[d]
      BY <1>9 DEF WriteRow, TypeOK, committed, pool
    <2>2. OneHolder' /\ Scoped' /\ PoolIsClean' /\ RowsMatchRecords'
      BY <1>5, <2>1 DEF InScopedSession, Rest, RowsMatchRecords
    <2>3. /\ task[c].ledger = task[c].tenant /\ newRows[c] = newRecords[c]
          /\ ~Spent(rows[task[c].ledger], r) /\ ~Spent(newRows[c], r)
          /\ \A d \in Callers \ {c} : task[d] # None /\ task[d].ledger = task[c].ledger
                                          => ~Spent(newRows[d], r)
      BY <1>9, <2>1 DEF WriteRow, WithCheck, InScope, Blocked, Rest, Scoped, PendingIsNew, InFlight, InScopedSession
    <2>4. PendingIsNew'
      <3> SUFFICES ASSUME NEW d \in Callers
                   PROVE  /\ newRows'[d] # {} => InScopedSession(d)' /\ task'[d].ledger = task'[d].tenant
                          /\ newRows'[d] = newRecords'[d] \cup InFlight(d)'
                          /\ UniqueIdentity(newRows'[d])
                          /\ \A x \in newRows'[d] : ~Spent(rows'[task'[d].ledger], x)
                          /\ pc'[d] = "write" => ~Spent(newRows'[d], Entry(d)')
        BY DEF PendingIsNew, UniqueIdentity, Spent
      <3>1. CASE d = c
        <4>1. UniqueIdentity(newRows[c] \cup {r})
          BY <2>3 DEF Rest, PendingIsNew, UniqueIdentity, Spent, SameIdentity
        <4>2. InFlight(c)' = {r}
          BY <2>1 DEF InFlight, Entry
        <4>3. \A x \in newRows[c] : ~Spent(rows[task[c].ledger], x)
          BY DEF Rest, PendingIsNew
        <4> QED  BY <2>1, <2>3, <3>1, <4>1, <4>2, <4>3 DEF InScopedSession
      <3>2. CASE d # c
        BY <2>1, <3>2 DEF Rest, PendingIsNew, InFlight, Entry, InScopedSession
      <3> QED  BY <3>1, <3>2
    <2>5. FactsHeldOnce'
      <3> SUFFICES ASSUME NEW d \in Callers, NEW e \in Callers, d # e,
                          NEW x \in newRows'[d], NEW y \in newRows'[e],
                          task[d].ledger = task[e].ledger
                   PROVE  ~SameIdentity(x, y)
        BY <2>1 DEF FactsHeldOnce
      <3>1. \A f \in Callers : newRows[f] # {} => task[f] # None
        BY StoreAssumption, SessionType DEF Rest, PendingIsNew, InScopedSession
      <3>2. CASE d # c /\ e # c
        BY <2>1, <3>2 DEF Rest, FactsHeldOnce
      <3>3. CASE d = c
        BY <2>1, <2>3, <3>1, <3>3 DEF Rest, FactsHeldOnce, Spent, SameIdentity
      <3>4. CASE e = c
        BY <2>1, <2>3, <3>1, <3>4 DEF Rest, FactsHeldOnce, Spent, SameIdentity
      <3> QED  BY <3>2, <3>3, <3>4
    <2>6. AppendedIsHeld'
      BY <2>1 DEF Rest, AppendedIsHeld, Appended, InScopedSession
    <2> QED  BY <2>2, <2>4, <2>5, <2>6 DEF Rest
  <1>10. CASE WriteRecord(c)
    <2> DEFINE r == Entry(c)
    <2>1. /\ pc[c] = "record" /\ pc'[c] = "open" /\ rows' = rows /\ records' = records
          /\ UNCHANGED <<scope, conn, task, newRows>>
          /\ newRecords'[c] = newRecords[c] \cup {r}
          /\ appended'[c] = appended[c] + 1 /\ appended[c] \in Nat
          /\ \A d \in Callers \ {c} : /\ pc'[d] = pc[d] /\ newRecords'[d] = newRecords[d]
                                      /\ appended'[d] = appended[d]
      BY <1>10 DEF WriteRecord, TypeOK, committed, pool
    <2>2. OneHolder' /\ Scoped' /\ PoolIsClean' /\ RowsMatchRecords'
      BY <1>5, <2>1 DEF InScopedSession, Rest, RowsMatchRecords
    <2>3. newRows[c] = newRecords[c] \cup {r} /\ task[c].ledger = task[c].tenant
      BY <2>1 DEF Rest, PendingIsNew, InFlight
    <2>4. PendingIsNew' /\ FactsHeldOnce'
      <3>1. InFlight(c)' = {}
        BY <2>1 DEF InFlight
      <3>2. \A d \in Callers \ {c} : InFlight(d)' = InFlight(d) /\ Entry(d)' = Entry(d)
        BY <2>1 DEF InFlight, Entry
      <3> QED  BY <2>1, <2>3, <3>1, <3>2 DEF Rest, PendingIsNew, FactsHeldOnce, InScopedSession
    <2>5. AppendedIsHeld'
      <3> SUFFICES ASSUME NEW d \in Callers
                   PROVE  IF InScopedSession(d)'
                          THEN /\ appended'[d] <= Len(task'[d].receipts)
                               /\ appended'[d] > 0 => task'[d].ledger = task'[d].tenant
                               /\ Appended(d)' \subseteq rows'[task'[d].tenant] \cup newRecords'[d]
                          ELSE appended'[d] = 0
        BY DEF AppendedIsHeld
      <3>1. CASE d = c
        <4>1. appended[c] < Len(task[c].receipts) /\ Len(task[c].receipts) \in Nat
          BY <2>1, SessionType, TaskType DEF TypeOK
        <4>2. Appended(c)' = Appended(c) \cup {r}
          <5>1. 1..(appended[c] + 1) = 1..appended[c] \cup {appended[c] + 1}
            BY <2>1
          <5> QED  BY <2>1, <5>1 DEF Appended, Entry
        <4>3. Appended(c) \subseteq rows[task[c].tenant] \cup newRecords[c]
          BY <2>1 DEF Rest, AppendedIsHeld, InScopedSession
        <4> QED  BY <2>1, <2>3, <3>1, <4>1, <4>2, <4>3 DEF InScopedSession
      <3>2. CASE d # c
        BY <2>1, <3>2 DEF Rest, AppendedIsHeld, Appended, InScopedSession
      <3> QED  BY <3>1, <3>2
    <2> QED  BY <2>2, <2>4, <2>5 DEF Rest
  <1>11. CASE WriteRaced(c)
    <2>1. CASE Abort(c, "error")
      BY <2>1, AbortKeeps
    <2>2. CASE ~Abort(c, "error")
      <3>1. /\ pc[c] = "write" /\ pc'[c] = "open" /\ rows' = rows /\ records' = records
            /\ UNCHANGED <<scope, conn, task, appended, newRows, newRecords>>
            /\ \A d \in Callers \ {c} : pc'[d] = pc[d]
        BY <1>11, <2>2 DEF WriteRaced, TypeOK, committed, pool, pending
      <3>2. OneHolder' /\ Scoped' /\ PoolIsClean' /\ RowsMatchRecords'
        BY <1>5, <3>1 DEF InScopedSession, Rest, RowsMatchRecords
      <3>3. PendingIsNew' /\ FactsHeldOnce'
        BY <3>1 DEF Rest, PendingIsNew, FactsHeldOnce, InFlight, Entry, InScopedSession
      <3>4. AppendedIsHeld'
        BY <3>1 DEF Rest, AppendedIsHeld, Appended, InScopedSession
      <3> QED  BY <3>2, <3>3, <3>4 DEF Rest
    <2> QED  BY <2>1, <2>2
  <1>12. CASE Conflict(c) \/ WriteRefused(c) \/ Fail(c) \/ GiveUp(c)
    BY <1>12, AbortKeeps DEF Conflict, WriteRefused, Fail, GiveUp
  <1>13. CASE Commit(c) \/ CommitUnheard(c)
    BY <1>13, PublishKeeps DEF Commit, CommitUnheard
  <1> QED
    BY <1>2, <1>3, <1>4, <1>6, <1>7, <1>8, <1>9, <1>10, <1>11, <1>12, <1>13 DEF Step, Write

LEMMA InitRest == Init => Rest
  BY DEF Init, Rest, RowsMatchRecords, OneHolder, Scoped, PoolIsClean, PendingIsNew,
         FactsHeldOnce, AppendedIsHeld, InScopedSession, InFlight, UniqueIdentity, Spent

(***************************************************************************)
(* A session has spent keys on what it has appended, and on nothing else.  *)
(***************************************************************************)
LEMMA RecordsStep ==
    ASSUME TypeOK, Rest, RecordsAreAppended, [Next]_vars
    PROVE  RecordsAreAppended'
  <1> SUFFICES ASSUME NEW c \in Callers PROVE newRecords'[c] \subseteq Appended(c)'
    BY DEF RecordsAreAppended
  <1>1. appended[c] \in Nat /\ newRecords[c] \subseteq Appended(c)
    BY DEF TypeOK, RecordsAreAppended
  <1>2. CASE /\ newRecords'[c] = newRecords[c] /\ task'[c] = task[c]
             /\ appended'[c] \in {appended[c], appended[c] + 1}
    BY <1>1, <1>2 DEF Appended
  <1>3. CASE newRecords'[c] = {}
    BY <1>3
  <1>4. CASE WriteRecord(c)
    <2>1. /\ newRecords'[c] = newRecords[c] \cup {Entry(c)}
          /\ task' = task /\ appended'[c] = appended[c] + 1
      BY <1>4 DEF WriteRecord, TypeOK, pool
    <2>2. 1..(appended[c] + 1) = 1..appended[c] \cup {appended[c] + 1}
      BY <1>1
    <2> QED  BY <1>1, <2>1, <2>2 DEF Appended, Entry
  <1>5. \A t \in Tasks : Begin(c, t) => newRecords'[c] = {}
    BY DEF Begin, Rest, PendingIsNew, InScopedSession, InFlight, pending
  <1>6. CASE UNCHANGED vars
    BY <1>2, <1>6 DEF vars
  <1>7. ASSUME NEW d \in Callers, NEW answer, Leave(d, answer)
        PROVE  newRecords'[c] \subseteq Appended(c)'
    BY <1>2, <1>3, <1>7 DEF Leave, TypeOK
  <1>8. ASSUME NEW d \in Callers,
               \/ \E t \in Tasks : Begin(d, t)
               \/ Checkout(d) \/ SetScope(d) \/ Execute(d) \/ Replay(d) \/ ReadEvidence(d)
               \/ WriteRow(d) \/ WriteRecord(d)
               \/ WriteRaced(d) /\ ~Abort(d, "error")
        PROVE  newRecords'[c] \subseteq Appended(c)'
    <2>1. CASE d = c
      BY <1>2, <1>3, <1>4, <1>5, <1>8, <2>1
         DEF Checkout, SetScope, Execute, Replay, ReadEvidence, WriteRow, WriteRaced,
             pool, pending, TypeOK
    <2>2. CASE d # c
      BY <1>2, <1>8, <2>2
         DEF Begin, Checkout, SetScope, Execute, Replay, ReadEvidence, WriteRow, WriteRecord,
             WriteRaced, pool, pending, TypeOK
    <2> QED  BY <2>1, <2>2
  <1> QED
    BY <1>6, <1>7, <1>8 DEF Next, Step, Write, Conflict, WriteRefused, Commit, CommitUnheard,
                            Fail, GiveUp, Abort

(* The inductive invariant holds throughout. *)
THEOREM Invariance == Spec => []IInv
  <1>1. Init => TypeOK /\ Rest /\ RecordsAreAppended
    <2>1. Init => RecordsAreAppended
      BY DEF Init, RecordsAreAppended
    <2> QED  BY <2>1, InitType, InitRest
  <1>2. TypeOK /\ Rest /\ RecordsAreAppended /\ [Next]_vars
          => TypeOK' /\ Rest' /\ RecordsAreAppended'
    BY StepType, RestStep, RecordsStep
  <1>3. TypeOK /\ Rest /\ RecordsAreAppended => IInv
    BY DEF Rest, IInv
  <1> QED  BY <1>1, <1>2, <1>3, PTL DEF Spec
-----------------------------------------------------------------------------
(***************************************************************************)
(* The receipt table and the kernel's records agree in every state.        *)
(***************************************************************************)
THEOREM RowsAndRecords == Spec => []RowsMatchRecords
  <1>1. IInv => RowsMatchRecords
    BY DEF IInv
  <1> QED  BY <1>1, Invariance, PTL

(* No idle connection carries a tenant's scope. *)
THEOREM PoolStaysClean == Spec => []PoolIsClean
  <1>1. IInv => PoolIsClean
    BY DEF IInv
  <1> QED  BY <1>1, Invariance, PTL

(* No step takes a committed row away. *)
LEMMA RowsGrow ==
    ASSUME IInv, [Next]_vars, NEW t \in Tenants
    PROVE  rows[t] \subseteq rows'[t]
  <1>1. CASE rows' = rows
    BY <1>1
  <1>2. ASSUME NEW c \in Callers, Publish(c) PROVE rows[t] \subseteq rows'[t]
    BY <1>2 DEF Publish, IInv, TypeOK
  <1>3. rows' = rows \/ \E c \in Callers : Publish(c)
    BY DEF vars, Next, Begin, Checkout, Step, SetScope, Replay, Conflict, Execute, Write, WriteRow,
           WriteRefused, WriteRaced, WriteRecord, ReadEvidence, Commit, CommitUnheard, Fail,
           GiveUp, Abort, committed
  <1> QED  BY <1>1, <1>2, <1>3

(***************************************************************************)
(* What receipts_for returns is evidence of the session's own tenant and   *)
(* holds what the session appended, whichever tenant its ledger is for.    *)
(***************************************************************************)
THEOREM EvidenceStaysOwn == Spec => []EvidenceIsOwn
  <1>1. Init => EvidenceIsOwn
    BY DEF Init, EvidenceIsOwn
  <1>2. IInv /\ IInv' /\ EvidenceIsOwn /\ [Next]_vars => EvidenceIsOwn'
    <2> SUFFICES ASSUME IInv, IInv', EvidenceIsOwn, [Next]_vars,
                        NEW c \in Callers, pc'[c] = "read"
                 PROVE  /\ evidence'[c] \subseteq rows'[task'[c].tenant] \cup newRows'[c]
                        /\ Appended(c)' \subseteq evidence'[c]
      BY DEF EvidenceIsOwn
    <2>1. \/ ReadEvidence(c)
          \/ /\ pc[c] = "read" /\ evidence'[c] = evidence[c] /\ task'[c] = task[c]
             /\ newRows'[c] = newRows[c] /\ appended'[c] = appended[c]
      <3>1. CASE UNCHANGED vars
        BY <3>1 DEF vars
      <3>2. ASSUME NEW d \in Callers, NEW answer, Leave(d, answer)
            PROVE  /\ pc[c] = "read" /\ evidence'[c] = evidence[c] /\ task'[c] = task[c]
                   /\ newRows'[c] = newRows[c] /\ appended'[c] = appended[c]
        BY <3>2 DEF Leave, Release, IInv, TypeOK
      <3>3. ASSUME NEW d \in Callers,
                   \/ \E t \in Tasks : Begin(d, t)
                   \/ Checkout(d) \/ SetScope(d) \/ Execute(d) \/ Replay(d) \/ ReadEvidence(d)
                   \/ WriteRow(d) \/ WriteRecord(d)
                   \/ WriteRaced(d) /\ ~Abort(d, "error")
            PROVE  \/ ReadEvidence(c)
                   \/ /\ pc[c] = "read" /\ evidence'[c] = evidence[c] /\ task'[c] = task[c]
                      /\ newRows'[c] = newRows[c] /\ appended'[c] = appended[c]
        <4>1. CASE d = c
          BY <3>3, <4>1 DEF Begin, Checkout, SetScope, Execute, Replay, WriteRow, WriteRecord,
                            WriteRaced, IInv, TypeOK
        <4>2. CASE d # c
          BY <3>3, <4>2 DEF Begin, Checkout, SetScope, Execute, Replay, ReadEvidence, WriteRow,
                            WriteRecord, WriteRaced, IInv, TypeOK, pending
        <4> QED  BY <4>1, <4>2
      <3> QED
        BY <3>1, <3>2, <3>3 DEF Next, Step, Write, Conflict, WriteRefused, Commit, CommitUnheard,
                                Fail, GiveUp, Abort
    <2>2. CASE ReadEvidence(c)
      <3> DEFINE asked == {task[c].receipts[n].ref : n \in 1..Len(task[c].receipts)}
      <3>1. /\ evidence'[c] = {r \in Visible(c, rows, newRows) : r.ref \in asked}
            /\ pc[c] = "open" /\ InScopedSession(c)
            /\ UNCHANGED <<rows, task, newRows, appended>>
        BY <2>2 DEF ReadEvidence, IInv, TypeOK, committed, pending, InScopedSession
      <3>2. newRows[c] = newRecords[c]
        BY <3>1 DEF IInv, PendingIsNew, InFlight
      <3>3. Visible(c, rows, newRows) # {} => task[c].ledger = task[c].tenant
        BY <3>1 DEF Visible, InScope, IInv, Scoped
      <3>4. Visible(c, rows, newRows) \subseteq rows[task[c].tenant] \cup newRows[c]
        BY <3>3, VisibleType
      <3>5. Appended(c) \subseteq Visible(c, rows, newRows)
        <4>1. CASE appended[c] = 0
          BY <4>1 DEF Appended
        <4>2. CASE appended[c] > 0
          <5>1. task[c].ledger = task[c].tenant
            BY <3>1, <4>2 DEF IInv, AppendedIsHeld
          <5>2. Appended(c) \subseteq rows[task[c].tenant] \cup newRows[c]
            BY <3>1, <3>2 DEF IInv, AppendedIsHeld
          <5>3. InScope(c)
            BY <3>1, <5>1 DEF IInv, Scoped, InScope
          <5> QED  BY <5>1, <5>2, <5>3 DEF Visible
        <4> QED  BY <4>1, <4>2 DEF IInv, TypeOK
      <3>6. \A r \in Appended(c) : r.ref \in asked
        <4>1. appended[c] \in Nat /\ appended[c] <= Len(task[c].receipts)
          BY <3>1 DEF IInv, AppendedIsHeld, TypeOK
        <4>2. Len(task[c].receipts) \in Nat
          BY <3>1, SessionType, TaskType DEF IInv
        <4> QED  BY <4>1, <4>2 DEF Appended
      <3> QED  BY <3>1, <3>4, <3>5, <3>6 DEF Appended
    <2>3. CASE ~ReadEvidence(c)
      <3>1. task[c].tenant \in Tenants
        BY <2>1, <2>3, SessionType, TaskType DEF IInv
      <3>2. rows[task[c].tenant] \subseteq rows'[task[c].tenant]
        BY <3>1, RowsGrow
      <3> QED  BY <2>1, <2>3, <3>2 DEF EvidenceIsOwn, Appended
    <2> QED  BY <2>2, <2>3
  <1> QED  BY <1>1, <1>2, Invariance, PTL DEF Spec

(***************************************************************************)
(* A session that ended normally made everything it appended durable.      *)
(***************************************************************************)
THEOREM DoneIsDurable == Spec => []DoneMeansDurable
  <1>1. Init => DoneMeansDurable
    BY DEF Init, DoneMeansDurable
  <1>2. IInv /\ DoneMeansDurable /\ [Next]_vars => DoneMeansDurable'
    <2> SUFFICES ASSUME IInv, DoneMeansDurable, [Next]_vars,
                        NEW c \in Callers, heard'[c] = "done"
                 PROVE  {task'[c].receipts[n] : n \in 1..Len(task'[c].receipts)}
                            \subseteq rows'[task'[c].tenant]
      BY DEF DoneMeansDurable
    <2>1. Commit(c) \/ (heard[c] = "done" /\ task'[c] = task[c])
      BY DEF vars, Next, Begin, Checkout, Step, SetScope, Replay, Conflict, Execute, Write, WriteRow,
             WriteRefused, WriteRaced, WriteRecord, ReadEvidence, Commit, CommitUnheard, Fail,
             GiveUp, Abort, Leave, Release, IInv, TypeOK
    <2>2. CASE Commit(c)
      <3>1. /\ InSession(c) /\ ~HasMore(c) /\ task' = task
            /\ rows' = [rows EXCEPT ![task[c].ledger] = @ \cup newRows[c]]
        BY <2>2 DEF Commit, Publish, Leave, Release
      <3>2. /\ task[c].tenant \in Tenants /\ task[c].ledger \in Tenants
            /\ Len(task[c].receipts) \in Nat /\ appended[c] \in Nat
        BY <3>1, SessionType, TaskType DEF InSession, IInv, TypeOK
      <3>3. /\ appended[c] = Len(task[c].receipts)
            /\ appended[c] > 0 => task[c].ledger = task[c].tenant
            /\ Appended(c) \subseteq rows[task[c].tenant] \cup newRecords[c]
            /\ newRecords[c] = newRows[c]
        BY <3>1, <3>2 DEF IInv, AppendedIsHeld, PendingIsNew, InFlight, InSession, InScopedSession,
                          HasMore
      <3>4. CASE appended[c] = 0
        BY <3>1, <3>3, <3>4
      <3>5. CASE appended[c] > 0
        BY <3>1, <3>2, <3>3, <3>5 DEF Appended, IInv, TypeOK
      <3> QED  BY <3>2, <3>4, <3>5
    <2>3. CASE ~Commit(c)
      <3>1. task[c].tenant \in Tenants
        BY <2>1, <2>3, TaskType DEF IInv, TypeOK
      <3> QED  BY <2>1, <2>3, <3>1, RowsGrow DEF DoneMeansDurable
    <2> QED  BY <2>2, <2>3
  <1> QED  BY <1>1, <1>2, Invariance, PTL DEF Spec

(***************************************************************************)
(* A caller that hears "conflict" or "refused" hears the truth: its task   *)
(* contradicts itself or what is on record, or its ledger is not its own.  *)
(***************************************************************************)
LEMMA ConflictIsReal ==
    ASSUME IInv, NEW c \in Callers, Conflict(c)
    PROVE  \E n \in 1..Len(task[c].receipts) :
              Contradicts(rows[task[c].tenant] \cup Appended(c), task[c].receipts[n])
  <1>1. InSession(c) /\ HasMore(c) /\ Conflicts(Visible(c, records, newRecords), Entry(c))
    BY DEF Conflict
  <1>2. /\ appended[c] \in Nat /\ Len(task[c].receipts) \in Nat
        /\ appended[c] + 1 \in 1..Len(task[c].receipts)
    <2>1. appended[c] \in Nat /\ Len(task[c].receipts) \in Nat
      BY <1>1, SessionType, TaskType DEF InSession, IInv, TypeOK
    <2> QED  BY <1>1, <2>1 DEF HasMore
  <1>3. PICK seen \in Visible(c, records, newRecords) :
            SameIdentity(seen, Entry(c)) /\ seen # Entry(c)
    BY <1>1 DEF Conflicts
  <1>4. InScope(c)
    BY <1>3 DEF Visible
  <1>5. task[c].ledger = task[c].tenant
    BY <1>1, <1>4 DEF InScope, IInv, Scoped, InSession, InScopedSession
  <1>6. seen \in rows[task[c].tenant] \cup Appended(c)
    BY <1>3, <1>5, VisibleType DEF IInv, RowsMatchRecords, RecordsAreAppended
  <1> QED  BY <1>2, <1>3, <1>6 DEF Contradicts, Entry

LEMMA RefusalIsReal ==
    ASSUME IInv, NEW c \in Callers, WriteRefused(c)
    PROVE  task[c].ledger # task[c].tenant
  BY DEF WriteRefused, WithCheck, InScope, IInv, Scoped, InScopedSession

(***************************************************************************)
(* A caller hears of a conflict only when its evidence really contradicts  *)
(* the tenant's, and of a refusal only on another tenant's ledger.         *)
(***************************************************************************)
THEOREM AnswersAreTrue == Spec => []ConflictMeansContradiction
  <1>1. Init => ConflictMeansContradiction
    BY DEF Init, ConflictMeansContradiction
  <1>2. IInv /\ ConflictMeansContradiction /\ [Next]_vars => ConflictMeansContradiction'
    <2> SUFFICES ASSUME IInv, ConflictMeansContradiction, [Next]_vars, NEW c \in Callers
                 PROVE  LET own == {task'[c].receipts[n] : n \in 1..Len(task'[c].receipts)}
                        IN  /\ heard'[c] = "conflict" => \E r \in own :
                                  Contradicts(rows'[task'[c].tenant] \cup own, r)
                            /\ heard'[c] = "refused" => task'[c].ledger # task'[c].tenant
      BY DEF ConflictMeansContradiction, Contradicts
    <2> DEFINE own == {task[c].receipts[n] : n \in 1..Len(task[c].receipts)}
    <2>1. \/ heard'[c] \notin {"conflict", "refused"}
          \/ task'[c] = task[c] /\ task[c] \in Tasks
             /\ \/ heard'[c] = heard[c]
                \/ heard'[c] = "conflict" /\ Conflict(c)
                \/ heard'[c] = "refused" /\ WriteRefused(c)
      <3>1. CASE UNCHANGED vars
        BY <3>1 DEF vars, IInv, TypeOK
      <3>2. ASSUME NEW d \in Callers, d # c,
                   \/ \E t \in Tasks : Begin(d, t)
                   \/ Checkout(d) \/ Step(d) \/ ReadEvidence(d)
                   \/ CommitUnheard(d) \/ Fail(d) \/ GiveUp(d)
            PROVE  heard'[c] = heard[c] /\ task'[c] = task[c]
        BY <3>2 DEF Begin, Checkout, Step, SetScope, Replay, Conflict, Execute, Write, WriteRow,
             WriteRefused, WriteRaced, WriteRecord, ReadEvidence, Commit, CommitUnheard, Fail,
             GiveUp, Abort, Leave, IInv, TypeOK
      <3>3. CASE \E t \in Tasks : Begin(c, t)
        BY <3>3 DEF Begin, IInv, TypeOK
      <3>4. CASE \/ Checkout(c) \/ SetScope(c) \/ Replay(c) \/ Execute(c) \/ WriteRow(c)
                 \/ WriteRecord(c) \/ ReadEvidence(c)
        BY <3>4 DEF Checkout, SetScope, Replay, Execute, WriteRow, WriteRecord, ReadEvidence,
             IInv, TypeOK
      <3>5. CASE \/ WriteRaced(c) \/ Commit(c) \/ CommitUnheard(c) \/ Fail(c) \/ GiveUp(c)
        BY <3>5 DEF WriteRaced, Commit, CommitUnheard, Fail, GiveUp, Abort, Leave, IInv, TypeOK
      <3>6. CASE Conflict(c) \/ WriteRefused(c)
        BY <3>6 DEF Conflict, WriteRefused, InSession, Abort, Leave, IInv, TypeOK
      <3>7. heard'[c] = heard[c] /\ task'[c] = task[c] /\ heard'[c] \in {"conflict", "refused"}
              => task[c] \in Tasks
        BY DEF IInv, TypeOK
      <3> QED  BY <3>1, <3>2, <3>3, <3>4, <3>5, <3>6, <3>7 DEF Next, Step, Write
    <2>2. CASE heard'[c] \notin {"conflict", "refused"}
      BY <2>2
    <2>3. ASSUME task'[c] = task[c], task[c] \in Tasks, heard'[c] \in {"conflict", "refused"}
          PROVE  /\ heard'[c] = "conflict" => \E r \in own :
                          Contradicts(rows'[task[c].tenant] \cup own, r)
                 /\ heard'[c] = "refused" => task[c].ledger # task[c].tenant
      <3>1. rows[task[c].tenant] \subseteq rows'[task[c].tenant]
        BY <2>3, TaskType, RowsGrow DEF IInv
      <3>2. CASE heard'[c] = heard[c]
        BY <3>1, <3>2 DEF ConflictMeansContradiction, Contradicts
      <3>3. CASE heard'[c] = "conflict" /\ Conflict(c)
        <4>1. Appended(c) \subseteq own
          <5>1. appended[c] \in Nat /\ Len(task[c].receipts) \in Nat
                    /\ appended[c] <= Len(task[c].receipts)
            BY <2>3, <3>3, TaskType DEF Conflict, HasMore, IInv, TypeOK
          <5> QED  BY <5>1 DEF Appended
        <4> QED  BY <3>1, <3>3, <4>1, ConflictIsReal DEF Contradicts
      <3>4. CASE heard'[c] = "refused" /\ WriteRefused(c)
        BY <3>4, RefusalIsReal
      <3> QED  BY <2>1, <2>3, <3>2, <3>3, <3>4
    <2> QED  BY <2>1, <2>2, <2>3
  <1> QED  BY <1>1, <1>2, Invariance, PTL DEF Spec

(***************************************************************************)
(* The store implements the append-only ledger: a step adds one session's  *)
(* new evidence to one tenant, or nothing.                                 *)
(***************************************************************************)
THEOREM Refinement == Spec => KeepsTheLedger
  <1>1. Init => Ledger!Init
    BY DEF Init, Ledger!Init
  <1>2. IInv /\ [Next]_vars => [Ledger!Next]_rows
    <2> SUFFICES ASSUME IInv, [Next]_vars PROVE Ledger!Next \/ rows' = rows
      OBVIOUS
    <2>1. rows' = rows \/ \E c \in Callers : Publish(c)
      BY DEF vars, Next, Begin, Checkout, Step, SetScope, Replay, Conflict, Execute, Write, WriteRow,
             WriteRefused, WriteRaced, WriteRecord, ReadEvidence, Commit, CommitUnheard, Fail,
             GiveUp, Abort, committed
    <2>2. ASSUME NEW c \in Callers, Publish(c) PROVE Ledger!Next
      <3>1. task[c].ledger \in Tenants /\ newRows[c] \in SUBSET Receipts
        BY <2>2, SessionType, TaskType DEF Publish, InSession, IInv, TypeOK
      <3>2. Ledger!UniqueIdentity(newRows[c])
        BY DEF IInv, PendingIsNew, UniqueIdentity, SameIdentity, Identity,
               Ledger!UniqueIdentity, Ledger!SameIdentity, Ledger!Identity
      <3>3. \A r \in newRows[c] : ~Ledger!Spent(rows[task[c].ledger], r)
        BY DEF IInv, PendingIsNew, Spent, SameIdentity, Identity,
               Ledger!Spent, Ledger!SameIdentity, Ledger!Identity
      <3>4. rows' = [rows EXCEPT ![task[c].ledger] = @ \cup newRows[c]]
        BY <2>2 DEF Publish
      <3>5. Ledger!Append(task[c].ledger, newRows[c])
        BY <3>2, <3>3, <3>4 DEF Ledger!Append
      <3> QED  BY <3>1, <3>5 DEF Ledger!Next
    <2> QED  BY <2>1, <2>2
  <1> QED  BY <1>1, <1>2, Invariance, PTL DEF Spec, KeepsTheLedger, Ledger!Spec

-----------------------------------------------------------------------------
(***************************************************************************)
(* What one step of the abstract ledger keeps.                             *)
(***************************************************************************)
LEMMA LedgerType ==
    ASSUME rows \in [Tenants -> SUBSET Receipts], Ledger!OneEntryPerFact,
           [Ledger!Next]_rows
    PROVE  /\ rows' \in [Tenants -> SUBSET Receipts]
           /\ Ledger!OneEntryPerFact'
           /\ \A t \in Tenants : rows[t] \subseteq rows'[t]
  <1>1. CASE rows' = rows
    BY <1>1 DEF Ledger!OneEntryPerFact
  <1>2. ASSUME NEW t \in Tenants, NEW added \in SUBSET Receipts, Ledger!Append(t, added)
        PROVE  /\ rows' \in [Tenants -> SUBSET Receipts]
               /\ Ledger!OneEntryPerFact'
               /\ \A u \in Tenants : rows[u] \subseteq rows'[u]
    <2>1. /\ Ledger!UniqueIdentity(added)
          /\ \A r \in added : ~Ledger!Spent(rows[t], r)
          /\ rows' = [rows EXCEPT ![t] = @ \cup added]
      BY <1>2 DEF Ledger!Append
    <2>2. Ledger!UniqueIdentity(rows[t] \cup added)
      BY <2>1 DEF Ledger!OneEntryPerFact, Ledger!UniqueIdentity, Ledger!Spent,
                  Ledger!SameIdentity
    <2> QED  BY <2>1, <2>2 DEF Ledger!OneEntryPerFact
  <1> QED  BY <1>1, <1>2 DEF Ledger!Next

(***************************************************************************)
(* The ledger that is promised is worth having: whoever keeps it has one   *)
(* entry per exact fact, and never takes one back.                         *)
(***************************************************************************)
THEOREM LedgerIsEnough ==
    KeepsTheLedger => []Ledger!OneEntryPerFact /\ Ledger!AppendOnly
  <1> DEFINE Inv == rows \in [Tenants -> SUBSET Receipts] /\ Ledger!OneEntryPerFact
             Grows == \A t \in Tenants : rows[t] \subseteq rows'[t]
  <1>1. Ledger!Init => Inv
    BY DEF Ledger!Init, Ledger!OneEntryPerFact, Ledger!UniqueIdentity
  <1>2. Inv /\ [Ledger!Next]_rows => Inv'
    BY LedgerType
  <1>3. Inv /\ [Ledger!Next]_rows => [Grows]_rows
    BY LedgerType
  <1> QED
    BY <1>1, <1>2, <1>3, PTL DEF KeepsTheLedger, Ledger!Spec, Ledger!AppendOnly
=============================================================================
