----------------------------- MODULE ReceiptStore -----------------------------
(***************************************************************************)
(* SqlAlchemyReceiptLedger (receipt_store.py) inside tenant_session        *)
(* (database.py), over the table and policy of ca_0001_adapter_receipts    *)
(* and the idempotency records of the kernel.                              *)
(*                                                                         *)
(* A caller has a task: the tenant of its session, the tenant its ledger   *)
(* was built for, and the receipts it appends, in order.  It takes a       *)
(* pooled connection, sets the scope, appends, may read its evidence back, *)
(* and leaves.  The scope lives on the connection; what the session wrote  *)
(* is pending until it commits; and what the caller hears of the commit    *)
(* may differ from what happened.                                          *)
(***************************************************************************)
EXTENDS ReceiptEvidence, Sequences

CONSTANTS
    Tenants,
    Receipts,      \* what there is to append
    Callers,       \* threads and processes, each with a session of its own
    Connections,   \* the pool of the engine
    Tasks,
    None,
    MaxFaults      \* bound: exceptions, lost connections, timeouts

ASSUME StoreAssumption ==
    /\ Tasks \subseteq [tenant : Tenants, ledger : Tenants, receipts : Seq(Receipts)]
    /\ None \notin Tenants \cup Connections \cup Tasks
    /\ MaxFaults \in Nat

VARIABLES
    rows,        \* cloud_adapter_receipts, committed, by tenant
    records,     \* idempotency_records, committed, by tenant: key and fingerprint
    scope,       \* app.current_tenant of each connection
    conn,        \* the connection a caller holds
    pc, task,
    appended,    \* how many receipts of its task this session has appended
    newRows, newRecords,   \* what this session has written
    evidence,    \* what receipts_for returned to this session
    heard,       \* what the caller knows of its task
    faults

vars == <<rows, records, scope, conn, pc, task, appended, newRows, newRecords,
          evidence, heard, faults>>
committed == <<rows, records>>
pending == <<newRows, newRecords>>
pool == <<scope, conn>>

TypeOK ==
    /\ rows \in [Tenants -> SUBSET Receipts]
    /\ records \in [Tenants -> SUBSET Receipts]
    /\ scope \in [Connections -> Tenants \cup {None}]
    /\ conn \in [Callers -> Connections \cup {None}]
    /\ pc \in [Callers -> {"idle", "waiting", "begun", "open", "write", "record", "read"}]
    /\ task \in [Callers -> Tasks \cup {None}]
    /\ appended \in [Callers -> Nat]
    /\ newRows \in [Callers -> SUBSET Receipts]
    /\ newRecords \in [Callers -> SUBSET Receipts]
    /\ evidence \in [Callers -> SUBSET Receipts]
    /\ heard \in [Callers -> {"nothing", "done", "conflict", "refused", "error"}]
    /\ faults \in 0..MaxFaults
    /\ \A c \in Callers :
          /\ pc[c] # "idle" \/ heard[c] # "nothing" => task[c] \in Tasks
          /\ pc[c] \in {"idle", "waiting"} <=> conn[c] = None
          /\ pc[c] \in {"write", "record"} => appended[c] < Len(task[c].receipts)

Init ==
    /\ rows = [t \in Tenants |-> {}]
    /\ records = [t \in Tenants |-> {}]
    /\ scope = [k \in Connections |-> None]
    /\ conn = [c \in Callers |-> None]
    /\ pc = [c \in Callers |-> "idle"]
    /\ task = [c \in Callers |-> None]
    /\ appended = [c \in Callers |-> 0]
    /\ newRows = [c \in Callers |-> {}]
    /\ newRecords = [c \in Callers |-> {}]
    /\ evidence = [c \in Callers |-> {}]
    /\ heard = [c \in Callers |-> "nothing"]
    /\ faults = 0

Entry(c) == task[c].receipts[appended[c] + 1]
HasMore(c) == appended[c] < Len(task[c].receipts)
InSession(c) == pc[c] \in {"open", "read"}
InScopedSession(c) == pc[c] \in {"open", "read", "write", "record"}

(***************************************************************************)
(* Row level security: rows of a tenant are there for a statement, and may *)
(* be inserted by it, only while the connection's scope is that tenant.    *)
(* Without a scope the policy compares with NULL and there are none.       *)
(***************************************************************************)
InScope(c) == scope[conn[c]] = task[c].ledger

(* Mutation of Visible: the policy is not enforced, the WHERE clause is. *)
VisibleWithoutPolicy(c, table, own) == table[task[c].ledger] \cup own[c]

(* A ledger's rows of a table, as a statement of the session finds them. *)
Visible(c, table, own) ==
    IF InScope(c) THEN table[task[c].ledger] \cup own[c] ELSE {}

(* Mutation of Blocked: nobody waits for an uncommitted row. *)
NeverWaits(c) == FALSE

(* An uncommitted row of another session holds the exact fact. *)
Blocked(c) == \E other \in Callers \ {c} :
    task[other] # None /\ task[other].ledger = task[c].ledger /\ Spent(newRows[other], Entry(c))

(***************************************************************************)
(* The end of a session: the transaction is over and its scope with it,    *)
(* the connection is back in the pool, the caller has heard something.     *)
(***************************************************************************)
(* Mutation of Release: set_config without its local flag. *)
ReleaseScoped(c, answer) == conn' = [conn EXCEPT ![c] = None] /\ UNCHANGED scope

(* Mutation of Release: only a normal end gives the connection back. *)
ReleaseWhenDone(c, answer) ==
    /\ conn' = IF answer = "done" THEN [conn EXCEPT ![c] = None] ELSE conn
    /\ scope' = [k \in Connections |-> IF k = conn[c] THEN None ELSE scope[k]]

(* Whatever the caller hears, its connection goes back without a scope. *)
Release(c, answer) ==
    /\ conn' = [conn EXCEPT ![c] = None]
    /\ scope' = [k \in Connections |-> IF k = conn[c] THEN None ELSE scope[k]]

Leave(c, answer) ==
    /\ Release(c, answer)
    /\ pc' = [pc EXCEPT ![c] = "idle"]
    /\ heard' = [heard EXCEPT ![c] = answer]
    /\ appended' = [appended EXCEPT ![c] = 0]
    /\ newRows' = [newRows EXCEPT ![c] = {}]
    /\ newRecords' = [newRecords EXCEPT ![c] = {}]
    /\ evidence' = [evidence EXCEPT ![c] = {}]
    /\ UNCHANGED task

(* An exception leaves the with block: nothing the session wrote remains. *)
Abort(c, answer) == Leave(c, answer) /\ UNCHANGED <<committed>>
-----------------------------------------------------------------------------
(* A caller that heard nothing but an error may run the same task again. *)
Begin(c, t) ==
    /\ pc[c] = "idle"
    /\ pc' = [pc EXCEPT ![c] = "waiting"]
    /\ task' = [task EXCEPT ![c] = t]
    /\ heard' = [heard EXCEPT ![c] = "nothing"]
    /\ UNCHANGED <<committed, pool, appended, pending, evidence, faults>>

Idle(k) == \A c \in Callers : conn[c] # k

Checkout(c) ==
    /\ pc[c] = "waiting"
    /\ \E k \in Connections : Idle(k) /\ conn' = [conn EXCEPT ![c] = k]
    /\ pc' = [pc EXCEPT ![c] = "begun"]
    /\ UNCHANGED <<committed, scope, task, appended, pending, evidence, heard, faults>>

(* The first statement of the transaction, before the caller's block runs. *)
SetScope(c) ==
    /\ pc[c] = "begun"
    /\ scope' = [scope EXCEPT ![conn[c]] = task[c].tenant]
    /\ pc' = [pc EXCEPT ![c] = "open"]
    /\ UNCHANGED <<committed, conn, task, appended, pending, evidence, heard, faults>>

(***************************************************************************)
(* append: execute_once looks the key up, then runs _write and records it. *)
(***************************************************************************)
Replay(c) ==
    /\ InSession(c) /\ HasMore(c)
    /\ LET spent == Visible(c, records, newRecords)
       IN  Spent(spent, Entry(c)) /\ ~Conflicts(spent, Entry(c))
    /\ appended' = [appended EXCEPT ![c] = @ + 1]
    /\ pc' = [pc EXCEPT ![c] = "open"]
    /\ UNCHANGED <<committed, pool, task, pending, evidence, heard, faults>>

Conflict(c) ==
    /\ InSession(c) /\ HasMore(c)
    /\ Conflicts(Visible(c, records, newRecords), Entry(c))
    /\ Abort(c, "conflict")
    /\ UNCHANGED faults

Execute(c) ==
    /\ InSession(c) /\ HasMore(c)
    /\ ~Spent(Visible(c, records, newRecords), Entry(c))
    /\ pc' = [pc EXCEPT ![c] = "write"]
    /\ UNCHANGED <<committed, pool, task, appended, pending, evidence, heard, faults>>

(* Mutation of WithCheck: the policy covers reads only. *)
WithoutCheck(c) == TRUE

(* WITH CHECK of the policy. *)
WithCheck(c) == InScope(c)

(* _write: the flush inserts the row. *)
WriteRow(c) ==
    /\ pc[c] = "write" /\ WithCheck(c) /\ ~Blocked(c)
    /\ ~Spent(rows[task[c].ledger], Entry(c))
    /\ newRows' = [newRows EXCEPT ![c] = @ \cup {Entry(c)}]
    /\ pc' = [pc EXCEPT ![c] = "record"]
    /\ UNCHANGED <<committed, pool, task, appended, newRecords, evidence, heard, faults>>

(* The ledger was built for another tenant than its session. *)
WriteRefused(c) ==
    /\ pc[c] = "write" /\ ~WithCheck(c)
    /\ Abort(c, "refused")
    /\ UNCHANGED faults

(* Mutation of WriteRaced: the unique violation passes for a replay. *)
WriteRacedSwallowed(c) ==
    /\ pc[c] = "write" /\ WithCheck(c) /\ ~Blocked(c)
    /\ Spent(rows[task[c].ledger], Entry(c))
    /\ pc' = [pc EXCEPT ![c] = "open"]
    /\ appended' = [appended EXCEPT ![c] = @ + 1]
    /\ UNCHANGED <<committed, pool, task, pending, evidence, heard, faults>>

(***************************************************************************)
(* Another session committed the same exact fact after the lookup: the     *)
(* unique violation ends the session, or the kernel looks the key up again.*)
(***************************************************************************)
WriteRaced(c) ==
    /\ pc[c] = "write" /\ WithCheck(c) /\ ~Blocked(c)
    /\ Spent(rows[task[c].ledger], Entry(c))
    /\ \/ Abort(c, "error")
       \/ /\ pc' = [pc EXCEPT ![c] = "open"]
          /\ UNCHANGED <<committed, pool, task, appended, pending, evidence, heard>>
    /\ UNCHANGED faults

(* Mutation of WriteRecord: the kernel records it in a transaction of its own. *)
WriteRecordAtOnce(c) ==
    /\ pc[c] = "record"
    /\ records' = [records EXCEPT ![task[c].ledger] = @ \cup {Entry(c)}]
    /\ newRecords' = newRecords
    /\ appended' = [appended EXCEPT ![c] = @ + 1]
    /\ pc' = [pc EXCEPT ![c] = "open"]
    /\ UNCHANGED <<rows, pool, task, newRows, evidence, heard, faults>>

WriteRecord(c) ==
    /\ pc[c] = "record"
    /\ newRecords' = [newRecords EXCEPT ![c] = @ \cup {Entry(c)}]
    /\ appended' = [appended EXCEPT ![c] = @ + 1]
    /\ pc' = [pc EXCEPT ![c] = "open"]
    /\ UNCHANGED <<committed, pool, task, newRows, evidence, heard, faults>>

(* receipts_for the references of the task, in this session. *)
ReadEvidence(c) ==
    /\ pc[c] = "open"
    /\ LET asked == {task[c].receipts[n].ref : n \in 1..Len(task[c].receipts)}
       IN  evidence' = [evidence EXCEPT ![c] =
                {r \in Visible(c, rows, newRows) : r.ref \in asked}]
    /\ pc' = [pc EXCEPT ![c] = "read"]
    /\ UNCHANGED <<committed, pool, task, appended, pending, heard, faults>>

Publish(c) ==
    /\ InSession(c) /\ ~HasMore(c)
    /\ rows' = [rows EXCEPT ![task[c].ledger] = @ \cup newRows[c]]
    /\ records' = [records EXCEPT ![task[c].ledger] = @ \cup newRecords[c]]

Commit(c) == Publish(c) /\ Leave(c, "done") /\ UNCHANGED faults

(* The connection is lost after the commit: the caller hears an error. *)
CommitUnheard(c) ==
    /\ faults < MaxFaults
    /\ faults' = faults + 1
    /\ Publish(c) /\ Leave(c, "error")

(* An exception of the caller's block, a lost connection, a pool timeout. *)
Fail(c) ==
    /\ pc[c] # "idle"
    /\ faults < MaxFaults
    /\ faults' = faults + 1
    /\ Abort(c, "error")

(* A waiting insert ends as deadlock victim or in a lock timeout. *)
GiveUp(c) ==
    /\ pc[c] = "write" /\ WithCheck(c) /\ Blocked(c)
    /\ Abort(c, "error")
    /\ UNCHANGED faults

Write(c) == WriteRow(c) \/ WriteRefused(c) \/ WriteRaced(c) \/ WriteRecord(c)

Step(c) == SetScope(c) \/ Replay(c) \/ Conflict(c) \/ Execute(c) \/ Write(c) \/ Commit(c)

Next == \E c \in Callers :
    \/ \E t \in Tasks : Begin(c, t)
    \/ Checkout(c) \/ Step(c) \/ ReadEvidence(c)
    \/ CommitUnheard(c) \/ Fail(c) \/ GiveUp(c)

Spec == Init /\ [][Next]_vars

(* A caller that heard an error tries again. *)
Retry(c) == heard[c] = "error" /\ Begin(c, task[c])

(* Sessions run to their end and the pool serves its waiters in turn. *)
Fairness == \A c \in Callers :
    WF_vars(Step(c)) /\ SF_vars(Checkout(c)) /\ WF_vars(Retry(c))

FairSpec == Spec /\ Fairness
-----------------------------------------------------------------------------
(***************************************************************************)
(* append spends one kernel key with every receipt row it writes, in the   *)
(* same transaction: the table and the kernel's records never disagree, so *)
(* a key can neither block a fact nobody recorded nor let one in twice.    *)
(***************************************************************************)
RowsMatchRecords == rows = records

(***************************************************************************)
(* What receipts_for returns belongs to the session's own tenant and is    *)
(* committed or the session's own, whatever tenant the ledger was built    *)
(* for; and it holds all that the session has appended so far.             *)
(***************************************************************************)
Appended(c) == {task[c].receipts[n] : n \in 1..appended[c]}
EvidenceIsOwn == \A c \in Callers : pc[c] = "read" =>
    /\ evidence[c] \subseteq rows[task[c].tenant] \cup newRows[c]
    /\ Appended(c) \subseteq evidence[c]

(***************************************************************************)
(* A tenant_session that returned normally made all of its receipts        *)
(* durable, and nothing that overlaps or comes later takes that back.      *)
(***************************************************************************)
DoneMeansDurable == \A c \in Callers : heard[c] = "done" =>
    {task[c].receipts[n] : n \in 1..Len(task[c].receipts)} \subseteq rows[task[c].tenant]

(***************************************************************************)
(* What the caller hears is so: "conflict" (IdempotencyConflict) only when *)
(* some receipt of its task contradicts the tenant's evidence or another   *)
(* receipt of the task, never for evidence it may have committed itself    *)
(* and repeats; "refused" only when its ledger is another tenant's.  What  *)
(* contradicts what is said here anew: it is what Conflicts is held to.    *)
(***************************************************************************)
Contradicts(log, r) == \E seen \in log : SameIdentity(seen, r) /\ seen # r
ConflictMeansContradiction == \A c \in Callers :
    LET own == {task[c].receipts[n] : n \in 1..Len(task[c].receipts)}
    IN  /\ heard[c] = "conflict" =>
              \E r \in own : Contradicts(rows[task[c].tenant] \cup own, r)
        /\ heard[c] = "refused" => task[c].ledger # task[c].tenant

(***************************************************************************)
(* The scope ends with the transaction: no connection that waits in the    *)
(* pool, and none that was just taken out, carries a tenant.               *)
(***************************************************************************)
PoolIsClean == \A k \in Connections :
    scope[k] # None => \E c \in Callers :
        /\ conn[c] = k /\ task[c].tenant = scope[k]
        /\ InScopedSession(c)

(***************************************************************************)
(* Why: nobody shares a connection or an exact fact, a session's own rows  *)
(* are of its tenant and new, and its records trail its rows by one.       *)
(***************************************************************************)
OneHolder == \A c, d \in Callers : conn[c] = conn[d] /\ conn[c] # None => c = d
Scoped == \A c \in Callers : InScopedSession(c) => scope[conn[c]] = task[c].tenant
InFlight(c) == IF pc[c] = "record" THEN {Entry(c)} ELSE {}
PendingIsNew == \A c \in Callers :
    /\ newRows[c] # {} => InScopedSession(c) /\ task[c].ledger = task[c].tenant
    /\ newRows[c] = newRecords[c] \cup InFlight(c)
    /\ UniqueIdentity(newRows[c])
    /\ \A r \in newRows[c] : ~Spent(rows[task[c].ledger], r)
    /\ pc[c] = "write" => ~Spent(newRows[c], Entry(c))
FactsHeldOnce == \A c, d \in Callers : c # d =>
    \A r \in newRows[c], s \in newRows[d] :
        task[c].ledger = task[d].ledger => ~SameIdentity(r, s)
AppendedIsHeld == \A c \in Callers :
    IF InScopedSession(c)
    THEN /\ appended[c] <= Len(task[c].receipts)
         /\ appended[c] > 0 => task[c].ledger = task[c].tenant
         /\ Appended(c) \subseteq rows[task[c].tenant] \cup newRecords[c]
    ELSE appended[c] = 0

RecordsAreAppended == \A c \in Callers : newRecords[c] \subseteq Appended(c)

IInv ==
    /\ TypeOK
    /\ RowsMatchRecords
    /\ OneHolder
    /\ Scoped
    /\ PoolIsClean
    /\ PendingIsNew
    /\ FactsHeldOnce
    /\ AppendedIsHeld
    /\ RecordsAreAppended

(***************************************************************************)
(* Seen from outside, sessions only add evidence: each commit all of its   *)
(* session's at once, of one tenant, one entry per exact fact, for good.   *)
(***************************************************************************)
Ledger == INSTANCE ReceiptLedger WITH ledger <- rows
KeepsTheLedger == Ledger!Spec

(***************************************************************************)
(* A caller that runs its task again after an error is answered: the pool  *)
(* gets its connections back, and a fact some other session holds is       *)
(* released.                                                               *)
(***************************************************************************)
EveryCallerIsAnswered == \A c \in Callers :
    pc[c] # "idle" ~> heard[c] \in {"done", "conflict", "refused"}
=============================================================================
