------------------------------ MODULE RepairLoop ------------------------------
(***************************************************************************)
(* What receipts.py is for: an owner publishes versions of facts, their    *)
(* delivery may be lost, repeated, late and out of order, the adapter      *)
(* keeps evidence of what it handled, and auditors compare the two with    *)
(* reconcile and deliver repairable_by_redelivery again.                   *)
(*                                                                         *)
(* reconcile is pure, so an audit is one step; its two arguments are read  *)
(* at different times, in either order, while owner and adapter go on.     *)
(* A delivery is one transaction of the adapter (HandoffPromise).  The     *)
(* repository has no auditor yet: it stands for any caller of reconcile    *)
(* that does what the report's docstrings and ARCHITECTURE.md say it may.  *)
(***************************************************************************)
EXTENDS ReceiptEvidence

CONSTANTS
    Keys, Fingerprints, None,
    Auditors,      \* concurrent callers of reconcile
    MaxVersion,    \* bound: versions of a fact
    Defective,     \* the owner may give one version other content
    Lagging        \* the owner's read may lag behind its deliveries

Facts == [ref : Keys, version : 1..MaxVersion, fingerprint : Fingerprints]
Receipts == [ref : Keys, version : 1..MaxVersion,
             fingerprint : Fingerprints, outcome : Outcomes]

ASSUME RepairAssumption ==
    /\ MaxVersion \in Nat
    /\ Defective \in BOOLEAN /\ Lagging \in BOOLEAN
    /\ None \notin Facts /\ None \notin Receipts

VARIABLES
    current,              \* the owner's current version of each fact
    outputs,              \* every exact version it has ever given out
    ledger,               \* the adapter's receipts
    have,                 \* which of the two arguments each auditor has read
    published, received,  \* the arguments
    verdicts,             \* the report of each auditor: its published facts, judged
    repair                \* what it still has to deliver again

vars == <<current, outputs, ledger, have, published, received, verdicts, repair>>
audits == <<have, published, received, verdicts, repair>>

(* reconcile of receipts.py, of which only the verdict is needed here. *)
Reconcile == INSTANCE Reconcile WITH
    PublishedInputs <- {}, ReceivedInputs <- {}, published <- <<>>,
    received <- <<>>, folded <- 0, latest <- <<>>, verdicts <- <<>>

Judged == [fact : Facts, verdict : Reconcile!Verdicts]

TypeOK ==
    /\ current \in [Keys -> Facts \cup {None}]
    /\ outputs \subseteq Facts
    /\ ledger \subseteq Receipts
    /\ have \in [Auditors -> SUBSET {"published", "received"}]
    /\ published \in [Auditors -> SUBSET Facts]
    /\ received \in [Auditors -> SUBSET Receipts]
    /\ verdicts \in [Auditors -> SUBSET Judged]
    /\ repair \in [Auditors -> SUBSET Facts]

Init ==
    /\ current = [k \in Keys |-> None]
    /\ outputs = {}
    /\ ledger = {}
    /\ have = [a \in Auditors |-> {}]
    /\ published = [a \in Auditors |-> {}]
    /\ received = [a \in Auditors |-> {}]
    /\ verdicts = [a \in Auditors |-> {}]
    /\ repair = [a \in Auditors |-> {}]

-----------------------------------------------------------------------------
(* The owner. *)

Version(k) == IF current[k] = None THEN 0 ELSE current[k].version

Say(fact) ==
    /\ current' = [current EXCEPT ![fact.ref] = fact]
    /\ outputs' = outputs \cup {fact}
    /\ UNCHANGED <<ledger, audits>>

Publish(k) ==
    /\ Version(k) < MaxVersion
    /\ \E fp \in Fingerprints :
          Say([ref |-> k, version |-> Version(k) + 1, fingerprint |-> fp])

(* The defect DivergentFact names: a mutated immutable fact. *)
Republish(k) ==
    /\ Defective /\ current[k] # None
    /\ \E fp \in Fingerprints \ {current[k].fingerprint} :
          Say([current[k] EXCEPT !.fingerprint = fp])

-----------------------------------------------------------------------------
(* The adapter. *)

(* Mutation of Record: the evidence of a subject is updated in place. *)
RecordInPlace(fact, outcome) ==
    ledger' = {r \in ledger : r.ref # fact.ref} \cup {Receipt(fact, outcome)}

(* Mutation of Record: the latest content of a version wins. *)
RecordLatestContent(fact, outcome) ==
    ledger' = {r \in ledger : ~SameIdentity(r, fact)} \cup {Receipt(fact, outcome)}

(* Mutation of Record: a refusal is raised and leaves no evidence. *)
RecordApplied(fact, outcome) ==
    ledger' = IF outcome = "refused" \/ Conflicts(ledger, Receipt(fact, outcome)) THEN ledger
              ELSE ledger \cup {Receipt(fact, outcome)}

(* New evidence, a replay, or an IdempotencyConflict that changes nothing. *)
Record(fact, outcome) ==
    ledger' = IF Conflicts(ledger, Receipt(fact, outcome)) THEN ledger
              ELSE ledger \cup {Receipt(fact, outcome)}

(* Any delivery of what the owner ever gave out: late, repeated, superseded. *)
Deliver(fact) ==
    /\ fact \in outputs
    /\ \E outcome \in Outcomes : Record(fact, outcome)
    /\ UNCHANGED <<current, outputs, audits>>

-----------------------------------------------------------------------------
(* The auditors. *)

(* One fact per subject: what the owner says now, or has said not long ago. *)
IsRead(facts) ==
    /\ facts \subseteq outputs
    /\ \A f, g \in facts : f.ref = g.ref => f = g
    /\ ~Lagging => \A k \in Keys : current[k] # None => current[k] \in facts

ReadPublished(a) ==
    /\ repair[a] = {} /\ "published" \notin have[a]
    /\ have' = [have EXCEPT ![a] = @ \cup {"published"}]
    /\ \E facts \in SUBSET outputs :
          IsRead(facts) /\ published' = [published EXCEPT ![a] = facts]
    /\ UNCHANGED <<current, outputs, ledger, received, verdicts, repair>>

(* receipts_for, in a transaction of its own. *)
ReadReceipts(a) ==
    /\ repair[a] = {} /\ "received" \notin have[a]
    /\ have' = [have EXCEPT ![a] = @ \cup {"received"}]
    /\ received' = [received EXCEPT ![a] = ledger]
    /\ UNCHANGED <<current, outputs, ledger, published, verdicts, repair>>

(* What _latest_by_key finds and reconcile makes of it (Reconcile). *)
Newest(log, key) == Reconcile!Newest(log, key)
Judge(fact, log) == Reconcile!Judge(fact, log)
Judgement(facts, log) == {[fact |-> f, verdict |-> Judge(f, log)] : f \in facts}

(* Mutation of Repairable: everything that is not settled. *)
NotSettled(judged) == {j.fact : j \in {x \in judged : x.verdict # "settled"}}

(* ReconciliationReport.repairable_by_redelivery *)
Repairable(judged) == {j.fact : j \in {x \in judged : x.verdict = "missing"}}

Audit(a) ==
    /\ have[a] = {"published", "received"}
    /\ LET judged == Judgement(published[a], received[a])
       IN  /\ verdicts' = [verdicts EXCEPT ![a] = judged]
           /\ repair' = [repair EXCEPT ![a] = Repairable(judged)]
    /\ have' = [have EXCEPT ![a] = {}]
    /\ published' = [published EXCEPT ![a] = {}]
    /\ received' = [received EXCEPT ![a] = {}]
    /\ UNCHANGED <<current, outputs, ledger>>

(* A repair: the fact is delivered once more, as any delivery is. *)
Redeliver(a, fact) ==
    /\ fact \in repair[a]
    /\ repair' = [repair EXCEPT ![a] = @ \ {fact}]
    /\ \E outcome \in Outcomes : Record(fact, outcome)
    /\ UNCHANGED <<current, outputs, have, published, received, verdicts>>

(* The repair is lost, rolled back, or the auditor dies before it. *)
Lose(a, fact) ==
    /\ fact \in repair[a]
    /\ repair' = [repair EXCEPT ![a] = @ \ {fact}]
    /\ UNCHANGED <<current, outputs, ledger, have, published, received, verdicts>>

Next ==
    \/ \E k \in Keys : Publish(k) \/ Republish(k)
    \/ \E fact \in Facts : Deliver(fact)
    \/ \E a \in Auditors :
        \/ ReadPublished(a) \/ ReadReceipts(a) \/ Audit(a)
        \/ \E fact \in Facts : Redeliver(a, fact) \/ Lose(a, fact)

Spec == Init /\ [][Next]_vars

(***************************************************************************)
(* Auditors keep auditing, an owner's read that lags catches up again and  *)
(* again, and a delivery that is tried again and again leaves a receipt in *)
(* the end.  Nothing is assumed of the owner's own deliveries: each may be *)
(* lost.                                                                   *)
(***************************************************************************)
ReadCurrent(a) ==
    /\ ReadPublished(a)
    /\ \A k \in Keys : current[k] # None => current[k] \in published'[a]
Fairness ==
    \A a \in Auditors :
        /\ WF_vars(ReadPublished(a)) /\ SF_vars(ReadCurrent(a))
        /\ WF_vars(ReadReceipts(a)) /\ WF_vars(Audit(a))
        /\ \A fact \in Facts : SF_vars(Redeliver(a, fact))
FairSpec == Spec /\ Fairness
-----------------------------------------------------------------------------
(* The evidence that settles a fact, as Reconcile!Means has it. *)
SettledBy(log, fact) ==
    \E r \in Of(log, fact.ref) :
        \/ r.version > fact.version
        \/ r.version = fact.version /\ r.fingerprint = fact.fingerprint

(***************************************************************************)
(* A verdict of "settled" is for good, although the auditor's two reads    *)
(* were not of one moment: no later, repeated or superseded delivery and   *)
(* no repair reopens the fact (test_only_the_latest_receipt_decides).      *)
(***************************************************************************)
SettledStaysSettled == \A a \in Auditors : \A j \in verdicts[a] :
    j.verdict = "settled" => Judge(j.fact, ledger) = "settled"

(***************************************************************************)
(* "It always means a defect" (DivergentFact): no lag, loss, repetition or *)
(* reordering alone is ever reported as divergence.  The owner has given   *)
(* one version two contents.                                               *)
(***************************************************************************)
DivergentMeansDefect == \A a \in Auditors : \A j \in verdicts[a] :
    j.verdict = "divergent" =>
        \E f, g \in outputs : SameIdentity(f, g) /\ f # g /\ f.ref = j.fact.ref

(***************************************************************************)
(* "It never self-heals" (DivergentFact): while the owner says the same,   *)
(* no delivery and no repair makes a divergent fact anything else.         *)
(***************************************************************************)
Divergent(k) == current[k] # None /\ Judge(current[k], ledger) = "divergent"
DivergenceNeverHeals ==
    [][\A k \in Keys : Divergent(k) /\ UNCHANGED current => Divergent(k)']_vars

(***************************************************************************)
(* Why: the evidence only grows, holds one receipt per exact fact, and     *)
(* all of it, what the auditors have read of it included, goes back to     *)
(* something the owner gave out.                                           *)
(***************************************************************************)
HasNewest(log) == \A r \in log : \E newest \in Of(log, r.ref) : IsNewest(log, newest)
IsFaithful(log) ==
    /\ UniqueIdentity(log) /\ HasNewest(log)
    /\ \A r \in log : \E f \in outputs : r \in {Receipt(f, o) : o \in Outcomes}

OwnerMovesOn ==
    /\ \A f \in outputs : current[f.ref] # None /\ f.version <= current[f.ref].version
    /\ \A k \in Keys : current[k] # None => current[k] \in outputs /\ current[k].ref = k

AuditorsReadEvidence == \A a \in Auditors :
    /\ published[a] \subseteq outputs /\ repair[a] \subseteq outputs
    /\ received[a] \subseteq ledger /\ IsFaithful(received[a])

IInv ==
    /\ TypeOK /\ OwnerMovesOn
    /\ IsFaithful(ledger) /\ AuditorsReadEvidence
    /\ SettledStaysSettled /\ DivergentMeansDefect

(***************************************************************************)
(* All this is said of a ledger the repository has: the loop asks of its   *)
(* evidence nothing but what ReceiptStore and the drains of RatedHandoff   *)
(* promise as well.                                                        *)
(***************************************************************************)
Ledger == INSTANCE ReceiptLedger WITH
    Tenants <- {"tenant"}, ledger <- [t \in {"tenant"} |-> ledger]
KeepsTheLedger == Ledger!Spec

(***************************************************************************)
(* Every published fact is handled in some version, although the owner's   *)
(* own deliveries may all be lost and repairs may be.                      *)
(***************************************************************************)
LostIsDelivered == \A k \in Keys : current[k] # None ~> Of(ledger, k) # {}

(***************************************************************************)
(* Repair ends when there is nothing left to repair: neither a divergent   *)
(* nor a refused fact is fetched again and again (ARCHITECTURE.md).        *)
(***************************************************************************)
RepairEnds == <>[](\A a \in Auditors : repair[a] = {})
=============================================================================
