----------------------------- MODULE RatedHandoff -----------------------------
(***************************************************************************)
(* The hand-off of Subscriptions' rated obligations to Billing, for one    *)
(* tenant: drain_rated_obligations and apply_rated_obligation of           *)
(* adapters/subscriptions_to_billing.py, run by any number of drainers,    *)
(* each inside one DatabaseRuntime.tenant_session transaction of           *)
(* PostgreSQL at READ COMMITTED.                                           *)
(*                                                                         *)
(* A drainer reads a window of unacknowledged outputs and takes them one   *)
(* by one: the caller's ports answer, Billing accepts, the receipt is      *)
(* appended, the output is acknowledged.  Its writes stay pending          *)
(* (newObligations, newReceipts, newAcks) until Commit publishes them; an  *)
(* exception that leaves the drain discards them all.                      *)
(***************************************************************************)
EXTENDS ReceiptEvidence, FiniteSets

CONSTANTS
    Occurrences,    \* the tenant's charge occurrences
    Accounts,       \* billing accounts the resolver may answer
    Fingerprints,   \* request fingerprints Subscriptions may publish
    Drainers,       \* concurrent callers of drain_rated_obligations
    None,
    Answers,        \* what the caller's ports may answer, see PortAnswers
    Rank,           \* read order of unacknowledged_outputs; equal ranks: any order
    Limit,          \* the limit argument, 100 by default
    MaxGeneration,  \* bound: re-ratings of an occurrence
    MaxFaults,      \* bound: transactions lost to a crash or a broken session
    Disturbances    \* what may change under a running drain, see below

(***************************************************************************)
(* The first thing the caller's ports and Billing have to say of an output *)
(* is one value: the account to charge, or an objection.                   *)
(*   incoherent  tax_for raises: no TaxOutcome can be built                *)
(*   unlinked    resolve_billing_account answers None                      *)
(*   unmappable  to_command raises UnmappableObligation or ValueError      *)
(*   ruled_out   accept_rated_obligation raises BillingRuleViolation       *)
(***************************************************************************)
Objections == {"incoherent", "unlinked", "unmappable", "ruled_out"}
PortAnswers == Accounts \cup Objections

(***************************************************************************)
(*   relink     the ports' answer for an output changes                    *)
(*   republish  the publisher's fingerprint of one exact version changes   *)
(*   race       an occurrence is re-rated while a drainer works on it      *)
(***************************************************************************)
Disturbed(kind) == kind \in Disturbances

Facts == [ref : Occurrences, version : 1..MaxGeneration, fingerprint : Fingerprints]
Obligations == [ref : Occurrences, version : 1..MaxGeneration, account : Accounts]
Receipts == [ref : Occurrences, version : 1..MaxGeneration,
             fingerprint : Fingerprints, outcome : Outcomes]

ASSUME ConstantsAssumption ==
    /\ Rank \in [Occurrences -> Nat]
    /\ Limit \in Nat \ {0}
    /\ MaxGeneration \in Nat \ {0}
    /\ MaxFaults \in Nat
    /\ Accounts \cap Objections = {}
    /\ Answers \subseteq PortAnswers
    /\ None \notin Facts \cup PortAnswers \cup Fingerprints
    /\ Disturbances \subseteq {"relink", "republish", "race"}

VARIABLES
    offer,        \* Subscriptions: the current output of each occurrence
    ports,        \* what the ports would answer now
    obligations,  \* Billing: committed rated obligations
    receipts,     \* Cloud: committed adapter receipts
    pc, todo, output, answer,               \* each drainer's place in its drain
    newObligations, newReceipts, newAcks,   \* each drainer's uncommitted writes
    faults

vars == <<offer, ports, obligations, receipts, pc, todo, output, answer,
          newObligations, newReceipts, newAcks, faults>>
owners == <<offer, ports>>
committed == <<obligations, receipts>>
pending == <<newObligations, newReceipts, newAcks>>
progress == <<pc, todo, output, answer>>

TypeOK ==
    /\ offer \in [Occurrences -> [generation : 0..MaxGeneration,
                                  fingerprint : Fingerprints \cup {None},
                                  acked : BOOLEAN]]
    /\ \A o \in Occurrences : offer[o].generation > 0 => offer[o].fingerprint \in Fingerprints
    /\ ports \in [Occurrences -> Answers]
    /\ obligations \subseteq Obligations
    /\ receipts \subseteq Receipts
    /\ pc \in [Drainers -> {"idle", "next", "accept", "append", "ack"}]
    /\ todo \in [Drainers -> SUBSET Facts]
    /\ output \in [Drainers -> Facts \cup {None}]
    /\ answer \in [Drainers -> Answers \cup {None}]
    /\ newObligations \in [Drainers -> SUBSET Obligations]
    /\ newReceipts \in [Drainers -> SUBSET Receipts]
    /\ newAcks \in [Drainers -> SUBSET Occurrences]
    /\ faults \in 0..MaxFaults
    /\ \A d \in Drainers : pc[d] \in {"accept", "append", "ack"} =>
            output[d] \in Facts /\ answer[d] \in Answers

Init ==
    /\ offer = [o \in Occurrences |-> [generation |-> 0, fingerprint |-> None, acked |-> FALSE]]
    /\ ports \in [Occurrences -> Answers]
    /\ obligations = {}
    /\ receipts = {}
    /\ pc = [d \in Drainers |-> "idle"]
    /\ todo = [d \in Drainers |-> {}]
    /\ output = [d \in Drainers |-> None]
    /\ answer = [d \in Drainers |-> None]
    /\ newObligations = [d \in Drainers |-> {}]
    /\ newReceipts = [d \in Drainers |-> {}]
    /\ newAcks = [d \in Drainers |-> {}]
    /\ faults = 0

(***************************************************************************)
(* Subscriptions, as the adapter uses it.                                  *)
(***************************************************************************)
Offered(o) == offer[o].generation > 0
Unacknowledged == {o \in Occurrences : Offered(o) /\ ~offer[o].acked}

(* _fact: generation and fingerprint are carried from the output. *)
Fact(o) == [ref |-> o, version |-> offer[o].generation, fingerprint |-> offer[o].fingerprint]

(* unacknowledged_outputs(limit): the first Limit of them, with no cursor. *)
IsWindow(W) ==
    /\ W \subseteq Unacknowledged
    /\ \A o \in W, u \in Unacknowledged \ W : Rank[o] <= Rank[u]
    /\ \/ W = Unacknowledged /\ Cardinality(W) <= Limit
       \/ Cardinality(W) = Limit

WorkedOn(o) == \E d \in Drainers :
    \/ \E f \in todo[d] : f.ref = o
    \/ output[d] # None /\ output[d].ref = o
    \/ o \in newAcks[d]
(* An uncommitted acknowledgement holds the lock on the output's row. *)
RowLocked(o) == \E d \in Drainers : o \in newAcks[d]

Publish(o, generation, fingerprint, acked) ==
    /\ offer' = [offer EXCEPT ![o] = [generation |-> generation,
                                      fingerprint |-> fingerprint, acked |-> acked]]
    /\ UNCHANGED <<ports, committed, progress, pending, faults>>

(* generate_recurring_charge emits the first generation of an occurrence. *)
Emit(o) ==
    /\ ~Offered(o)
    /\ \E fp \in Fingerprints : Publish(o, 1, fp, FALSE)

(* The occurrence is re-rated: a new generation, offered afresh. *)
Rerate(o) ==
    /\ Offered(o) /\ offer[o].generation < MaxGeneration
    /\ ~RowLocked(o)
    /\ Disturbed("race") \/ ~WorkedOn(o)
    /\ \E fp \in Fingerprints : Publish(o, offer[o].generation + 1, fp, FALSE)

(* A publisher defect: one exact version with other content. *)
Republish(o) ==
    /\ Disturbed("republish") /\ Offered(o) /\ ~RowLocked(o)
    /\ \E fp \in Fingerprints \ {offer[o].fingerprint} :
            Publish(o, offer[o].generation, fp, offer[o].acked)

(* A person links or unlinks an account, corrects a tax decision, ... *)
Relink(o) ==
    /\ Disturbed("relink")
    /\ \E a \in Answers \ {ports[o]} : ports' = [ports EXCEPT ![o] = a]
    /\ UNCHANGED <<offer, committed, progress, pending, faults>>

(***************************************************************************)
(* What a drainer sees: committed rows and its own.  An insert that meets  *)
(* another transaction's uncommitted row of the same key, or an update of  *)
(* a row another one has updated, waits for that transaction to end.       *)
(***************************************************************************)
SeenObligations(d) == obligations \cup newObligations[d]
SeenReceipts(d) == receipts \cup newReceipts[d]

WaitsFor(d, e) ==
    /\ e # d
    /\ \/ pc[d] = "accept" /\ answer[d] \in Accounts /\ Spent(newObligations[e], output[d])
       \/ pc[d] = "append" /\ Spent(newReceipts[e], output[d])
       \/ pc[d] = "ack" /\ output[d].ref \in newAcks[e]

(* Mutation of Blocked: no unique key makes concurrent inserts wait. *)
NeverWaits(d) == FALSE

Blocked(d) == \E e \in Drainers : WaitsFor(d, e)

(* The exception reaches tenant_session: the transaction is rolled back. *)
Abort(d) ==
    /\ pc' = [pc EXCEPT ![d] = "idle"]
    /\ todo' = [todo EXCEPT ![d] = {}]
    /\ output' = [output EXCEPT ![d] = None]
    /\ answer' = [answer EXCEPT ![d] = None]
    /\ newObligations' = [newObligations EXCEPT ![d] = {}]
    /\ newReceipts' = [newReceipts EXCEPT ![d] = {}]
    /\ newAcks' = [newAcks EXCEPT ![d] = {}]
    /\ UNCHANGED <<owners, committed>>

(***************************************************************************)
(* One drain.                                                              *)
(***************************************************************************)
Begin(d) ==
    /\ pc[d] = "idle"
    /\ \E W \in SUBSET Occurrences :
        /\ IsWindow(W)
        /\ todo' = [todo EXCEPT ![d] = {Fact(o) : o \in W}]
    /\ pc' = [pc EXCEPT ![d] = "next"]
    /\ UNCHANGED <<owners, committed, output, answer, pending, faults>>

(* Mutation of IsNext: the window is taken in any order. *)
TakesAny(d, fact) == fact \in todo[d]

(* The window is taken in the order it was read. *)
IsNext(d, fact) ==
    /\ fact \in todo[d]
    /\ \A other \in todo[d] : Rank[fact.ref] <= Rank[other.ref]

(* tax_for raises while the drain builds apply_rated_obligation's arguments. *)
TaxRaises(d) ==
    /\ pc[d] = "next"
    /\ \E fact \in todo[d] : IsNext(d, fact) /\ ports[fact.ref] = "incoherent"
    /\ Abort(d)
    /\ UNCHANGED faults

(* tax_for, _fact, resolve_billing_account and to_command. *)
Evaluate(d) ==
    /\ pc[d] = "next"
    /\ \E fact \in todo[d] :
        /\ IsNext(d, fact)
        /\ ports[fact.ref] # "incoherent"
        /\ output' = [output EXCEPT ![d] = fact]
        /\ answer' = [answer EXCEPT ![d] = ports[fact.ref]]
        /\ todo' = [todo EXCEPT ![d] = @ \ {fact}]
        /\ pc' = [pc EXCEPT ![d] =
             IF ports[fact.ref] \in {"unlinked", "unmappable"} THEN "append" ELSE "accept"]
    /\ UNCHANGED <<owners, committed, pending, faults>>

(***************************************************************************)
(* The command of to_command: the version is the generation, and the       *)
(* publisher's fingerprint is not in it.  The account stands for all that  *)
(* Billing compares beside the key: a publisher that alters the amounts of *)
(* one exact version is a Republish with a Relink.                         *)
(***************************************************************************)
Command(d) == [ref |-> output[d].ref, version |-> output[d].version, account |-> answer[d]]

(* BillingRuleViolation: evidence, not an error. *)
RuleOut(d) ==
    /\ pc[d] = "accept" /\ answer[d] = "ruled_out"
    /\ pc' = [pc EXCEPT ![d] = "append"]
    /\ UNCHANGED <<owners, committed, todo, output, answer, pending, faults>>

(* Mutation of Accept: Billing commits in a transaction of its own. *)
AcceptCommitsAtOnce(d) ==
    /\ pc[d] = "accept" /\ answer[d] \in Accounts
    /\ ~Conflicts(SeenObligations(d), Command(d))
    /\ obligations' = obligations \cup {Command(d)}
    /\ pc' = [pc EXCEPT ![d] = "append"]
    /\ UNCHANGED <<owners, receipts, todo, output, answer, pending, faults>>

(* Billing writes the obligation, or replays the one it already holds. *)
Accept(d) ==
    /\ pc[d] = "accept" /\ answer[d] \in Accounts
    /\ ~Blocked(d)
    /\ ~Conflicts(SeenObligations(d), Command(d))
    /\ newObligations' = [newObligations EXCEPT ![d] = @ \cup ({Command(d)} \ obligations)]
    /\ pc' = [pc EXCEPT ![d] = "append"]
    /\ UNCHANGED <<owners, committed, todo, output, answer, newReceipts, newAcks, faults>>

(* BillingConflict is deliberately not caught. *)
BillingConflict(d) ==
    /\ pc[d] = "accept" /\ answer[d] \in Accounts
    /\ ~Blocked(d)
    /\ Conflicts(SeenObligations(d), Command(d))
    /\ Abort(d)
    /\ UNCHANGED faults

Evidence(d) == Receipt(output[d], IF answer[d] \in Accounts THEN "applied" ELSE "refused")

(* Mutation of Append: the row is inserted without execute_once. *)
AppendUnchecked(d) ==
    /\ pc[d] = "append"
    /\ newReceipts' = [newReceipts EXCEPT ![d] = @ \cup {Evidence(d)}]
    /\ pc' = [pc EXCEPT ![d] = IF answer[d] \in Accounts THEN "ack" ELSE "next"]
    /\ UNCHANGED <<owners, committed, todo, output, answer, newObligations, newAcks, faults>>

(* Mutation of Append: a refused output is acknowledged as well. *)
AppendThenAcknowledge(d) ==
    /\ pc[d] = "append"
    /\ ~Blocked(d)
    /\ ~Conflicts(SeenReceipts(d), Evidence(d))
    /\ newReceipts' = [newReceipts EXCEPT ![d] = @ \cup ({Evidence(d)} \ receipts)]
    /\ pc' = [pc EXCEPT ![d] = "ack"]
    /\ UNCHANGED <<owners, committed, todo, output, answer, newObligations, newAcks, faults>>

(* SqlAlchemyReceiptLedger.append: write once, or replay identical evidence. *)
Append(d) ==
    /\ pc[d] = "append"
    /\ ~Blocked(d)
    /\ ~Conflicts(SeenReceipts(d), Evidence(d))
    /\ newReceipts' = [newReceipts EXCEPT ![d] = @ \cup ({Evidence(d)} \ receipts)]
    /\ \/ /\ answer[d] \in Accounts
          /\ pc' = [pc EXCEPT ![d] = "ack"]
          /\ UNCHANGED <<output, answer>>
       \/ /\ answer[d] \notin Accounts
          /\ pc' = [pc EXCEPT ![d] = "next"]
          /\ output' = [output EXCEPT ![d] = None]
          /\ answer' = [answer EXCEPT ![d] = None]
    /\ UNCHANGED <<owners, committed, todo, newObligations, newAcks, faults>>

(* Mutation of AppendConflict: the conflict is taken for a routine refusal. *)
AppendConflictSwallowed(d) ==
    /\ pc[d] = "append"
    /\ ~Blocked(d)
    /\ Conflicts(SeenReceipts(d), Evidence(d))
    /\ pc' = [pc EXCEPT ![d] = "next"]
    /\ UNCHANGED <<owners, committed, todo, output, answer, pending, faults>>

(* IdempotencyConflict: the same identity with other content or outcome. *)
AppendConflict(d) ==
    /\ pc[d] = "append"
    /\ ~Blocked(d)
    /\ Conflicts(SeenReceipts(d), Evidence(d))
    /\ Abort(d)
    /\ UNCHANGED faults

(* acknowledge_output names the occurrence, not its generation. *)
Acknowledge(d) ==
    /\ pc[d] = "ack"
    /\ ~Blocked(d)
    /\ newAcks' = [newAcks EXCEPT ![d] = @ \cup {output[d].ref}]
    /\ pc' = [pc EXCEPT ![d] = "next"]
    /\ output' = [output EXCEPT ![d] = None]
    /\ answer' = [answer EXCEPT ![d] = None]
    /\ UNCHANGED <<owners, committed, todo, newObligations, newReceipts, faults>>

(* The drain returns and tenant_session commits everything it wrote. *)
Commit(d) ==
    /\ pc[d] = "next" /\ todo[d] = {}
    /\ obligations' = obligations \cup newObligations[d]
    /\ receipts' = receipts \cup newReceipts[d]
    /\ offer' = [o \in Occurrences |->
                    IF o \in newAcks[d] THEN [offer[o] EXCEPT !.acked = TRUE] ELSE offer[o]]
    /\ pc' = [pc EXCEPT ![d] = "idle"]
    /\ newObligations' = [newObligations EXCEPT ![d] = {}]
    /\ newReceipts' = [newReceipts EXCEPT ![d] = {}]
    /\ newAcks' = [newAcks EXCEPT ![d] = {}]
    /\ UNCHANGED <<ports, todo, output, answer, faults>>

(***************************************************************************)
(* The process dies, the connection breaks, or the caller's code raises    *)
(* anywhere between the first statement and the commit.                    *)
(***************************************************************************)
Fail(d) ==
    /\ pc[d] # "idle" /\ faults < MaxFaults
    /\ Abort(d)
    /\ faults' = faults + 1

(* A waiting statement fails: deadlock victim, lock timeout, lost insert race. *)
GiveUp(d) ==
    /\ Blocked(d)
    /\ Abort(d)
    /\ UNCHANGED faults

DrainStep(d) ==
    \/ TaxRaises(d) \/ Evaluate(d) \/ RuleOut(d) \/ Accept(d) \/ BillingConflict(d)
    \/ Append(d) \/ AppendConflict(d) \/ Acknowledge(d) \/ Commit(d)

Publishing == \E o \in Occurrences : Emit(o) \/ Rerate(o) \/ Republish(o) \/ Relink(o)

Next ==
    \/ Publishing
    \/ \E d \in Drainers : Begin(d) \/ DrainStep(d) \/ Fail(d) \/ GiveUp(d)

Spec == Init /\ [][Next]_vars

(***************************************************************************)
(* Callers keep draining (no scheduler is composed; whoever calls the      *)
(* adapter must).  A drain that can go on does: a lock wait is granted in  *)
(* FIFO order, so a statement that is runnable again and again runs.       *)
(***************************************************************************)
Fairness == \A d \in Drainers : WF_vars(Begin(d)) /\ SF_vars(DrainStep(d))

FairSpec == Spec /\ Fairness
-----------------------------------------------------------------------------
ReceiptedVersion(o, outcome) ==
    \E r \in receipts : Identity(r) = <<o, offer[o].generation>> /\ r.outcome = outcome

(***************************************************************************)
(* "An accepted obligation with no receipt would be unreconcilable, and a  *)
(* receipt with no obligation would claim work that never happened": what  *)
(* Billing holds and what Cloud recorded as applied are the same exact     *)
(* versions, whatever drainers overlap, fail, conflict or replay.          *)
(***************************************************************************)
ChargeMatchesEvidence == Agree(obligations, receipts)

(***************************************************************************)
(* No fact version is charged twice (to one account or to two), and none   *)
(* carries two verdicts: the hand-off key is spent once per owner even     *)
(* when two drainers have the same output in their windows.                *)
(***************************************************************************)
OneVerdictPerFact == UniqueIdentity(obligations) /\ UniqueIdentity(receipts)

(***************************************************************************)
(* Why the two above hold: an uncommitted charge and an uncommitted        *)
(* receipt back each other in what their drainer sees, except between      *)
(* Accept and Append ...                                                   *)
(***************************************************************************)
Backed(d) ==
    /\ \A b \in newObligations[d] :
          \/ Spent(Applied(SeenReceipts(d)), b)
          \/ pc[d] = "append" /\ answer[d] \in Accounts /\ b = Command(d)
    /\ \A r \in Applied(newReceipts[d]) : Spent(SeenObligations(d), r)
    /\ pc[d] = "append" /\ answer[d] \in Accounts => Command(d) \in SeenObligations(d)
PendingIsBacked == \A d \in Drainers : Backed(d)

(* ... and no key is held by two drainers, or by one that sees it spent. *)
HeldOnce(log, held) ==
    /\ \A d \in Drainers : UniqueIdentity(log \cup held[d])
    /\ \A d, e \in Drainers : d # e => \A x \in held[d] : ~Spent(held[e], x)
KeysHeldOnce == HeldOnce(obligations, newObligations) /\ HeldOnce(receipts, newReceipts)

(***************************************************************************)
(* acknowledge_output does not name a generation, so a re-rating that      *)
(* races a drain can be acknowledged uncharged.  What holds all the same:  *)
(* an acknowledged occurrence was charged, at the generation that is       *)
(* acknowledged or at an earlier one, and its charge is on record; and no  *)
(* evidence is of a generation that has yet to come.                       *)
(***************************************************************************)
AcknowledgedWasCharged == \A o \in Occurrences : offer[o].acked =>
    \E r \in receipts : r.ref = o /\ r.outcome = "applied"
                            /\ r.version <= offer[o].generation

(* Why: a drainer is never ahead of the offers, and acknowledges charges. *)
NothingAhead ==
    /\ \A r \in receipts : r.version <= offer[r.ref].generation
    /\ \A d \in Drainers : \A r \in newReceipts[d] : r.version <= offer[r.ref].generation
AcksAreBacked(d) ==
    /\ \A f \in todo[d] : f.version <= offer[f.ref].generation
    /\ pc[d] \in {"accept", "append", "ack"} =>
          output[d].version <= offer[output[d].ref].generation
    /\ pc[d] = "ack" => answer[d] \in Accounts /\ Evidence(d) \in SeenReceipts(d)
    /\ \A o \in newAcks[d] : \E r \in SeenReceipts(d) : r.ref = o /\ r.outcome = "applied"

(***************************************************************************)
(* The three invariants with what makes them inductive: uncommitted work   *)
(* of overlapping drainers is consistent with the committed tables at      *)
(* every step, so that any of them may commit or roll back next.           *)
(***************************************************************************)
IInv ==
    /\ TypeOK
    /\ ChargeMatchesEvidence
    /\ OneVerdictPerFact
    /\ PendingIsBacked
    /\ KeysHeldOnce
    /\ AcknowledgedWasCharged
    /\ NothingAhead
    /\ \A d \in Drainers : AcksAreBacked(d)

(***************************************************************************)
(* Subscriptions stops offering exactly the versions Billing was charged   *)
(* for: an acknowledgement is only written with the effect and its         *)
(* receipt, and a refused output stays offered.  Needs the assumption that *)
(* no occurrence is re-rated under a running drain ("race"), since         *)
(* acknowledge_output does not name the version it acknowledges.           *)
(***************************************************************************)
AckedIffApplied ==
    \A o \in Occurrences : offer[o].acked <=> Offered(o) /\ ReceiptedVersion(o, "applied")

(***************************************************************************)
(* Why it holds when no re-rating races a drain: what a drainer works on   *)
(* is the current generation, nothing is ahead of it, and a drainer's      *)
(* acknowledgements are the charges it sees.                               *)
(***************************************************************************)
IsCurrent(fact) == Offered(fact.ref) /\ fact.version = offer[fact.ref].generation
AcksMatch(d) ==
    /\ \A f \in todo[d] : IsCurrent(f)
    /\ output[d] # None => IsCurrent(output[d])
    /\ pc[d] = "ack" => answer[d] \in Accounts /\ Evidence(d) \in SeenReceipts(d)
    /\ \A o \in newAcks[d] : Offered(o) /\ \E r \in SeenReceipts(d) :
          Identity(r) = <<o, offer[o].generation>> /\ r.outcome = "applied"
    /\ \A r \in newReceipts[d] : r.outcome = "applied" =>
          /\ r.version = offer[r.ref].generation
          /\ r.ref \in newAcks[d] \/ (pc[d] = "ack" /\ output[d].ref = r.ref)
AckInv == AckedIffApplied /\ NothingAhead /\ \A d \in Drainers : AcksMatch(d)

(***************************************************************************)
(* Between transactions nobody can tell the drains from HandoffPromise: a  *)
(* batch is settled in one step, whatever interleaving produced it.  Needs *)
(* the same assumption as AckedIffApplied.                                 *)
(***************************************************************************)
Promise == INSTANCE HandoffPromise
KeepsThePromise == Promise!Spec

(***************************************************************************)
(* To everyone who reads receipts, reconcile included, the drains are the  *)
(* ledger ReceiptStore implements as well: whole batches of new evidence,  *)
(* one receipt per exact fact, nothing ever changed.                       *)
(***************************************************************************)
Ledger == INSTANCE ReceiptLedger WITH
    Tenants <- {"tenant"}, ledger <- [t \in {"tenant"} |-> receipts]
KeepsTheLedger == Ledger!Spec

(***************************************************************************)
(* Drainers that read outputs in one total order never wait in a cycle, so *)
(* PostgreSQL never has to kill one of them as a deadlock victim: the      *)
(* locks of a drain are taken in the order of its window.                  *)
(***************************************************************************)
NoWaitCycle ==
    \A S \in (SUBSET Drainers) \ {{}} : \E d \in S : \A e \in S : ~WaitsFor(d, e)

(***************************************************************************)
(* Why it holds: the rows a drainer has locked are behind the output it    *)
(* works on, and that one is behind what is left of its window.            *)
(***************************************************************************)
Held(d) == {b.ref : b \in newObligations[d]} \cup {r.ref : r \in newReceipts[d]} \cup newAcks[d]
InOrder(d) ==
    /\ \A f, g \in todo[d] : f.ref = g.ref => f = g
    /\ \A o \in Held(d), f \in todo[d] : Rank[o] < Rank[f.ref]
    /\ pc[d] = "idle" => Held(d) = {}
    /\ pc[d] \in {"idle", "next"} => output[d] = None
    /\ output[d] # None =>
        /\ \A f \in todo[d] : Rank[output[d].ref] < Rank[f.ref]
        /\ \A o \in Held(d) : o = output[d].ref \/ Rank[o] < Rank[output[d].ref]
        /\ output[d].ref \notin newAcks[d]
        /\ pc[d] # "ack" => \A r \in newReceipts[d] : r.ref # output[d].ref
        /\ pc[d] = "accept" => \A b \in newObligations[d] : b.ref # output[d].ref
LocksInOrder == \A d \in Drainers : InOrder(d)

(***************************************************************************)
(* Every offered output ends handed over: charged and acknowledged when    *)
(* its account is linked, recorded as refused when it is not, through      *)
(* overlapping drains, failures and re-ratings.                            *)
(***************************************************************************)
Handed(o) ==
    IF ports[o] \in Accounts THEN offer[o].acked ELSE ReceiptedVersion(o, "refused")
EveryOfferIsHandedOver == \A o \in Occurrences : Offered(o) ~> Handed(o)

(***************************************************************************)
(* A refused output "remains visible for repair" (ADR-0004): once its      *)
(* account is linked for good, a later drain charges it.                   *)
(***************************************************************************)
RefusedOutputIsRepairable ==
    \A o \in Occurrences :
        <>[](Offered(o) /\ ports[o] \in Accounts) => <>(Offered(o) /\ offer[o].acked)

(***************************************************************************)
(* "Zero tax without a reason, non-zero tax without applied snapshots, and *)
(* a currency mismatch are all refused", with a receipt (ARCHITECTURE.md). *)
(***************************************************************************)
IncoherentTaxIsRefused ==
    \A o \in Occurrences :
        <>[](Offered(o) /\ ports[o] = "incoherent") => <>ReceiptedVersion(o, "refused")
=============================================================================
