---------------------------- MODULE HandoffPromise ----------------------------
(***************************************************************************)
(* What the hand-off promises to anyone who reads the three owners' tables *)
(* between transactions: ADR-0004, "acceptance, receipt, and Subscriptions *)
(* acknowledgement share the caller's transaction" and "a refused output   *)
(* is not acknowledged".  No drainer, no pending write and no port appears *)
(* here: a batch of exact facts is settled in one step, each fact once and *)
(* for good.                                                               *)
(***************************************************************************)
EXTENDS ReceiptEvidence

CONSTANTS Occurrences, Fingerprints, None

VARIABLES
    offer,         \* the current output of each occurrence
    obligations,   \* what Billing was charged with
    receipts       \* what Cloud recorded

vars == <<offer, obligations, receipts>>

Init ==
    /\ offer = [o \in Occurrences |-> [generation |-> 0, fingerprint |-> None, acked |-> FALSE]]
    /\ obligations = {}
    /\ receipts = {}

(* Subscriptions advances one occurrence, or alters what it says of it. *)
Publish(o) ==
    /\ \E fp \in Fingerprints :
        \/ offer' = [offer EXCEPT ![o] = [generation |-> @.generation + 1,
                                         fingerprint |-> fp, acked |-> FALSE]]
        \/ offer[o].generation > 0 /\ offer' = [offer EXCEPT ![o].fingerprint = fp]
    /\ UNCHANGED <<obligations, receipts>>

Fresh(facts) == \A f \in facts : ~Spent(receipts, f) /\ ~Spent(obligations, f)

(***************************************************************************)
(* A batch: every charge with its evidence and its acknowledgement, every  *)
(* refusal with its evidence and nothing else.  What is charged is what is *)
(* offered now; a refusal may be of a version that has been superseded.    *)
(***************************************************************************)
Settle ==
    LET charges == obligations' \ obligations
        evidence == receipts' \ receipts
    IN  /\ obligations \subseteq obligations' /\ receipts \subseteq receipts'
        /\ Fresh(charges) /\ Fresh(evidence)
        /\ \A c \in charges : c.version = offer[c.ref].generation
        /\ \A r \in evidence : r.ref \in Occurrences /\ r.version \in 1..offer[r.ref].generation
        /\ Agree(charges, evidence)
        /\ UniqueIdentity(charges) /\ UniqueIdentity(evidence)
        /\ offer' = [o \in Occurrences |-> [offer[o] EXCEPT !.acked =
                @ \/ \E c \in charges : c.ref = o]]

Next == Settle \/ \E o \in Occurrences : Publish(o)

Spec == Init /\ [][Next]_vars
=============================================================================
