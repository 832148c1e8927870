---------------------------- MODULE ReceiptLedger ----------------------------
(***************************************************************************)
(* What the receipt ledger promises (the ReceiptLedger protocol of         *)
(* receipts.py, "durable append-only receipt store"): a step adds new      *)
(* evidence of one tenant, all of it at once, one entry per exact fact.    *)
(* Nothing is ever changed or taken away.                                  *)
(***************************************************************************)
EXTENDS ReceiptEvidence

CONSTANTS Tenants, Receipts

VARIABLE ledger   \* the evidence of each tenant

Init == ledger = [t \in Tenants |-> {}]

Append(t, evidence) ==
    /\ UniqueIdentity(evidence)
    /\ \A r \in evidence : ~Spent(ledger[t], r)
    /\ ledger' = [ledger EXCEPT ![t] = @ \cup evidence]

Next == \E t \in Tenants, evidence \in SUBSET Receipts : Append(t, evidence)

Spec == Init /\ [][Next]_ledger
-----------------------------------------------------------------------------
(* What a reader of the evidence, reconcile above all, may rely on: one    *)
(* verdict per exact fact, and what was read once is there for good.       *)
OneEntryPerFact == \A t \in Tenants : UniqueIdentity(ledger[t])
AppendOnly == [][\A t \in Tenants : ledger[t] \subseteq ledger'[t]]_ledger
=============================================================================
