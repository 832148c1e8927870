----------------------------- MODULE MCReconcile -----------------------------
(* All short inputs over a few facts, valid ledgers and corrupted ones. *)
EXTENDS Reconcile

CONSTANTS MaxVersion, MaxPublished, MaxReceived

BoundedFacts == [ref : Keys, version : 1..MaxVersion, fingerprint : Fingerprints]
BoundedReceipts == {Receipt(f, o) : f \in BoundedFacts, o \in {"applied"}}
    \cup {Receipt(f, "refused") : f \in [ref : Keys, version : {1}, fingerprint : Fingerprints]}

SeqsUpTo(S, n) == UNION {[1..m -> S] : m \in 0..n}
AllPublished == SeqsUpTo(BoundedFacts, MaxPublished)
AllReceived == SeqsUpTo(BoundedReceipts, MaxReceived)
=============================================================================
