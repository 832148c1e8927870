--------------------------- MODULE ReceiptEvidence ---------------------------
(***************************************************************************)
(* What Cloud writes down about a hand-off, and how the at-most-once       *)
(* ledger compares it: SourceFact and AdapterReceipt of receipts.py, and   *)
(* the key and fingerprint receipt_store.py spends in execute_once.        *)
(*                                                                         *)
(* A fact is a record with a reference (FactKey; one owner and one adapter *)
(* are in play, so both are left out), a version and the publisher's own   *)
(* fingerprint.  A receipt is a fact with an outcome.  observed_at is part *)
(* of neither the key nor the fingerprint, so it is left out as well.      *)
(***************************************************************************)
EXTENDS Naturals

Outcomes == {"applied", "refused"}

Receipt(fact, outcome) ==
    [ref |-> fact.ref, version |-> fact.version,
     fingerprint |-> fact.fingerprint, outcome |-> outcome]

(* _identity_key: the version is part of the key, content and outcome are not. *)
Identity(entry) == <<entry.ref, entry.version>>

SameIdentity(x, y) == Identity(x) = Identity(y)

(* The key of entry is spent in log. *)
Spent(log, entry) == \E seen \in log : SameIdentity(seen, entry)

(* Mutation of Conflicts: identical evidence is refused instead of replayed. *)
ReplayConflicts(log, entry) == Spent(log, entry)

(***************************************************************************)
(* The key is spent on something else: IdempotencyConflict.  An entry is   *)
(* its key and what its handled fingerprint digests, so two entries of one *)
(* key differ exactly when their fingerprints do.                          *)
(***************************************************************************)
Conflicts(log, entry) == \E seen \in log : SameIdentity(seen, entry) /\ seen # entry

(***************************************************************************)
(* What was charged and what is recorded as applied are the same exact     *)
(* versions.  A charge has a key like a receipt's, and no fingerprint of   *)
(* the publisher's.                                                        *)
(***************************************************************************)
Applied(log) == {r \in log : r.outcome = "applied"}
Agree(charges, log) ==
    /\ \A c \in charges : Spent(Applied(log), c)
    /\ \A r \in Applied(log) : Spent(charges, r)

(* No key is spent twice in log. *)
UniqueIdentity(log) == \A x, y \in log : SameIdentity(x, y) => x = y

(* The evidence of one subject, and the latest of it. *)
Of(log, key) == {r \in log : r.ref = key}

IsNewest(log, r) ==
    r \in log /\ \A other \in Of(log, r.ref) : other.version <= r.version
=============================================================================
