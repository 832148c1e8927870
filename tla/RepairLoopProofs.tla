--------------------------- MODULE RepairLoopProofs ---------------------------
(***************************************************************************)
(* Proofs about RepairLoop for any number of keys, versions, auditors and  *)
(* deliveries.  reconcile looks at the newest receipt only; the proofs     *)
(* turn its verdicts into statements about all of the evidence, which is   *)
(* what a ledger that only grows preserves.                                *)
(***************************************************************************)
EXTENDS RepairLoop, TLAPS

USE RepairAssumption

(***************************************************************************)
(* What reconcile's verdicts say of a whole log.                           *)
(***************************************************************************)
LEMMA NewestIs ==
    ASSUME NEW log, NEW key
    PROVE  Newest(log, key) =
              IF Of(log, key) = {} THEN None
              ELSE CHOOSE r \in Of(log, key) : IsNewest(log, r)
  BY DEF Newest, Of, IsNewest, Reconcile!Newest, Reconcile!Of, Reconcile!IsNewest

LEMMA JudgeIs ==
    ASSUME NEW fact, NEW log
    PROVE  Judge(fact, log) = Reconcile!Verdict(fact, Newest(log, fact.ref))
  BY DEF Judge, Newest, Reconcile!Judge

LEMMA NewestIsNewest ==
    ASSUME NEW log \in SUBSET Receipts, HasNewest(log), NEW key
    PROVE  /\ Of(log, key) = {} => Newest(log, key) = None
           /\ Of(log, key) # {} =>
                /\ Newest(log, key) \in Of(log, key) /\ Newest(log, key) # None
                /\ IsNewest(log, Newest(log, key))
  <1>1. ASSUME Of(log, key) # {}
        PROVE  \E n \in Of(log, key) : IsNewest(log, n)
    <2>1. PICK r \in Of(log, key) : TRUE
      BY <1>1
    <2>2. r \in log /\ r.ref = key
      BY <2>1 DEF Of
    <2> QED  BY <2>2 DEF HasNewest
  <1>2. ASSUME Of(log, key) # {}
        PROVE  Newest(log, key) \in Of(log, key) /\ IsNewest(log, Newest(log, key))
    <2>1. Newest(log, key) = CHOOSE r \in Of(log, key) : IsNewest(log, r)
      BY <1>2, NewestIs
    <2> QED  BY <1>1, <1>2, <2>1
  <1>3. \A r \in Of(log, key) : r # None
    BY DEF Of
  <1>4. Of(log, key) = {} => Newest(log, key) = None
    BY NewestIs
  <1> QED  BY <1>2, <1>3, <1>4

(* The fields of what is compared. *)
LEMMA Fields ==
    /\ \A r \in Receipts : /\ r.ref \in Keys /\ r.version \in Nat
                           /\ r.fingerprint \in Fingerprints
    /\ \A f \in Facts : /\ f.ref \in Keys /\ f.version \in Nat
                        /\ f.fingerprint \in Fingerprints /\ f # None
  BY DEF Receipts, Facts

LEMMA SettledIsSettledBy ==
    ASSUME NEW log \in SUBSET Receipts, UniqueIdentity(log), HasNewest(log),
           NEW fact \in Facts
    PROVE  Judge(fact, log) = "settled" <=> SettledBy(log, fact)
  <1> DEFINE n == Newest(log, fact.ref)
  <1>1. CASE Of(log, fact.ref) = {}
    <2>1. n = None
      BY <1>1, NewestIsNewest
    <2> QED  BY <1>1, <2>1, JudgeIs DEF Reconcile!Verdict, SettledBy
  <1>2. CASE Of(log, fact.ref) # {}
    <2>1. n \in Of(log, fact.ref) /\ n # None /\ IsNewest(log, n)
      BY <1>2, NewestIsNewest
    <2> HIDE DEF n
    <2>2. n \in log /\ n \in Receipts /\ n.ref = fact.ref
      BY <2>1 DEF Of
    <2>3. \A r \in Of(log, fact.ref) :
             /\ r.version <= n.version
             /\ r.version = n.version => r = n
      BY <2>1, <2>2 DEF IsNewest, Of, UniqueIdentity, SameIdentity, Identity
    <2>4. Judge(fact, log) = "settled" <=>
             \/ n.version > fact.version
             \/ n.version = fact.version /\ n.fingerprint = fact.fingerprint
      BY <2>1, <2>2, Fields, JudgeIs DEF Reconcile!Verdict, n
    <2>5. \A r \in Of(log, fact.ref) : r \in Receipts
      BY DEF Of
    <2> QED  BY <2>1, <2>2, <2>3, <2>4, <2>5, Fields DEF SettledBy
  <1> QED  BY <1>1, <1>2

(* A receipt of the very version, with other content, and none newer. *)
Contradicted(log, fact) ==
    /\ \A r \in Of(log, fact.ref) : r.version <= fact.version
    /\ \E r \in Of(log, fact.ref) :
          r.version = fact.version /\ r.fingerprint # fact.fingerprint

LEMMA DivergentIsContradicted ==
    ASSUME NEW log \in SUBSET Receipts, UniqueIdentity(log), HasNewest(log),
           NEW fact \in Facts
    PROVE  Judge(fact, log) = "divergent" <=> Contradicted(log, fact)
  <1> DEFINE n == Newest(log, fact.ref)
  <1>1. CASE Of(log, fact.ref) = {}
    <2>1. n = None
      BY <1>1, NewestIsNewest
    <2> QED  BY <1>1, <2>1, JudgeIs DEF Reconcile!Verdict, Contradicted
  <1>2. CASE Of(log, fact.ref) # {}
    <2>1. n \in Of(log, fact.ref) /\ n # None /\ IsNewest(log, n)
      BY <1>2, NewestIsNewest
    <2> HIDE DEF n
    <2>2. n \in log /\ n \in Receipts /\ n.ref = fact.ref
      BY <2>1 DEF Of
    <2>3. \A r \in Of(log, fact.ref) :
             /\ r.version <= n.version
             /\ r.version = n.version => r = n
      BY <2>1, <2>2 DEF IsNewest, Of, UniqueIdentity, SameIdentity, Identity
    <2>4. Judge(fact, log) = "divergent" <=>
             n.version = fact.version /\ n.fingerprint # fact.fingerprint
      BY <2>1, <2>2, Fields, JudgeIs DEF Reconcile!Verdict, n
    <2>5. \A r \in Of(log, fact.ref) : r \in Receipts
      BY DEF Of
    <2> QED  BY <2>1, <2>2, <2>3, <2>4, <2>5, Fields DEF Contradicted
  <1> QED  BY <1>1, <1>2

(* What settled a fact settles it in every larger log. *)
LEMMA SettledGrows ==
    ASSUME NEW log, NEW larger, log \subseteq larger, NEW fact, SettledBy(log, fact)
    PROVE  SettledBy(larger, fact)
  BY DEF SettledBy, Of
-----------------------------------------------------------------------------
(* New evidence keeps a log one receipt per fact, each key with a newest.  *)
LEMMA AddKeepsNewest ==
    ASSUME NEW log \in SUBSET Receipts, HasNewest(log), NEW rc \in Receipts
    PROVE  HasNewest(log \cup {rc})
  <1> DEFINE larger == log \cup {rc}
  <1> SUFFICES ASSUME NEW r \in larger
               PROVE  \E n \in Of(larger, r.ref) : IsNewest(larger, n)
    BY DEF HasNewest
  <1>1. CASE r.ref # rc.ref
    <2>1. r \in log /\ Of(larger, r.ref) = Of(log, r.ref)
      BY <1>1 DEF Of
    <2>2. PICK n \in Of(log, r.ref) : IsNewest(log, n)
      BY <2>1 DEF HasNewest
    <2>3. n.ref = r.ref
      BY <2>2 DEF Of
    <2> QED  BY <2>1, <2>2, <2>3 DEF IsNewest
  <1>2. CASE r.ref = rc.ref /\ Of(log, rc.ref) = {}
    <2>1. Of(larger, r.ref) = {rc}
      BY <1>2 DEF Of
    <2>2. rc.version <= rc.version /\ rc \in larger
      BY Fields
    <2>3. IsNewest(larger, rc)
      BY <1>2, <2>1, <2>2 DEF IsNewest
    <2> QED  BY <2>1, <2>3
  <1>3. CASE r.ref = rc.ref /\ Of(log, rc.ref) # {}
    <2>1. PICK old \in log : old.ref = rc.ref
      BY <1>3 DEF Of
    <2>2. PICK n \in Of(log, rc.ref) : IsNewest(log, n)
      BY <2>1 DEF HasNewest
    <2>3. n \in Receipts /\ n.ref = rc.ref /\ n \in larger
      BY <2>2 DEF Of
    <2>4. \A other \in Of(larger, rc.ref) :
             other \in Receipts /\ (other = rc \/ other.version <= n.version)
      BY <2>2, <2>3 DEF Of, IsNewest
    <2>5. CASE rc.version > n.version
      <3>1. rc \in Of(larger, rc.ref)
        BY DEF Of
      <3>2. \A other \in Of(larger, rc.ref) : other.version <= rc.version
        BY <2>3, <2>4, <2>5, Fields
      <3> QED  BY <1>3, <3>1, <3>2 DEF IsNewest
    <2>6. CASE ~(rc.version > n.version)
      <3>1. n \in Of(larger, rc.ref)
        BY <2>3 DEF Of
      <3>2. \A other \in Of(larger, rc.ref) : other.version <= n.version
        BY <2>3, <2>4, <2>6, Fields
      <3> QED  BY <1>3, <2>3, <3>1, <3>2 DEF IsNewest
    <2> QED  BY <2>5, <2>6
  <1> QED  BY <1>1, <1>2, <1>3

LEMMA AddKeepsUnique ==
    ASSUME NEW log, UniqueIdentity(log), NEW rc, ~Conflicts(log, rc)
    PROVE  UniqueIdentity(log \cup {rc})
  BY DEF UniqueIdentity, Conflicts, SameIdentity

LEMMA ReceiptType ==
    ASSUME NEW fact \in Facts, NEW outcome \in Outcomes
    PROVE  Receipt(fact, outcome) \in Receipts
  BY DEF Receipt, Receipts, Facts

(* A delivery adds at most one receipt, of what was delivered. *)
LEMMA RecordAdds ==
    ASSUME ledger \in SUBSET Receipts, IsFaithful(ledger), outputs \in SUBSET Facts,
           NEW fact \in outputs, NEW outcome \in Outcomes, Record(fact, outcome),
           UNCHANGED outputs
    PROVE  /\ ledger' \in SUBSET Receipts
           /\ ledger \subseteq ledger'
           /\ \A r \in ledger' : r \in ledger \/ r = Receipt(fact, outcome)
           /\ IsFaithful(ledger)'
  <1> DEFINE rc == Receipt(fact, outcome)
  <1>1. rc \in Receipts
    BY ReceiptType
  <1>2. CASE Conflicts(ledger, rc)
    BY <1>2 DEF Record, IsFaithful, UniqueIdentity, HasNewest, IsNewest, Of
  <1>3. CASE ~Conflicts(ledger, rc)
    <2>1. ledger' = ledger \cup {rc}
      BY <1>3 DEF Record
    <2>2. UniqueIdentity(ledger') /\ HasNewest(ledger')
      BY <1>1, <1>3, <2>1, AddKeepsUnique, AddKeepsNewest DEF IsFaithful
    <2>3. \A r \in ledger' : \E f \in outputs' : r \in {Receipt(f, o) : o \in Outcomes}
      BY <2>1 DEF IsFaithful
    <2> QED  BY <1>1, <2>1, <2>2, <2>3 DEF IsFaithful
  <1> QED  BY <1>2, <1>3
-----------------------------------------------------------------------------
LEMMA RefType == \A f \in Facts : f.ref \in Keys /\ f.version \in 1..MaxVersion
  BY DEF Facts

(* What the owner says becomes current and stays among the outputs. *)
LEMMA SayKeeps ==
    ASSUME TypeOK, OwnerMovesOn, NEW fact \in Facts, Say(fact),
           current[fact.ref] # None => current[fact.ref].version <= fact.version
    PROVE  /\ current' \in [Keys -> Facts \cup {None}]
           /\ outputs' \subseteq Facts
           /\ OwnerMovesOn'
  <1>1. /\ current' = [current EXCEPT ![fact.ref] = fact]
        /\ outputs' = outputs \cup {fact}
    BY DEF Say
  <1>2. fact.ref \in Keys /\ fact # None /\ fact.version \in Nat
    BY Fields
  <1>3. /\ current'[fact.ref] = fact
        /\ \A k \in Keys \ {fact.ref} : current'[k] = current[k]
    BY <1>1, <1>2 DEF TypeOK
  <1>4. ASSUME NEW f \in outputs'
        PROVE  current'[f.ref] # None /\ f.version <= current'[f.ref].version
    <2>1. CASE f = fact
      BY <1>2, <1>3, <2>1
    <2>2. CASE f # fact
      <3>1. f \in outputs /\ f \in Facts
        BY <1>1, <2>2 DEF TypeOK
      <3>2. current[f.ref] # None /\ f.version <= current[f.ref].version /\ f.ref \in Keys
        BY <3>1, Fields DEF OwnerMovesOn
      <3>3. current[f.ref] \in Facts
        BY <3>2 DEF TypeOK
      <3>4. CASE f.ref = fact.ref
        BY <1>2, <1>3, <3>1, <3>2, <3>3, <3>4, Fields
      <3>5. CASE f.ref # fact.ref
        BY <1>3, <3>2, <3>5
      <3> QED  BY <3>4, <3>5
    <2> QED  BY <2>1, <2>2
  <1>5. ASSUME NEW k \in Keys, current'[k] # None
        PROVE  current'[k] \in outputs' /\ current'[k].ref = k
    BY <1>1, <1>3, <1>5 DEF OwnerMovesOn
  <1> QED  BY <1>1, <1>2, <1>4, <1>5 DEF TypeOK, OwnerMovesOn

LEMMA PublishSays ==
    ASSUME TypeOK, OwnerMovesOn, NEW k \in Keys, Publish(k) \/ Republish(k)
    PROVE  \E fact \in Facts :
              /\ Say(fact)
              /\ current[fact.ref] # None => current[fact.ref].version <= fact.version
  <1>1. CASE Publish(k)
    <2>1. PICK fp \in Fingerprints :
             Say([ref |-> k, version |-> Version(k) + 1, fingerprint |-> fp])
      BY <1>1 DEF Publish
    <2>2. Version(k) \in Nat /\ Version(k) < MaxVersion
      BY <1>1, Fields DEF Publish, Version, TypeOK
    <2>3. Version(k) + 1 \in 1..MaxVersion
      BY <2>2
    <2>4. current[k] # None => current[k].version <= Version(k) + 1
      BY <2>2 DEF Version
    <2> QED  BY <2>1, <2>3, <2>4 DEF Facts
  <1>2. CASE Republish(k)
    <2>1. PICK fp \in Fingerprints : Say([current[k] EXCEPT !.fingerprint = fp])
      BY <1>2 DEF Republish
    <2> DEFINE fact == [current[k] EXCEPT !.fingerprint = fp]
    <2>2. current[k] \in Facts /\ current[k].ref = k
      BY <1>2 DEF Republish, TypeOK, OwnerMovesOn
    <2>3. fact \in Facts /\ fact.ref = k /\ fact.version = current[k].version
      BY <2>2 DEF Facts
    <2>4. current[k].version <= fact.version
      BY <2>2, <2>3, Fields
    <2> HIDE DEF fact
    <2> QED  BY <2>1, <2>3, <2>4 DEF fact
  <1> QED  BY <1>1, <1>2

(* What an audit concludes. *)
LEMMA AuditConcludes ==
    ASSUME IInv, NEW a \in Auditors, Audit(a)
    PROVE  /\ verdicts' = [verdicts EXCEPT ![a] = Judgement(published[a], received[a])]
           /\ repair' = [repair EXCEPT
                            ![a] = Repairable(Judgement(published[a], received[a]))]
           /\ Judgement(published[a], received[a]) \subseteq Judged
           /\ Repairable(Judgement(published[a], received[a])) \subseteq published[a]
           /\ \A j \in Judgement(published[a], received[a]) :
                 /\ j.fact \in published[a] /\ j.fact \in Facts
                 /\ j.verdict = Judge(j.fact, received[a])
  <1>1. published[a] \subseteq Facts
    BY DEF IInv, TypeOK
  <1>2. \A f \in published[a] : Judge(f, received[a]) \in Reconcile!Verdicts
    BY JudgeIs DEF Reconcile!Verdict, Reconcile!Verdicts
  <1>3. \A j \in Judgement(published[a], received[a]) :
           /\ j \in Judged
           /\ j.fact \in published[a] /\ j.fact \in Facts
           /\ j.verdict = Judge(j.fact, received[a])
    BY <1>1, <1>2 DEF Judgement, Judged
  <1>4. Repairable(Judgement(published[a], received[a])) \subseteq published[a]
    BY <1>3 DEF Repairable
  <1> QED  BY <1>3, <1>4 DEF Audit

LEMMA InitInv == Init => IInv
  BY DEF Init, IInv, TypeOK, OwnerMovesOn, IsFaithful, UniqueIdentity, HasNewest,
         AuditorsReadEvidence, SettledStaysSettled, DivergentMeansDefect

(* A step is the owner's, a delivery, or an auditor's own. *)
LEMMA StepForms ==
    ASSUME IInv, [Next]_vars
    PROVE  \/ /\ \E fact \in Facts :
                    /\ Say(fact)
                    /\ current[fact.ref] # None => current[fact.ref].version <= fact.version
              /\ UNCHANGED <<ledger, audits>>
           \/ /\ \E fact \in outputs, outcome \in Outcomes : Record(fact, outcome)
              /\ UNCHANGED <<current, outputs, have, published, received, verdicts>>
              /\ \/ UNCHANGED repair
                 \/ \E a \in Auditors, fact \in Facts :
                       repair' = [repair EXCEPT ![a] = @ \ {fact}]
           \/ /\ UNCHANGED <<current, outputs, ledger>>
              /\ \/ \E a \in Auditors : ReadPublished(a) \/ ReadReceipts(a) \/ Audit(a)
                 \/ \E a \in Auditors, fact \in Facts : Lose(a, fact)
                 \/ UNCHANGED audits
  <1>1. CASE UNCHANGED vars
    BY <1>1 DEF vars, audits
  <1>2. ASSUME NEW k \in Keys, Publish(k) \/ Republish(k)
        PROVE  \E fact \in Facts :
                    /\ Say(fact)
                    /\ current[fact.ref] # None => current[fact.ref].version <= fact.version
    BY <1>2, PublishSays DEF IInv
  <1>3. ASSUME NEW k \in Keys, Publish(k) \/ Republish(k)
        PROVE  UNCHANGED <<ledger, audits>>
    BY <1>3 DEF Publish, Republish, Say
  <1>4. ASSUME NEW fact \in Facts, Deliver(fact)
        PROVE  /\ \E f \in outputs, outcome \in Outcomes : Record(f, outcome)
               /\ UNCHANGED <<current, outputs, audits>>
    BY <1>4 DEF Deliver
  <1>5. ASSUME NEW a \in Auditors, NEW fact \in Facts, Redeliver(a, fact)
        PROVE  /\ \E f \in outputs, outcome \in Outcomes : Record(f, outcome)
               /\ UNCHANGED <<current, outputs, have, published, received, verdicts>>
               /\ repair' = [repair EXCEPT ![a] = @ \ {fact}]
    BY <1>5 DEF Redeliver, IInv, AuditorsReadEvidence
  <1>6. ASSUME NEW a \in Auditors, ReadPublished(a) \/ ReadReceipts(a) \/ Audit(a)
        PROVE  UNCHANGED <<current, outputs, ledger>>
    BY <1>6 DEF ReadPublished, ReadReceipts, Audit
  <1>7. ASSUME NEW a \in Auditors, NEW fact \in Facts, Lose(a, fact)
        PROVE  UNCHANGED <<current, outputs, ledger>>
    BY <1>7 DEF Lose
  <1> QED  BY <1>1, <1>2, <1>3, <1>4, <1>5, <1>6, <1>7 DEF Next, audits

LEMMA StepType == IInv /\ [Next]_vars => TypeOK' /\ OwnerMovesOn'
  <1> SUFFICES ASSUME IInv, [Next]_vars PROVE TypeOK' /\ OwnerMovesOn'
    OBVIOUS
  <1>1. ASSUME NEW fact \in Facts, Say(fact), UNCHANGED <<ledger, audits>>,
               current[fact.ref] # None => current[fact.ref].version <= fact.version
        PROVE  TypeOK' /\ OwnerMovesOn'
    <2>1. /\ current' \in [Keys -> Facts \cup {None}] /\ outputs' \subseteq Facts
          /\ OwnerMovesOn'
      BY <1>1, SayKeeps DEF IInv
    <2> QED  BY <1>1, <2>1 DEF IInv, TypeOK, audits
  <1>2. ASSUME NEW fact \in outputs, NEW outcome \in Outcomes, Record(fact, outcome),
               UNCHANGED <<current, outputs, have, published, received, verdicts>>,
               \/ UNCHANGED repair
               \/ \E a \in Auditors, f \in Facts : repair' = [repair EXCEPT ![a] = @ \ {f}]
        PROVE  TypeOK' /\ OwnerMovesOn'
    <2>1. ledger' \in SUBSET Receipts
      BY <1>2, RecordAdds DEF IInv, TypeOK
    <2>2. repair' \in [Auditors -> SUBSET Facts]
      BY <1>2 DEF IInv, TypeOK
    <2> QED  BY <1>2, <2>1, <2>2 DEF IInv, TypeOK, OwnerMovesOn
  <1>3. ASSUME UNCHANGED <<current, outputs, ledger>>,
               NEW a \in Auditors, ReadPublished(a) \/ ReadReceipts(a) \/ Audit(a)
        PROVE  TypeOK' /\ OwnerMovesOn'
    <2>1. CASE ReadPublished(a)
      BY <1>3, <2>1 DEF ReadPublished, IInv, TypeOK, OwnerMovesOn
    <2>2. CASE ReadReceipts(a)
      BY <1>3, <2>2 DEF ReadReceipts, IInv, TypeOK, OwnerMovesOn
    <2>3. CASE Audit(a)
      <3>1. verdicts' \in [Auditors -> SUBSET Judged]
        BY <2>3, AuditConcludes DEF IInv, TypeOK
      <3>2. repair' \in [Auditors -> SUBSET Facts]
        BY <2>3, AuditConcludes DEF IInv, TypeOK
      <3>3. /\ have' \in [Auditors -> SUBSET {"published", "received"}]
            /\ published' \in [Auditors -> SUBSET Facts]
            /\ received' \in [Auditors -> SUBSET Receipts]
        BY <2>3 DEF Audit, IInv, TypeOK
      <3> QED  BY <1>3, <3>1, <3>2, <3>3 DEF IInv, TypeOK, OwnerMovesOn
    <2> QED  BY <1>3, <2>1, <2>2, <2>3
  <1>4. ASSUME UNCHANGED <<current, outputs, ledger>>,
               NEW a \in Auditors, NEW fact \in Facts, Lose(a, fact)
        PROVE  TypeOK' /\ OwnerMovesOn'
    BY <1>4 DEF Lose, IInv, TypeOK, OwnerMovesOn
  <1>5. ASSUME UNCHANGED <<current, outputs, ledger>>, UNCHANGED audits
        PROVE  TypeOK' /\ OwnerMovesOn'
    BY <1>5 DEF audits, IInv, TypeOK, OwnerMovesOn
  <1> QED  BY <1>1, <1>2, <1>3, <1>4, <1>5, StepForms
-----------------------------------------------------------------------------
(* The evidence grows, by receipts of outputs only. *)
LEMMA StepEvidence ==
    ASSUME IInv, [Next]_vars
    PROVE  /\ outputs \subseteq outputs'
           /\ ledger \subseteq ledger'
           /\ ledger' \in SUBSET Receipts
           /\ IsFaithful(ledger)'
           /\ \A r \in ledger' : r \in ledger
                 \/ \E f \in outputs, o \in Outcomes : r = Receipt(f, o)
  <1>1. ASSUME NEW fact \in Facts, Say(fact), UNCHANGED ledger
        PROVE  outputs \subseteq outputs' /\ IsFaithful(ledger)'
    <2>1. outputs \subseteq outputs'
      BY <1>1 DEF Say
    <2>2. IsFaithful(ledger)
      BY DEF IInv
    <2>3. UniqueIdentity(ledger') /\ HasNewest(ledger')
      BY <1>1, <2>2 DEF IsFaithful
    <2>4. \A r \in ledger' : \E f \in outputs' : r \in {Receipt(f, o) : o \in Outcomes}
      BY <1>1, <2>1, <2>2 DEF IsFaithful
    <2> QED  BY <2>1, <2>3, <2>4 DEF IsFaithful
  <1>2. ASSUME NEW fact \in outputs, NEW outcome \in Outcomes, Record(fact, outcome),
               UNCHANGED outputs
        PROVE  /\ ledger' \in SUBSET Receipts /\ ledger \subseteq ledger'
               /\ \A r \in ledger' : r \in ledger \/ r = Receipt(fact, outcome)
               /\ IsFaithful(ledger)'
    <2>1. ledger \in SUBSET Receipts /\ IsFaithful(ledger) /\ outputs \in SUBSET Facts
      BY DEF IInv, TypeOK
    <2> QED  BY <1>2, <2>1, RecordAdds
  <1>3. ASSUME UNCHANGED <<outputs, ledger>>
        PROVE  IsFaithful(ledger)'
    <2>1. UniqueIdentity(ledger') /\ HasNewest(ledger')
      BY <1>3 DEF IInv, IsFaithful
    <2> QED  BY <1>3, <2>1 DEF IInv, IsFaithful
  <1>4. ledger \in SUBSET Receipts
    BY DEF IInv, TypeOK
  <1> QED  BY <1>1, <1>2, <1>3, <1>4, StepForms

LEMMA StepReads == IInv /\ [Next]_vars => AuditorsReadEvidence'
  <1> SUFFICES ASSUME IInv, [Next]_vars, NEW b \in Auditors
               PROVE  /\ published'[b] \subseteq outputs' /\ repair'[b] \subseteq outputs'
                      /\ received'[b] \subseteq ledger' /\ IsFaithful(received[b])'
    BY DEF AuditorsReadEvidence
  <1>1. /\ published[b] \subseteq outputs /\ repair[b] \subseteq outputs
        /\ received[b] \subseteq ledger /\ IsFaithful(received[b])
    BY DEF IInv, AuditorsReadEvidence
  <1>2. outputs \subseteq outputs' /\ ledger \subseteq ledger'
    BY StepEvidence
  <1>3. ASSUME NEW log, IsFaithful(log), received'[b] = log
        PROVE  IsFaithful(received[b])'
    <2>1. UniqueIdentity(received'[b]) /\ HasNewest(received'[b])
      BY <1>3 DEF IsFaithful
    <2>2. \A r \in received'[b] : \E f \in outputs' : r \in {Receipt(f, o) : o \in Outcomes}
      BY <1>2, <1>3 DEF IsFaithful
    <2> QED  BY <2>1, <2>2 DEF IsFaithful
  <1>4. IsFaithful(ledger) /\ IsFaithful({})
    BY DEF IInv, IsFaithful, UniqueIdentity, HasNewest
  <1>5. /\ published \in [Auditors -> SUBSET Facts]
        /\ received \in [Auditors -> SUBSET Receipts]
        /\ repair \in [Auditors -> SUBSET Facts]
    BY DEF IInv, TypeOK
  <1>6. CASE UNCHANGED audits
    BY <1>1, <1>2, <1>3, <1>6 DEF audits
  <1>7. CASE /\ UNCHANGED <<published, received>>
             /\ \E a \in Auditors, fact \in Facts : repair' = [repair EXCEPT ![a] = @ \ {fact}]
    <2>1. repair'[b] \subseteq repair[b]
      BY <1>5, <1>7
    <2> QED  BY <1>1, <1>2, <1>3, <1>7, <2>1
  <1>8. ASSUME NEW a \in Auditors, ReadPublished(a)
        PROVE  /\ published'[b] \subseteq outputs' /\ repair'[b] \subseteq outputs'
               /\ received'[b] \subseteq ledger' /\ IsFaithful(received[b])'
    <2>1. published'[b] \subseteq outputs
      BY <1>1, <1>5, <1>8 DEF ReadPublished, IsRead
    <2>2. UNCHANGED <<received, repair>>
      BY <1>8 DEF ReadPublished
    <2> QED  BY <1>1, <1>2, <1>3, <2>1, <2>2
  <1>9. ASSUME NEW a \in Auditors, ReadReceipts(a)
        PROVE  /\ published'[b] \subseteq outputs' /\ repair'[b] \subseteq outputs'
               /\ received'[b] \subseteq ledger' /\ IsFaithful(received[b])'
    <2>1. received'[b] = ledger \/ received'[b] = received[b]
      BY <1>5, <1>9 DEF ReadReceipts
    <2>2. UNCHANGED <<published, repair>>
      BY <1>9 DEF ReadReceipts
    <2> QED  BY <1>1, <1>2, <1>3, <1>4, <2>1, <2>2
  <1>10. ASSUME NEW a \in Auditors, Audit(a)
         PROVE  /\ published'[b] \subseteq outputs' /\ repair'[b] \subseteq outputs'
                /\ received'[b] \subseteq ledger' /\ IsFaithful(received[b])'
    <2>1. published'[b] \subseteq published[b]
      BY <1>5, <1>10 DEF Audit
    <2>2. repair'[b] \subseteq repair[b] \/ repair'[b] \subseteq published[b]
      BY <1>5, <1>10, AuditConcludes
    <2>3. received'[b] = {} \/ received'[b] = received[b]
      BY <1>5, <1>10 DEF Audit
    <2> QED  BY <1>1, <1>2, <1>3, <1>4, <2>1, <2>2, <2>3
  <1>11. ASSUME NEW a \in Auditors, NEW fact \in Facts, Lose(a, fact)
         PROVE  /\ UNCHANGED <<published, received>>
                /\ repair' = [repair EXCEPT ![a] = @ \ {fact}]
    BY <1>11 DEF Lose
  <1> QED  BY <1>6, <1>7, <1>8, <1>9, <1>10, <1>11, StepForms DEF audits

(* A verdict is an old one, or one an audit has just given. *)
LEMMA VerdictsCome ==
    ASSUME IInv, [Next]_vars, NEW b \in Auditors, NEW j \in verdicts'[b]
    PROVE  \/ j \in verdicts[b]
           \/ /\ j.fact \in published[b] /\ j.fact \in Facts
              /\ j.verdict = Judge(j.fact, received[b])
  <1>1. verdicts \in [Auditors -> SUBSET Judged]
    BY DEF IInv, TypeOK
  <1>2. ASSUME NEW a \in Auditors, Audit(a)
        PROVE  \/ j \in verdicts[b]
               \/ /\ j.fact \in published[b] /\ j.fact \in Facts
                  /\ j.verdict = Judge(j.fact, received[b])
    <2>1. CASE a = b
      <3>1. j \in Judgement(published[b], received[b])
        BY <1>1, <1>2, <2>1, AuditConcludes
      <3> QED  BY <1>2, <2>1, <3>1, AuditConcludes
    <2>2. CASE a # b
      BY <1>1, <1>2, <2>2, AuditConcludes
    <2> QED  BY <2>1, <2>2
  <1>3. ASSUME NEW a \in Auditors, ReadPublished(a) \/ ReadReceipts(a)
        PROVE  UNCHANGED verdicts
    BY <1>3 DEF ReadPublished, ReadReceipts
  <1>4. ASSUME NEW a \in Auditors, NEW fact \in Facts, Lose(a, fact)
        PROVE  UNCHANGED verdicts
    BY <1>4 DEF Lose
  <1> QED  BY <1>2, <1>3, <1>4, StepForms DEF audits

LEMMA StepSettled == IInv /\ [Next]_vars => SettledStaysSettled'
  <1> SUFFICES ASSUME IInv, [Next]_vars, NEW b \in Auditors, NEW j \in verdicts'[b],
                      j.verdict = "settled"
               PROVE  Judge(j.fact, ledger') = "settled"
    <2>1. (\A b \in Auditors : \A j \in verdicts'[b] :
              j.verdict = "settled" => Judge(j.fact, ledger') = "settled")
          => SettledStaysSettled'
      BY DEF SettledStaysSettled, Judge, Reconcile!Judge, Reconcile!Newest,
                Reconcile!Of, Reconcile!IsNewest, Reconcile!Verdict
    <2> QED  BY <2>1
  <1>1. /\ ledger \in SUBSET Receipts /\ UniqueIdentity(ledger) /\ HasNewest(ledger)
        /\ ledger' \in SUBSET Receipts /\ ledger \subseteq ledger'
    BY StepEvidence DEF IInv, TypeOK, IsFaithful
  <1>2. UniqueIdentity(ledger') /\ HasNewest(ledger')
    BY StepEvidence DEF IsFaithful
  <1>3. j.fact \in Facts /\ SettledBy(ledger, j.fact)
    <2>1. CASE j \in verdicts[b]
      <3>1. j.fact \in Facts /\ Judge(j.fact, ledger) = "settled"
        BY <2>1 DEF IInv, TypeOK, Judged, SettledStaysSettled
      <3> QED  BY <1>1, <3>1, SettledIsSettledBy
    <2>2. CASE /\ j.fact \in published[b] /\ j.fact \in Facts
               /\ j.verdict = Judge(j.fact, received[b])
      <3>1. /\ received[b] \in SUBSET Receipts /\ received[b] \subseteq ledger
            /\ UniqueIdentity(received[b]) /\ HasNewest(received[b])
        BY DEF IInv, TypeOK, AuditorsReadEvidence, IsFaithful
      <3>2. SettledBy(received[b], j.fact)
        BY <2>2, <3>1, SettledIsSettledBy
      <3> QED  BY <2>2, <3>1, <3>2, SettledGrows
    <2> QED  BY <2>1, <2>2, VerdictsCome
  <1>4. SettledBy(ledger', j.fact)
    BY <1>1, <1>3, SettledGrows
  <1> QED  BY <1>1, <1>2, <1>3, <1>4, SettledIsSettledBy

LEMMA StepDivergent == IInv /\ [Next]_vars => DivergentMeansDefect'
  <1> SUFFICES ASSUME IInv, [Next]_vars, NEW b \in Auditors, NEW j \in verdicts'[b],
                      j.verdict = "divergent"
               PROVE  \E f, g \in outputs' :
                         SameIdentity(f, g) /\ f # g /\ f.ref = j.fact.ref
    BY DEF DivergentMeansDefect
  <1>1. outputs \subseteq outputs'
    BY StepEvidence
  <1>2. \E f, g \in outputs : SameIdentity(f, g) /\ f # g /\ f.ref = j.fact.ref
    <2>1. CASE j \in verdicts[b]
      BY <2>1 DEF IInv, DivergentMeansDefect
    <2>2. CASE /\ j.fact \in published[b] /\ j.fact \in Facts
               /\ j.verdict = Judge(j.fact, received[b])
      <3>1. /\ received[b] \in SUBSET Receipts
            /\ UniqueIdentity(received[b]) /\ HasNewest(received[b])
            /\ published[b] \subseteq outputs
        BY DEF IInv, TypeOK, AuditorsReadEvidence, IsFaithful
      <3>2. PICK r \in Of(received[b], j.fact.ref) :
               r.version = j.fact.version /\ r.fingerprint # j.fact.fingerprint
        BY <2>2, <3>1, DivergentIsContradicted DEF Contradicted
      <3>3. r \in received[b] /\ r.ref = j.fact.ref
        BY DEF Of
      <3>4. PICK g \in outputs : r \in {Receipt(g, o) : o \in Outcomes}
        BY <3>3 DEF IInv, AuditorsReadEvidence, IsFaithful
      <3>5. /\ g.ref = r.ref /\ g.version = r.version
            /\ g.fingerprint = r.fingerprint
        BY <3>4 DEF Receipt
      <3>6. SameIdentity(j.fact, g) /\ j.fact # g
        BY <3>2, <3>3, <3>5 DEF SameIdentity, Identity
      <3> QED  BY <2>2, <3>1, <3>6
    <2> QED  BY <2>1, <2>2, VerdictsCome
  <1> QED  BY <1>1, <1>2

LEMMA StepInv == IInv /\ [Next]_vars => IInv'
  BY StepType, StepEvidence, StepReads, StepSettled, StepDivergent DEF IInv

(***************************************************************************)
(* The inductive invariant of the repair loop: evidence only grows, and    *)
(* everything an auditor holds goes back to what the owner gave out.       *)
(***************************************************************************)
THEOREM Invariance == Spec => []IInv
  BY InitInv, StepInv, PTL DEF Spec

(* The repair loop keeps its types. *)
THEOREM TypeCorrect == Spec => []TypeOK
  <1>1. IInv => TypeOK
    BY DEF IInv
  <1> QED  BY <1>1, Invariance, PTL

(* No delivery and no repair reopens what a report has called settled. *)
THEOREM SettledForGood == Spec => []SettledStaysSettled
  <1>1. IInv => SettledStaysSettled
    BY DEF IInv
  <1> QED  BY <1>1, Invariance, PTL

(* Divergence is never the doing of lag, loss, repetition or reordering. *)
THEOREM DivergenceIsADefect == Spec => []DivergentMeansDefect
  <1>1. IInv => DivergentMeansDefect
    BY DEF IInv
  <1> QED  BY <1>1, Invariance, PTL

(***************************************************************************)
(* The receipt that contradicts the owner's current fact stays, and        *)
(* nothing the owner has given out is newer.                               *)
(***************************************************************************)
LEMMA StepNeverHeals ==
    ASSUME IInv, [Next]_vars, NEW k \in Keys, Divergent(k), UNCHANGED current
    PROVE  Divergent(k)'
  <1> DEFINE fact == current[k]
  <1>1. fact \in Facts /\ fact # None /\ fact.ref = k
    BY DEF IInv, TypeOK, OwnerMovesOn, Divergent
  <1>2. /\ ledger \in SUBSET Receipts /\ UniqueIdentity(ledger) /\ HasNewest(ledger)
        /\ ledger' \in SUBSET Receipts /\ ledger \subseteq ledger'
        /\ UniqueIdentity(ledger') /\ HasNewest(ledger')
    <2>1. UniqueIdentity(ledger') /\ HasNewest(ledger')
      BY StepEvidence DEF IsFaithful
    <2> QED  BY <2>1, StepEvidence DEF IInv, TypeOK, IsFaithful
  <1>3. Contradicted(ledger, fact)
    BY <1>1, <1>2, DivergentIsContradicted DEF Divergent
  <1>4. ASSUME NEW r \in Of(ledger', fact.ref)
        PROVE  r.version <= fact.version
    <2>1. r \in ledger' /\ r.ref = k
      BY <1>1 DEF Of
    <2>2. CASE r \in ledger
      BY <1>1, <1>3, <2>1, <2>2 DEF Contradicted, Of
    <2>3. CASE \E f \in outputs, o \in Outcomes : r = Receipt(f, o)
      <3>1. PICK f \in outputs : f.ref = k /\ f.version = r.version
        BY <2>1, <2>3 DEF Receipt
      <3> QED  BY <3>1 DEF IInv, OwnerMovesOn
    <2> QED  BY <2>1, <2>2, <2>3, StepEvidence
  <1>5. Contradicted(ledger', fact)
    BY <1>2, <1>3, <1>4 DEF Contradicted, Of
  <1>6. Judge(fact, ledger') = "divergent"
    BY <1>1, <1>2, <1>5, DivergentIsContradicted
  <1> QED  BY <1>1, <1>6 DEF Divergent, Judge, Reconcile!Judge,
               Reconcile!Newest, Reconcile!Of, Reconcile!IsNewest, Reconcile!Verdict

(* Divergence never heals while the owner says the same. *)
THEOREM NeverHeals == Spec => DivergenceNeverHeals
  <1>1. IInv /\ [Next]_vars =>
            [\A k \in Keys : Divergent(k) /\ UNCHANGED current => Divergent(k)']_vars
    BY StepNeverHeals
  <1> QED  BY <1>1, Invariance, PTL DEF Spec, DivergenceNeverHeals
-----------------------------------------------------------------------------
(* A delivery appends one receipt of a fact that had none, or nothing. *)
LEMMA RecordAppends ==
    ASSUME IInv, NEW fact \in Facts, NEW outcome \in Outcomes, Record(fact, outcome)
    PROVE  Ledger!Next \/ ledger' = ledger
  <1> DEFINE rc == Receipt(fact, outcome)
  <1>1. rc \in Receipts
    BY ReceiptType
  <1>2. CASE Conflicts(ledger, rc) \/ rc \in ledger
    BY <1>2 DEF Record
  <1>3. CASE ~(Conflicts(ledger, rc) \/ rc \in ledger)
    <2>1. ledger' = ledger \cup {rc} /\ ~Spent(ledger, rc)
      BY <1>3 DEF Record, Conflicts, Spent
    <2> HIDE DEF rc
    <2>2. Ledger!UniqueIdentity({rc})
      BY DEF Ledger!UniqueIdentity
    <2>3. \A r \in {rc} : ~Ledger!Spent(ledger, r)
      BY <2>1 DEF Spent, Ledger!Spent, SameIdentity, Identity,
                  Ledger!SameIdentity, Ledger!Identity
    <2>4. Ledger!Append("tenant", {rc})
      BY <2>1, <2>2, <2>3 DEF Ledger!Append
    <2> QED  BY <1>1, <2>4 DEF Ledger!Next
  <1> QED  BY <1>2, <1>3

(***************************************************************************)
(* The evidence of the loop is the append-only ledger ReceiptStore and     *)
(* RatedHandoff implement: what holds of its audits holds over theirs.     *)
(***************************************************************************)
THEOREM LedgerRefinement == Spec => KeepsTheLedger
  <1>1. Init => Ledger!Init
    BY DEF Init, Ledger!Init
  <1>2. IInv /\ [Next]_vars => [Ledger!Next]_([t \in {"tenant"} |-> ledger])
    <2> SUFFICES ASSUME IInv, [Next]_vars PROVE Ledger!Next \/ ledger' = ledger
      OBVIOUS
    <2>1. \/ ledger' = ledger
          \/ \E fact \in Facts, outcome \in Outcomes : Record(fact, outcome)
      BY DEF vars, Next, Publish, Republish, Say, Deliver, ReadPublished, ReadReceipts,
             Audit, Redeliver, Lose
    <2> QED  BY <2>1, RecordAppends
  <1> QED  BY <1>1, <1>2, Invariance, PTL DEF Spec, KeepsTheLedger, Ledger!Spec
=============================================================================
