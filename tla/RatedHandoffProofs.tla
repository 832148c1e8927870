-------------------------- MODULE RatedHandoffProofs --------------------------
(***************************************************************************)
(* Proofs about RatedHandoff for every value of its constants: any number  *)
(* of occurrences, accounts and drainers, any read order, any window.      *)
(***************************************************************************)
EXTENDS RatedHandoff, TLAPS, FiniteSetTheorems

(* A receipt of a fact is a receipt record, with the fact's key. *)
LEMMA ReceiptType ==
    ASSUME NEW fact \in Facts, NEW outcome \in Outcomes
    PROVE  /\ Receipt(fact, outcome) \in Receipts
           /\ Identity(Receipt(fact, outcome)) = Identity(fact)
  BY DEF Facts, Receipts, Receipt, Outcomes, Identity

(* What is spent, and what is applied, stays so in a log that grows. *)
LEMMA SpentGrows ==
    ASSUME NEW log, NEW more, log \subseteq more, NEW entry, Spent(log, entry)
    PROVE  Spent(more, entry)
  BY DEF Spent

LEMMA AppliedUnion ==
    ASSUME NEW log, NEW more
    PROVE  Applied(log \cup more) = Applied(log) \cup Applied(more)
  BY DEF Applied

(* At the accept step the command is an obligation. *)
LEMMA CommandType ==
    ASSUME NEW d \in Drainers, output[d] \in Facts, answer[d] \in Accounts
    PROVE  Command(d) \in Obligations
  BY DEF Command, Facts, Obligations

(* What an offered occurrence publishes is a fact. *)
LEMMA FactType ==
    ASSUME TypeOK, NEW o \in Occurrences, Offered(o)
    PROVE  Fact(o) \in Facts
  <1>1. /\ offer[o].generation \in 1..MaxGeneration
        /\ offer[o].fingerprint \in Fingerprints
    BY ConstantsAssumption DEF TypeOK, Offered
  <1> QED  BY <1>1 DEF Fact, Facts

(***************************************************************************)
(* Type correctness, one step per action.                                  *)
(***************************************************************************)
LEMMA InitType == Init => TypeOK
  BY ConstantsAssumption DEF Init, TypeOK

LEMMA AbortType ==
    ASSUME TypeOK, NEW d \in Drainers, Abort(d), faults' \in 0..MaxFaults
    PROVE  TypeOK'
  BY DEF TypeOK, Abort, owners, committed

LEMMA PublishType ==
    ASSUME TypeOK, NEW o \in Occurrences, NEW g \in 1..MaxGeneration,
           NEW fp \in Fingerprints, NEW a \in BOOLEAN, Publish(o, g, fp, a)
    PROVE  TypeOK'
  <1>1. offer' \in [Occurrences -> [generation : 0..MaxGeneration,
                                    fingerprint : Fingerprints \cup {None},
                                    acked : BOOLEAN]]
    BY DEF TypeOK, Publish
  <1>2. \A p \in Occurrences : offer'[p].generation > 0 => offer'[p].fingerprint \in Fingerprints
    BY DEF TypeOK, Publish
  <1> QED  BY <1>1, <1>2 DEF TypeOK, Publish, committed, progress, pending

LEMMA StepType == TypeOK /\ [Next]_vars => TypeOK'
  <1> SUFFICES ASSUME TypeOK, [Next]_vars PROVE TypeOK'
    OBVIOUS
  <1> USE ConstantsAssumption
  <1>1. CASE UNCHANGED vars
    BY <1>1 DEF TypeOK, vars
  <1>2. ASSUME NEW o \in Occurrences, Emit(o) PROVE TypeOK'
    <2>1. 1 \in 1..MaxGeneration /\ FALSE \in BOOLEAN
      OBVIOUS
    <2> QED  BY <1>2, <2>1, PublishType DEF Emit
  <1>3. ASSUME NEW o \in Occurrences, Rerate(o) PROVE TypeOK'
    <2>1. offer[o].generation + 1 \in 1..MaxGeneration
      BY <1>3 DEF Rerate, Offered, TypeOK
    <2> QED  BY <1>3, <2>1, PublishType DEF Rerate
  <1>4. ASSUME NEW o \in Occurrences, Republish(o) PROVE TypeOK'
    <2>1. offer[o].generation \in 1..MaxGeneration /\ offer[o].acked \in BOOLEAN
      BY <1>4 DEF Republish, Offered, TypeOK
    <2> QED  BY <1>4, <2>1, PublishType DEF Republish
  <1>5. ASSUME NEW o \in Occurrences, Relink(o) PROVE TypeOK'
    BY <1>5 DEF Relink, TypeOK, committed, progress, pending
  <1>6. ASSUME NEW d \in Drainers, Begin(d) PROVE TypeOK'
    <2>1. \A o \in Unacknowledged : Fact(o) \in Facts
      BY FactType DEF Unacknowledged
    <2>2. todo' \in [Drainers -> SUBSET Facts]
      BY <1>6, <2>1 DEF Begin, IsWindow, TypeOK
    <2> QED  BY <1>6, <2>2 DEF Begin, TypeOK, owners, committed, pending
  <1>7. ASSUME NEW d \in Drainers, Evaluate(d) PROVE TypeOK'
    <2>1. PICK fact \in todo[d] :
            /\ output' = [output EXCEPT ![d] = fact]
            /\ answer' = [answer EXCEPT ![d] = ports[fact.ref]]
            /\ todo' = [todo EXCEPT ![d] = @ \ {fact}]
            /\ pc' = [pc EXCEPT ![d] = IF ports[fact.ref] \in {"unlinked", "unmappable"}
                                       THEN "append" ELSE "accept"]
      BY <1>7 DEF Evaluate
    <2>2. fact \in Facts /\ ports[fact.ref] \in Answers
      BY DEF TypeOK, Facts
    <2> QED  BY <1>7, <2>1, <2>2 DEF Evaluate, TypeOK, owners, committed, pending
  <1>8. ASSUME NEW d \in Drainers, RuleOut(d) PROVE TypeOK'
    BY <1>8 DEF RuleOut, TypeOK, owners, committed, pending
  <1>9. ASSUME NEW d \in Drainers, Accept(d) PROVE TypeOK'
    <2>1. Command(d) \in Obligations
      BY <1>9, CommandType DEF Accept, TypeOK
    <2> QED  BY <1>9, <2>1 DEF Accept, TypeOK, owners, committed
  <1>10. ASSUME NEW d \in Drainers, Append(d) PROVE TypeOK'
    <2>1. Evidence(d) \in Receipts
      BY <1>10, ReceiptType DEF Append, TypeOK, Evidence, Outcomes
    <2> QED  BY <1>10, <2>1 DEF Append, TypeOK, owners, committed
  <1>11. ASSUME NEW d \in Drainers, Acknowledge(d) PROVE TypeOK'
    <2>1. output[d].ref \in Occurrences
      BY <1>11 DEF Acknowledge, TypeOK, Facts
    <2> QED  BY <1>11, <2>1 DEF Acknowledge, TypeOK, owners, committed
  <1>12. ASSUME NEW d \in Drainers, Commit(d) PROVE TypeOK'
    <2>1. offer' \in [Occurrences -> [generation : 0..MaxGeneration,
                                      fingerprint : Fingerprints \cup {None},
                                      acked : BOOLEAN]]
      <3> DEFINE Outputs == [generation : 0..MaxGeneration,
                             fingerprint : Fingerprints \cup {None}, acked : BOOLEAN]
      <3>1. \A o \in Occurrences : offer[o] \in Outputs
        BY DEF TypeOK
      <3>2. \A o \in Occurrences : [offer[o] EXCEPT !.acked = TRUE] \in Outputs
        BY <3>1
      <3>3. offer' = [o \in Occurrences |-> IF o \in newAcks[d]
                        THEN [offer[o] EXCEPT !.acked = TRUE] ELSE offer[o]]
        BY <1>12 DEF Commit
      <3> HIDE DEF Outputs
      <3>4. offer' \in [Occurrences -> Outputs]
        BY <3>1, <3>2, <3>3
      <3> QED  BY <3>4 DEF Outputs
    <2>2. \A o \in Occurrences : /\ offer'[o].generation = offer[o].generation
                                 /\ offer'[o].fingerprint = offer[o].fingerprint
      BY <1>12 DEF Commit, TypeOK
    <2> QED  BY <1>12, <2>1, <2>2 DEF Commit, TypeOK
  <1>13. ASSUME NEW d \in Drainers,
                TaxRaises(d) \/ BillingConflict(d) \/ AppendConflict(d) \/ GiveUp(d)
         PROVE  TypeOK'
    BY <1>13, AbortType DEF TaxRaises, BillingConflict, AppendConflict, GiveUp, TypeOK
  <1>14. ASSUME NEW d \in Drainers, Fail(d) PROVE TypeOK'
    <2>1. faults' \in 0..MaxFaults
      BY <1>14 DEF Fail, TypeOK
    <2> QED  BY <1>14, <2>1, AbortType DEF Fail
  <1> QED
    BY <1>1, <1>2, <1>3, <1>4, <1>5, <1>6, <1>7, <1>8, <1>9, <1>10, <1>11, <1>12,
       <1>13, <1>14 DEF Next, Publishing, DrainStep

(* Every variable keeps its type, in every state of every behaviour. *)
THEOREM TypeCorrect == Spec => []TypeOK
  BY InitType, StepType, PTL DEF Spec
-----------------------------------------------------------------------------
(***************************************************************************)
(* Charges and evidence.  A drainer that does not move stays backed when   *)
(* the committed tables grow; one that rolls back has nothing to back.     *)
(***************************************************************************)
LEMMA StillBacked ==
    ASSUME NEW e \in Drainers, Backed(e),
           obligations \subseteq obligations', receipts \subseteq receipts',
           UNCHANGED <<pc[e], output[e], answer[e], newObligations[e], newReceipts[e]>>
    PROVE  Backed(e)'
  <1>1. /\ SeenObligations(e) \subseteq SeenObligations(e)'
        /\ SeenReceipts(e) \subseteq SeenReceipts(e)'
        /\ Command(e)' = Command(e)
    BY DEF SeenObligations, SeenReceipts, Command
  <1>2. Applied(SeenReceipts(e)) \subseteq Applied(SeenReceipts(e))'
    BY <1>1 DEF Applied
  <1> QED  BY <1>1, <1>2, SpentGrows DEF Backed

LEMMA NothingPendingIsBacked ==
    ASSUME NEW d \in Drainers, newObligations'[d] = {}, newReceipts'[d] = {}, pc'[d] = "idle"
    PROVE  Backed(d)'
  BY DEF Backed, Applied

(* A step that writes nothing and does not leave Accept for Append. *)
LEMMA MovedIsBacked ==
    ASSUME NEW d \in Drainers, Backed(d), pc[d] # "append",
           pc'[d] = "append" => answer'[d] \notin Accounts,
           UNCHANGED <<obligations, receipts, newObligations[d], newReceipts[d]>>
    PROVE  Backed(d)'
  BY DEF Backed, SeenObligations, SeenReceipts, Applied

LEMMA AbortBacked ==
    ASSUME TypeOK, ChargeMatchesEvidence, PendingIsBacked, NEW d \in Drainers, Abort(d)
    PROVE  ChargeMatchesEvidence' /\ PendingIsBacked'
  <1>1. ChargeMatchesEvidence'
    BY DEF Abort, committed, ChargeMatchesEvidence
  <1>2. ASSUME NEW e \in Drainers PROVE Backed(e)'
    <2>1. CASE e = d
      BY <2>1, NothingPendingIsBacked DEF Abort, TypeOK
    <2>2. CASE e # d
      BY <2>2, StillBacked DEF Abort, TypeOK, committed, PendingIsBacked
    <2> QED  BY <2>1, <2>2
  <1> QED  BY <1>1, <1>2 DEF PendingIsBacked

LEMMA InitBacked == Init => ChargeMatchesEvidence /\ PendingIsBacked
  BY DEF Init, ChargeMatchesEvidence, Agree, Applied, PendingIsBacked, Backed

LEMMA AcceptBacked ==
    ASSUME TypeOK, ChargeMatchesEvidence, PendingIsBacked, NEW d \in Drainers, Accept(d)
    PROVE  ChargeMatchesEvidence' /\ PendingIsBacked'
  <1>1. ChargeMatchesEvidence'
    BY DEF Accept, committed, ChargeMatchesEvidence
  <1>2. ASSUME NEW e \in Drainers, e # d PROVE Backed(e)'
    BY <1>2, StillBacked DEF Accept, TypeOK, committed, PendingIsBacked
  <1>3. Backed(d)'
    <2>1. /\ newObligations'[d] = newObligations[d] \cup ({Command(d)} \ obligations)
          /\ UNCHANGED <<obligations, receipts, newReceipts, answer, output>>
          /\ pc'[d] = "append" /\ answer[d] \in Accounts /\ pc[d] # "append"
      BY DEF Accept, TypeOK, committed
    <2>2. Command(d)' = Command(d)
      BY <2>1 DEF Command
    <2>3. Command(d) \in SeenObligations(d)'
      BY <2>1 DEF SeenObligations
    <2>4. /\ SeenReceipts(d)' = SeenReceipts(d)
          /\ SeenObligations(d) \subseteq SeenObligations(d)'
      BY <2>1 DEF SeenReceipts, SeenObligations
    <2>5. Backed(d)
      BY DEF PendingIsBacked
    <2>6. \A b \in newObligations'[d] :
             Spent(Applied(SeenReceipts(d)), b) \/ b = Command(d)
      BY <2>1, <2>5 DEF Backed
    <2>7. \A r \in Applied(newReceipts[d]) : Spent(SeenObligations(d)', r)
      BY <2>4, <2>5, SpentGrows DEF Backed
    <2> QED
      BY <2>1, <2>2, <2>3, <2>4, <2>6, <2>7 DEF Backed
  <1> QED  BY <1>1, <1>2, <1>3 DEF PendingIsBacked

LEMMA AppendBacked ==
    ASSUME TypeOK, ChargeMatchesEvidence, PendingIsBacked, NEW d \in Drainers, Append(d)
    PROVE  ChargeMatchesEvidence' /\ PendingIsBacked'
  <1>1. ChargeMatchesEvidence'
    BY DEF Append, committed, ChargeMatchesEvidence
  <1>2. ASSUME NEW e \in Drainers, e # d PROVE Backed(e)'
    BY <1>2, StillBacked DEF Append, TypeOK, committed, PendingIsBacked
  <1>3. Backed(d)'
    <2>1. /\ newReceipts'[d] = newReceipts[d] \cup ({Evidence(d)} \ receipts)
          /\ UNCHANGED <<obligations, receipts, newObligations>>
          /\ pc'[d] # "append" /\ pc[d] = "append"
      BY DEF Append, TypeOK, committed
    <2>2. SeenReceipts(d)' = SeenReceipts(d) \cup {Evidence(d)}
      BY <2>1 DEF SeenReceipts
    <2>3. Backed(d)
      BY DEF PendingIsBacked
    <2>4. Applied(SeenReceipts(d)) \subseteq Applied(SeenReceipts(d)')
      BY <2>2 DEF Applied
    <2>5. SeenObligations(d)' = SeenObligations(d)
      BY <2>1 DEF SeenObligations
    <2>6. CASE answer[d] \in Accounts
      <3>1. SameIdentity(Evidence(d), Command(d)) /\ SameIdentity(Command(d), Evidence(d))
        BY DEF Command, Evidence, Receipt, SameIdentity, Identity
      <3>2. Evidence(d).outcome = "applied"
        BY <2>6 DEF Evidence, Receipt
      <3>3. Command(d) \in SeenObligations(d)
        BY <2>1, <2>6, <2>3 DEF Backed
      <3>4. \A b \in newObligations[d] : Spent(Applied(SeenReceipts(d)'), b)
        <4>1. Evidence(d) \in Applied(SeenReceipts(d)')
          BY <2>2, <3>2 DEF Applied
        <4>2. Spent(Applied(SeenReceipts(d)'), Command(d))
          BY <3>1, <4>1 DEF Spent
        <4> QED  BY <2>3, <2>4, <4>2, SpentGrows DEF Backed
      <3>5. \A r \in Applied(newReceipts'[d]) : Spent(SeenObligations(d), r)
        <4>1. Spent(SeenObligations(d), Evidence(d))
          BY <3>1, <3>3 DEF Spent
        <4>2. \A r \in Applied(newReceipts'[d]) :
                 r = Evidence(d) \/ r \in Applied(newReceipts[d])
          BY <2>1 DEF Applied
        <4> QED  BY <2>3, <4>1, <4>2 DEF Backed
      <3> QED
        BY <2>1, <2>5, <3>4, <3>5 DEF Backed
    <2>7. CASE answer[d] \notin Accounts
      <3>1. Evidence(d).outcome = "refused"
        BY <2>7 DEF Evidence, Receipt
      <3>2. \A r \in Applied(newReceipts'[d]) : r \in Applied(newReceipts[d])
        BY <2>1, <3>1 DEF Applied
      <3>3. \A b \in newObligations[d] : Spent(Applied(SeenReceipts(d)'), b)
        BY <2>7, <2>3, <2>4, SpentGrows DEF Backed
      <3> QED
        BY <2>1, <2>3, <2>5, <3>2, <3>3 DEF Backed
    <2> QED  BY <2>6, <2>7
  <1> QED  BY <1>1, <1>2, <1>3 DEF PendingIsBacked

(* What a drainer commits is backed by what it commits or by what was there. *)
LEMMA CommitBacked ==
    ASSUME TypeOK, ChargeMatchesEvidence, PendingIsBacked, NEW d \in Drainers, Commit(d)
    PROVE  ChargeMatchesEvidence' /\ PendingIsBacked'
  <1>1. ChargeMatchesEvidence'
    <2>1. Backed(d) /\ pc[d] # "append"
      BY DEF Commit, PendingIsBacked
    <2>2. obligations' = SeenObligations(d) /\ receipts' = SeenReceipts(d)
      BY DEF Commit, SeenObligations, SeenReceipts
    <2>3. Applied(SeenReceipts(d)) = Applied(receipts) \cup Applied(newReceipts[d])
      BY AppliedUnion DEF SeenReceipts
    <2>4. \A b \in SeenObligations(d) : Spent(Applied(SeenReceipts(d)), b)
      <3>1. \A b \in obligations : Spent(Applied(SeenReceipts(d)), b)
        BY <2>3, SpentGrows DEF ChargeMatchesEvidence, Agree
      <3> QED  BY <2>1, <3>1 DEF Backed, SeenObligations
    <2>5. \A r \in Applied(SeenReceipts(d)) : Spent(SeenObligations(d), r)
      <3>1. \A r \in Applied(receipts) : Spent(SeenObligations(d), r)
        BY SpentGrows DEF ChargeMatchesEvidence, Agree, SeenObligations
      <3> QED  BY <2>1, <2>3, <3>1 DEF Backed
    <2> QED
      BY <2>2, <2>4, <2>5 DEF ChargeMatchesEvidence, Agree
  <1>2. ASSUME NEW e \in Drainers PROVE Backed(e)'
    <2>1. CASE e = d
      BY <2>1, NothingPendingIsBacked DEF Commit, TypeOK
    <2>2. CASE e # d
      BY <2>2, StillBacked DEF Commit, TypeOK, PendingIsBacked
    <2> QED  BY <2>1, <2>2
  <1> QED  BY <1>1, <1>2 DEF PendingIsBacked

LEMMA StepBacked ==
    TypeOK /\ ChargeMatchesEvidence /\ PendingIsBacked /\ [Next]_vars
        => ChargeMatchesEvidence' /\ PendingIsBacked'
  <1> SUFFICES ASSUME TypeOK, ChargeMatchesEvidence, PendingIsBacked, [Next]_vars
               PROVE  ChargeMatchesEvidence' /\ PendingIsBacked'
    OBVIOUS
  <1> DEFINE Quiet == UNCHANGED <<committed, progress, pending>>
  <1>1. ASSUME Quiet PROVE ChargeMatchesEvidence' /\ PendingIsBacked'
    <2>1. ChargeMatchesEvidence'
      BY <1>1 DEF committed, ChargeMatchesEvidence
    <2>2. PendingIsBacked'
      BY <1>1, StillBacked DEF committed, progress, pending, PendingIsBacked
    <2> QED  BY <2>1, <2>2
  <1>2. CASE UNCHANGED vars
    BY <1>1, <1>2 DEF vars, committed, progress, pending
  <1>3. CASE Publishing
    BY <1>1, <1>3 DEF Publishing, Emit, Rerate, Republish, Relink, Publish
  <1>4. ASSUME NEW d \in Drainers,
               Begin(d) \/ Evaluate(d) \/ RuleOut(d) \/ Acknowledge(d)
        PROVE  ChargeMatchesEvidence' /\ PendingIsBacked'
    <2>1. /\ pc[d] # "append"
          /\ pc'[d] = "append" => answer'[d] \notin Accounts
          /\ UNCHANGED <<committed, newObligations, newReceipts>>
      BY <1>4, ConstantsAssumption DEF Begin, Evaluate, RuleOut, Acknowledge, TypeOK,
         pending, Objections
    <2>2. ChargeMatchesEvidence'
      BY <2>1 DEF committed, ChargeMatchesEvidence
    <2>3. Backed(d)'
      BY <2>1, MovedIsBacked DEF committed, PendingIsBacked
    <2>4. ASSUME NEW e \in Drainers, e # d PROVE Backed(e)'
      <3>1. UNCHANGED <<pc[e], output[e], answer[e]>>
        BY <1>4, <2>4 DEF Begin, Evaluate, RuleOut, Acknowledge, TypeOK
      <3> QED  BY <2>1, <3>1, StillBacked DEF committed, PendingIsBacked
    <2> QED  BY <2>2, <2>3, <2>4 DEF PendingIsBacked
  <1>5. ASSUME NEW d \in Drainers,
               \/ TaxRaises(d) \/ BillingConflict(d) \/ AppendConflict(d)
               \/ Fail(d) \/ GiveUp(d)
        PROVE  ChargeMatchesEvidence' /\ PendingIsBacked'
    BY <1>5, AbortBacked DEF TaxRaises, BillingConflict, AppendConflict, Fail, GiveUp
  <1> QED
    BY <1>2, <1>3, <1>4, <1>5, AcceptBacked, AppendBacked, CommitBacked DEF Next, DrainStep

(* No charge without its evidence, no evidence without its charge. *)
THEOREM ChargesMatchEvidence == Spec => []ChargeMatchesEvidence
  BY InitType, StepType, InitBacked, StepBacked, PTL DEF Spec
-----------------------------------------------------------------------------
(***************************************************************************)
(* Keys, for one log and what each drainer holds uncommitted against it:   *)
(* dropping entries, adding one that is fresh to its drainer and held by   *)
(* no other, and committing one drainer's entries all keep keys held once. *)
(***************************************************************************)
LEMMA HeldOnceDrop ==
    ASSUME NEW log, NEW held, NEW held2, HeldOnce(log, held),
           \A d \in Drainers : held2[d] \subseteq held[d]
    PROVE  HeldOnce(log, held2)
  BY DEF HeldOnce, UniqueIdentity, Spent

LEMMA HeldOnceAdd ==
    ASSUME NEW log, NEW held, NEW held2, NEW d \in Drainers, NEW x,
           HeldOnce(log, held),
           ~Conflicts(log \cup held[d], x),
           \A e \in Drainers : e # d => ~Spent(held[e], x),
           held2[d] \subseteq held[d] \cup {x},
           \A e \in Drainers : e # d => held2[e] = held[e]
    PROVE  HeldOnce(log, held2)
  <1>1. ASSUME NEW e \in Drainers PROVE UniqueIdentity(log \cup held2[e])
    <2>1. CASE e = d
      BY <2>1 DEF HeldOnce, UniqueIdentity, Conflicts, SameIdentity
    <2>2. CASE e # d
      BY <2>2 DEF HeldOnce
    <2> QED  BY <2>1, <2>2
  <1>2. ASSUME NEW e \in Drainers, NEW f \in Drainers, e # f,
               NEW y \in held2[e], NEW z \in held2[f], SameIdentity(z, y)
        PROVE  FALSE
    <2>1. CASE y \in held[e] /\ z \in held[f]
      BY <1>2, <2>1 DEF HeldOnce, Spent
    <2>2. CASE y \notin held[e]
      BY <1>2, <2>2 DEF Spent
    <2>3. CASE z \notin held[f]
      BY <1>2, <2>3 DEF Spent, SameIdentity
    <2> QED  BY <2>1, <2>2, <2>3
  <1> QED  BY <1>1, <1>2 DEF HeldOnce, Spent

LEMMA HeldOncePublish ==
    ASSUME NEW log, NEW held, NEW held2, NEW d \in Drainers, HeldOnce(log, held),
           held2[d] = {}, \A e \in Drainers : e # d => held2[e] = held[e]
    PROVE  HeldOnce(log \cup held[d], held2)
  <1>1. ASSUME NEW e \in Drainers PROVE UniqueIdentity((log \cup held[d]) \cup held2[e])
    <2>1. CASE e = d
      BY <2>1 DEF HeldOnce, UniqueIdentity
    <2>2. CASE e # d
      BY <2>2 DEF HeldOnce, UniqueIdentity, Spent, SameIdentity
    <2> QED  BY <2>1, <2>2
  <1> QED  BY <1>1 DEF HeldOnce, Spent

LEMMA HeldOnceUnique ==
    ASSUME NEW log, NEW held, NEW d \in Drainers, HeldOnce(log, held)
    PROVE  UniqueIdentity(log \cup held[d])
  BY DEF HeldOnce

LEMMA InitKeys == Init => OneVerdictPerFact /\ KeysHeldOnce
  BY DEF Init, OneVerdictPerFact, KeysHeldOnce, HeldOnce, UniqueIdentity, Spent

LEMMA StepKeys ==
    TypeOK /\ OneVerdictPerFact /\ KeysHeldOnce /\ [Next]_vars
        => OneVerdictPerFact' /\ KeysHeldOnce'
  <1> SUFFICES ASSUME TypeOK, OneVerdictPerFact, KeysHeldOnce, [Next]_vars
               PROVE  OneVerdictPerFact' /\ KeysHeldOnce'
    OBVIOUS
  <1>1. ASSUME UNCHANGED committed,
               \A d \in Drainers : /\ newObligations'[d] \subseteq newObligations[d]
                                   /\ newReceipts'[d] \subseteq newReceipts[d]
        PROVE  OneVerdictPerFact' /\ KeysHeldOnce'
    BY <1>1, HeldOnceDrop DEF committed, OneVerdictPerFact, KeysHeldOnce
  <1>2. CASE UNCHANGED vars
    BY <1>1, <1>2 DEF vars, committed
  <1>3. CASE Publishing
    BY <1>1, <1>3 DEF Publishing, Emit, Rerate, Republish, Relink, Publish, committed, pending
  <1>4. ASSUME NEW d \in Drainers,
               Begin(d) \/ Evaluate(d) \/ RuleOut(d) \/ Acknowledge(d)
        PROVE  OneVerdictPerFact' /\ KeysHeldOnce'
    BY <1>1, <1>4 DEF Begin, Evaluate, RuleOut, Acknowledge, committed, pending
  <1>5. ASSUME NEW d \in Drainers,
               \/ TaxRaises(d) \/ BillingConflict(d) \/ AppendConflict(d)
               \/ Fail(d) \/ GiveUp(d)
        PROVE  OneVerdictPerFact' /\ KeysHeldOnce'
    <2>1. Abort(d)
      BY <1>5 DEF TaxRaises, BillingConflict, AppendConflict, Fail, GiveUp
    <2> QED  BY <1>1, <2>1 DEF Abort, TypeOK
  <1>6. ASSUME NEW d \in Drainers, Accept(d) PROVE OneVerdictPerFact' /\ KeysHeldOnce'
    <2>1. \A e \in Drainers : e # d => ~Spent(newObligations[e], Command(d))
      BY <1>6 DEF Accept, Blocked, WaitsFor, Spent, SameIdentity, Identity, Command
    <2>2. /\ HeldOnce(obligations, newObligations')
          /\ UNCHANGED <<obligations, receipts, newReceipts>>
      <3>1. /\ ~Conflicts(SeenObligations(d), Command(d))
            /\ newObligations'[d] \subseteq newObligations[d] \cup {Command(d)}
            /\ \A e \in Drainers : e # d => newObligations'[e] = newObligations[e]
            /\ UNCHANGED <<obligations, receipts, newReceipts>>
        BY <1>6 DEF Accept, committed, TypeOK
      <3> QED  BY <2>1, <3>1, HeldOnceAdd
         DEF KeysHeldOnce, SeenObligations
    <2> QED  BY <2>2 DEF OneVerdictPerFact, KeysHeldOnce
  <1>7. ASSUME NEW d \in Drainers, Append(d) PROVE OneVerdictPerFact' /\ KeysHeldOnce'
    <2>1. \A e \in Drainers : e # d => ~Spent(newReceipts[e], Evidence(d))
      BY <1>7 DEF Append, Blocked, WaitsFor, Spent, SameIdentity, Identity, Evidence, Receipt
    <2>2. /\ HeldOnce(receipts, newReceipts')
          /\ UNCHANGED <<obligations, receipts, newObligations>>
      <3>1. /\ ~Conflicts(SeenReceipts(d), Evidence(d))
            /\ newReceipts'[d] \subseteq newReceipts[d] \cup {Evidence(d)}
            /\ \A e \in Drainers : e # d => newReceipts'[e] = newReceipts[e]
            /\ UNCHANGED <<obligations, receipts, newObligations>>
        BY <1>7 DEF Append, committed, TypeOK
      <3> QED  BY <2>1, <3>1, HeldOnceAdd DEF KeysHeldOnce, SeenReceipts
    <2> QED  BY <2>2 DEF OneVerdictPerFact, KeysHeldOnce
  <1>8. ASSUME NEW d \in Drainers, Commit(d) PROVE OneVerdictPerFact' /\ KeysHeldOnce'
    <2>1. HeldOnce(obligations', newObligations') /\ HeldOnce(receipts', newReceipts')
      <3>1. /\ obligations' = obligations \cup newObligations[d]
            /\ receipts' = receipts \cup newReceipts[d]
            /\ newObligations'[d] = {} /\ newReceipts'[d] = {}
            /\ \A e \in Drainers : e # d => /\ newObligations'[e] = newObligations[e]
                                           /\ newReceipts'[e] = newReceipts[e]
        BY <1>8 DEF Commit, TypeOK
      <3>2. HeldOnce(obligations \cup newObligations[d], newObligations')
        BY <3>1, HeldOncePublish DEF KeysHeldOnce
      <3>3. HeldOnce(receipts \cup newReceipts[d], newReceipts')
        BY <3>1, HeldOncePublish DEF KeysHeldOnce
      <3> QED  BY <3>1, <3>2, <3>3
    <2>2. UniqueIdentity(obligations') /\ UniqueIdentity(receipts')
      BY <1>8, HeldOnceUnique DEF Commit, KeysHeldOnce
    <2> QED  BY <2>1, <2>2 DEF OneVerdictPerFact, KeysHeldOnce
  <1> QED
    BY <1>2, <1>3, <1>4, <1>5, <1>6, <1>7, <1>8 DEF Next, DrainStep

(* No fact version is charged twice, and none carries two verdicts. *)
THEOREM VerdictsAreUnique == Spec => []OneVerdictPerFact
  BY InitType, StepType, InitKeys, StepKeys, PTL DEF Spec
-----------------------------------------------------------------------------
(***************************************************************************)
(* Acknowledgements, whatever is re-rated meanwhile: generations only      *)
(* grow, so evidence that was not ahead stays so, and an acknowledgement   *)
(* that was backed stays backed.                                           *)
(***************************************************************************)
ChargedInv == AcknowledgedWasCharged /\ NothingAhead /\ \A d \in Drainers : AcksAreBacked(d)

LEMMA Generations ==
    ASSUME TypeOK
    PROVE  /\ \A o \in Occurrences : offer[o].generation \in Nat
           /\ \A r \in Receipts : r.ref \in Occurrences /\ r.version \in Nat
           /\ \A f \in Facts : f.ref \in Occurrences /\ f.version \in Nat
  BY ConstantsAssumption DEF TypeOK, Receipts, Facts

LEMMA InitCharged == Init => ChargedInv
  BY DEF Init, ChargedInv, AcknowledgedWasCharged, NothingAhead, AcksAreBacked

(* A drainer that does not move stays backed while generations grow. *)
LEMMA StillCharged ==
    ASSUME TypeOK, TypeOK', NEW e \in Drainers, AcksAreBacked(e),
           receipts \subseteq receipts',
           \A o \in Occurrences : offer[o].generation <= offer'[o].generation,
           UNCHANGED <<pc[e], todo[e], output[e], answer[e], newReceipts[e], newAcks[e]>>
    PROVE  AcksAreBacked(e)'
  <1>1. \A o \in Occurrences : offer[o].generation \in Nat /\ offer'[o].generation \in Nat
    BY Generations, ConstantsAssumption DEF TypeOK
  <1>2. \A f \in todo[e] : f.version <= offer'[f.ref].generation
    <2>1. \A f \in todo[e] : f \in Facts
      BY DEF TypeOK
    <2> QED  BY <1>1, <2>1, Generations DEF AcksAreBacked
  <1>3. pc[e] \in {"accept", "append", "ack"} =>
           output[e].version <= offer'[output[e].ref].generation
    <2>1. pc[e] \in {"accept", "append", "ack"} => output[e] \in Facts
      BY DEF TypeOK
    <2> QED  BY <1>1, <2>1, Generations DEF AcksAreBacked
  <1>4. Evidence(e)' = Evidence(e) /\ SeenReceipts(e) \subseteq SeenReceipts(e)'
    BY DEF Evidence, SeenReceipts
  <1> QED  BY <1>2, <1>3, <1>4 DEF AcksAreBacked

(* New generations and new fingerprints take no acknowledgement with them. *)
LEMMA PublishCharged ==
    ASSUME TypeOK, TypeOK', ChargedInv, NEW o \in Occurrences, NEW g \in Nat, NEW fp,
           NEW a, Publish(o, g, fp, a), offer[o].generation <= g, a => offer[o].acked
    PROVE  ChargedInv'
  <1>1. /\ offer'[o].generation = g /\ offer'[o].acked = a
        /\ \A p \in Occurrences : p # o => offer'[p] = offer[p]
        /\ UNCHANGED <<receipts, pc, todo, output, answer, newReceipts, newAcks>>
    BY DEF Publish, TypeOK, committed, progress, pending
  <1>2. \A p \in Occurrences : /\ offer[p].generation \in Nat
                               /\ offer'[p].generation \in Nat
                               /\ offer[p].generation <= offer'[p].generation
    BY <1>1, Generations
  <1>3. ASSUME NEW r \in Receipts, NEW p \in Occurrences, r.version <= offer[p].generation
        PROVE  r.version <= offer'[p].generation
    BY <1>2, <1>3, Generations
  <1>4. AcknowledgedWasCharged'
    <2> SUFFICES ASSUME NEW p \in Occurrences, offer'[p].acked
                 PROVE  \E r \in receipts : r.ref = p /\ r.outcome = "applied"
                                               /\ r.version <= offer'[p].generation
      BY <1>1 DEF AcknowledgedWasCharged
    <2>1. offer[p].acked
      BY <1>1
    <2> QED  BY <1>3, <2>1 DEF ChargedInv, AcknowledgedWasCharged, TypeOK
  <1>5. NothingAhead'
    <2>1. receipts \subseteq Receipts /\ \A e \in Drainers : newReceipts[e] \subseteq Receipts
      BY DEF TypeOK
    <2>2. \A r \in Receipts : r.ref \in Occurrences
      BY Generations
    <2> QED  BY <1>1, <1>3, <2>1, <2>2 DEF ChargedInv, NothingAhead
  <1>6. \A e \in Drainers : AcksAreBacked(e)'
    BY <1>1, <1>2, StillCharged DEF ChargedInv
  <1> QED  BY <1>4, <1>5, <1>6 DEF ChargedInv

(* A step of d that commits nothing. *)
LEMMA LocalCharged ==
    ASSUME TypeOK, TypeOK', ChargedInv, NEW d \in Drainers, UNCHANGED <<offer, receipts>>,
           \A e \in Drainers : e # d =>
              UNCHANGED <<pc[e], todo[e], output[e], answer[e], newReceipts[e], newAcks[e]>>,
           AcksAreBacked(d)',
           \A r \in newReceipts'[d] : r.version <= offer[r.ref].generation
    PROVE  ChargedInv'
  <1>1. AcknowledgedWasCharged' /\ NothingAhead'
    BY DEF ChargedInv, AcknowledgedWasCharged, NothingAhead
  <1>2. \A o \in Occurrences : offer[o].generation <= offer'[o].generation
    BY Generations
  <1>3. \A e \in Drainers : AcksAreBacked(e)'
    BY <1>2, StillCharged DEF ChargedInv
  <1> QED  BY <1>1, <1>3 DEF ChargedInv

LEMMA AbortCharged ==
    ASSUME TypeOK, TypeOK', ChargedInv, NEW d \in Drainers, Abort(d)
    PROVE  ChargedInv'
  <1>1. AcksAreBacked(d)'
    BY DEF Abort, TypeOK, AcksAreBacked
  <1> QED  BY <1>1, LocalCharged DEF Abort, TypeOK, owners, committed

LEMMA BeginCharged ==
    ASSUME TypeOK, TypeOK', ChargedInv, NEW d \in Drainers, Begin(d)
    PROVE  ChargedInv'
  <1>1. /\ UNCHANGED <<offer, receipts, output, answer, newReceipts, newAcks>>
        /\ pc'[d] = "next"
        /\ \A e \in Drainers : e # d => pc'[e] = pc[e] /\ todo'[e] = todo[e]
    BY DEF Begin, TypeOK, owners, committed, pending
  <1>2. \A f \in todo'[d] : \E o \in Unacknowledged : f = Fact(o)
    BY DEF Begin, IsWindow, TypeOK
  <1>3. \A f \in todo'[d] : f.version <= offer[f.ref].generation
    BY <1>2, Generations DEF Unacknowledged, Fact
  <1>4. AcksAreBacked(d)'
    BY <1>1, <1>3 DEF ChargedInv, AcksAreBacked, SeenReceipts
  <1> QED  BY <1>1, <1>4, LocalCharged DEF ChargedInv, NothingAhead

LEMMA EvaluateCharged ==
    ASSUME TypeOK, TypeOK', ChargedInv, NEW d \in Drainers, Evaluate(d)
    PROVE  ChargedInv'
  <1>1. /\ UNCHANGED <<offer, receipts, newReceipts, newAcks>>
        /\ pc'[d] \in {"append", "accept"}
        /\ todo'[d] \subseteq todo[d] /\ output'[d] \in todo[d]
        /\ \A e \in Drainers : e # d =>
              UNCHANGED <<pc[e], todo[e], output[e], answer[e]>>
    BY DEF Evaluate, TypeOK, owners, committed, pending
  <1>2. AcksAreBacked(d)'
    BY <1>1 DEF ChargedInv, AcksAreBacked, SeenReceipts
  <1> QED  BY <1>1, <1>2, LocalCharged DEF ChargedInv, NothingAhead

LEMMA RuleOutOrAcceptCharged ==
    ASSUME TypeOK, TypeOK', ChargedInv, NEW d \in Drainers, RuleOut(d) \/ Accept(d)
    PROVE  ChargedInv'
  <1>1. /\ UNCHANGED <<offer, receipts, todo, output, answer, newReceipts, newAcks>>
        /\ pc[d] = "accept" /\ pc'[d] = "append"
        /\ \A e \in Drainers : e # d => pc'[e] = pc[e]
    BY DEF RuleOut, Accept, TypeOK, owners, committed, pending
  <1>2. AcksAreBacked(d)'
    BY <1>1 DEF ChargedInv, AcksAreBacked, SeenReceipts
  <1> QED  BY <1>1, <1>2, LocalCharged DEF ChargedInv, NothingAhead

LEMMA AppendCharged ==
    ASSUME TypeOK, TypeOK', ChargedInv, NEW d \in Drainers, Append(d)
    PROVE  ChargedInv'
  <1>1. /\ UNCHANGED <<offer, receipts, todo, newAcks>>
        /\ pc[d] = "append"
        /\ newReceipts'[d] = newReceipts[d] \cup ({Evidence(d)} \ receipts)
        /\ \A e \in Drainers : e # d =>
              UNCHANGED <<pc[e], output[e], answer[e], newReceipts[e]>>
    BY DEF Append, TypeOK, owners, committed
  <1>2. AcksAreBacked(d)
    BY DEF ChargedInv
  <1>3. Evidence(d).version <= offer[Evidence(d).ref].generation
    BY <1>1, <1>2 DEF AcksAreBacked, Evidence, Receipt
  <1>4. SeenReceipts(d)' = SeenReceipts(d) \cup {Evidence(d)}
    BY <1>1 DEF SeenReceipts
  <1>5. AcksAreBacked(d)'
    <2>1. CASE answer[d] \in Accounts
      <3>1. pc'[d] = "ack" /\ UNCHANGED <<output, answer>>
        BY <2>1 DEF Append, TypeOK
      <3>2. Evidence(d)' = Evidence(d)
        BY <3>1 DEF Evidence
      <3> QED  BY <1>1, <1>2, <1>4, <2>1, <3>1, <3>2 DEF AcksAreBacked
    <2>2. CASE answer[d] \notin Accounts
      <3>1. pc'[d] = "next"
        BY <2>2 DEF Append, TypeOK
      <3> QED  BY <1>1, <1>2, <1>4, <3>1 DEF AcksAreBacked
    <2> QED  BY <2>1, <2>2
  <1>6. \A r \in newReceipts'[d] : r.version <= offer[r.ref].generation
    BY <1>1, <1>3 DEF ChargedInv, NothingAhead
  <1> QED  BY <1>1, <1>5, <1>6, LocalCharged

LEMMA AcknowledgeCharged ==
    ASSUME TypeOK, TypeOK', ChargedInv, NEW d \in Drainers, Acknowledge(d)
    PROVE  ChargedInv'
  <1>1. /\ UNCHANGED <<offer, receipts, todo, newReceipts>>
        /\ pc[d] = "ack" /\ pc'[d] = "next"
        /\ newAcks'[d] = newAcks[d] \cup {output[d].ref}
        /\ \A e \in Drainers : e # d =>
              UNCHANGED <<pc[e], output[e], answer[e], newAcks[e]>>
    BY DEF Acknowledge, TypeOK, owners, committed
  <1>2. AcksAreBacked(d)
    BY DEF ChargedInv
  <1>3. /\ Evidence(d) \in SeenReceipts(d)
        /\ Evidence(d).outcome = "applied" /\ Evidence(d).ref = output[d].ref
    BY <1>1, <1>2 DEF AcksAreBacked, Evidence, Receipt
  <1>4. AcksAreBacked(d)'
    BY <1>1, <1>2, <1>3 DEF AcksAreBacked, SeenReceipts
  <1> QED  BY <1>1, <1>4, LocalCharged DEF ChargedInv, NothingAhead

LEMMA CommitCharged ==
    ASSUME TypeOK, TypeOK', ChargedInv, NEW d \in Drainers, Commit(d)
    PROVE  ChargedInv'
  <1>1. /\ receipts' = SeenReceipts(d) /\ pc[d] = "next"
        /\ pc'[d] = "idle" /\ todo'[d] = {} /\ newReceipts'[d] = {} /\ newAcks'[d] = {}
        /\ \A e \in Drainers : e # d =>
              UNCHANGED <<pc[e], todo[e], output[e], answer[e], newReceipts[e], newAcks[e]>>
    BY DEF Commit, TypeOK, SeenReceipts
  <1>2. \A o \in Occurrences : /\ offer'[o].generation = offer[o].generation
                               /\ offer'[o].acked <=> offer[o].acked \/ o \in newAcks[d]
    BY DEF Commit, TypeOK
  <1>3. \A r \in SeenReceipts(d) : /\ r.ref \in Occurrences
                                   /\ r.version <= offer[r.ref].generation
    BY Generations DEF ChargedInv, NothingAhead, SeenReceipts, TypeOK
  <1>4. AcknowledgedWasCharged'
    <2> SUFFICES ASSUME NEW o \in Occurrences, offer[o].acked \/ o \in newAcks[d]
                 PROVE  \E r \in SeenReceipts(d) : r.ref = o /\ r.outcome = "applied"
                                               /\ r.version <= offer[o].generation
      BY <1>1, <1>2 DEF AcknowledgedWasCharged
    <2>1. CASE offer[o].acked
      BY <2>1 DEF ChargedInv, AcknowledgedWasCharged, SeenReceipts
    <2>2. CASE o \in newAcks[d]
      BY <1>3, <2>2 DEF ChargedInv, AcksAreBacked
    <2> QED  BY <2>1, <2>2
  <1>5. NothingAhead'
    <2>1. \A r \in receipts' : r.version <= offer'[r.ref].generation
      BY <1>1, <1>2, <1>3
    <2>2. ASSUME NEW e \in Drainers, NEW r \in newReceipts'[e]
          PROVE  r.version <= offer'[r.ref].generation
      <3>1. e # d /\ r \in newReceipts[e] /\ r \in Receipts
        BY <1>1, <2>2 DEF TypeOK
      <3> QED  BY <1>2, <3>1, Generations DEF ChargedInv, NothingAhead
    <2> QED  BY <2>1, <2>2 DEF NothingAhead
  <1>6. ASSUME NEW e \in Drainers PROVE AcksAreBacked(e)'
    <2>1. CASE e = d
      BY <1>1, <2>1 DEF AcksAreBacked
    <2>2. CASE e # d
      <3>1. \A o \in Occurrences : offer[o].generation <= offer'[o].generation
        BY <1>2, Generations
      <3> QED  BY <1>1, <2>2, <3>1, StillCharged DEF ChargedInv, SeenReceipts
    <2> QED  BY <2>1, <2>2
  <1> QED  BY <1>4, <1>5, <1>6 DEF ChargedInv

LEMMA StepCharged == TypeOK /\ ChargedInv /\ [Next]_vars => ChargedInv'
  <1> SUFFICES ASSUME TypeOK, ChargedInv, [Next]_vars PROVE ChargedInv'
    OBVIOUS
  <1>1. TypeOK'
    BY StepType
  <1>2. CASE UNCHANGED vars
    BY <1>2 DEF vars, ChargedInv, AcknowledgedWasCharged, NothingAhead, AcksAreBacked,
       SeenReceipts, Evidence
  <1>3. ASSUME NEW o \in Occurrences, Emit(o) PROVE ChargedInv'
    <2>1. 1 \in Nat /\ offer[o].generation <= 1
      BY <1>3, Generations DEF Emit, Offered
    <2> QED  BY <1>1, <1>3, <2>1, PublishCharged DEF Emit
  <1>4. ASSUME NEW o \in Occurrences, Rerate(o) PROVE ChargedInv'
    <2>1. offer[o].generation + 1 \in Nat /\ offer[o].generation <= offer[o].generation + 1
      BY Generations
    <2> QED  BY <1>1, <1>4, <2>1, PublishCharged DEF Rerate
  <1>5. ASSUME NEW o \in Occurrences, Republish(o) PROVE ChargedInv'
    <2>1. offer[o].generation \in Nat /\ offer[o].generation <= offer[o].generation
      BY Generations
    <2> QED  BY <1>1, <1>5, <2>1, PublishCharged DEF Republish
  <1>6. ASSUME NEW o \in Occurrences, Relink(o) PROVE ChargedInv'
    BY <1>6 DEF Relink, committed, progress, pending, ChargedInv, AcknowledgedWasCharged,
       NothingAhead, AcksAreBacked, SeenReceipts, Evidence
  <1>7. ASSUME NEW d \in Drainers,
               \/ TaxRaises(d) \/ BillingConflict(d) \/ AppendConflict(d)
               \/ Fail(d) \/ GiveUp(d)
        PROVE  ChargedInv'
    BY <1>1, <1>7, AbortCharged DEF TaxRaises, BillingConflict, AppendConflict, Fail, GiveUp
  <1> QED
    BY <1>1, <1>2, <1>3, <1>4, <1>5, <1>6, <1>7, BeginCharged, EvaluateCharged,
       RuleOutOrAcceptCharged, AppendCharged, AcknowledgeCharged, CommitCharged
       DEF Next, Publishing, DrainStep

(***************************************************************************)
(* Subscriptions never stops offering an occurrence Billing was not        *)
(* charged for, even when re-ratings race the drains: the guarantee that   *)
(* is left where AcksAreCharges needs its assumption.                      *)
(***************************************************************************)
THEOREM AcknowledgementsWereCharged == Spec => []AcknowledgedWasCharged
  <1>1. ChargedInv => AcknowledgedWasCharged
    BY DEF ChargedInv
  <1> QED  BY <1>1, InitType, StepType, InitCharged, StepCharged, PTL DEF Spec
-----------------------------------------------------------------------------
(* The whole inductive invariant. *)
THEOREM Invariance == Spec => []IInv
  <1>1. Init => IInv
    BY InitType, InitBacked, InitKeys, InitCharged DEF IInv, ChargedInv
  <1>2. IInv /\ [Next]_vars => IInv'
    BY StepType, StepBacked, StepKeys, StepCharged DEF IInv, ChargedInv
  <1> QED  BY <1>1, <1>2, PTL DEF Spec
-----------------------------------------------------------------------------
(* A commit appends a batch of new evidence. *)
LEMMA CommitAppends ==
    ASSUME IInv, NEW d \in Drainers, Commit(d)
    PROVE  Ledger!Next
  <1> DEFINE batch == newReceipts[d] \ receipts
             before == [t \in {"tenant"} |-> receipts]
  <1>1. UniqueIdentity(receipts \cup newReceipts[d]) /\ newReceipts[d] \in SUBSET Receipts
    BY DEF IInv, KeysHeldOnce, HeldOnce, TypeOK
  <1>2. Ledger!UniqueIdentity(batch)
    BY <1>1 DEF UniqueIdentity, SameIdentity, Identity,
                Ledger!UniqueIdentity, Ledger!SameIdentity, Ledger!Identity
  <1>3. \A r \in batch : ~Ledger!Spent(receipts, r)
    BY <1>1 DEF UniqueIdentity, SameIdentity, Identity,
                Ledger!Spent, Ledger!SameIdentity, Ledger!Identity
  <1>4. receipts' = receipts \cup batch
    BY DEF Commit
  <1>5. [t \in {"tenant"} |-> receipts'] = [before EXCEPT !["tenant"] = @ \cup batch]
    BY <1>4
  <1>6. before["tenant"] = receipts
    OBVIOUS
  <1>7. Ledger!Append("tenant", batch)
    BY <1>2, <1>3, <1>5, <1>6 DEF Ledger!Append
  <1> QED  BY <1>1, <1>7 DEF Ledger!Next

(***************************************************************************)
(* Whatever the drainers do, the receipts are an append-only ledger with   *)
(* one receipt per exact fact: the one ReceiptStore implements too.        *)
(***************************************************************************)
THEOREM LedgerRefinement == Spec => KeepsTheLedger
  <1>1. Init => Ledger!Init
    BY DEF Init, Ledger!Init
  <1>2. IInv /\ [Next]_vars => [Ledger!Next]_([t \in {"tenant"} |-> receipts])
    <2> SUFFICES ASSUME IInv, [Next]_vars PROVE Ledger!Next \/ receipts' = receipts
      OBVIOUS
    <2>1. \/ receipts' = receipts
          \/ \E d \in Drainers : Commit(d)
      BY DEF vars, Next, Publishing, Emit, Rerate, Republish, Relink, Publish, Begin, DrainStep,
             TaxRaises, Evaluate, RuleOut, Accept, BillingConflict, Append, AppendConflict,
             Acknowledge, Fail, GiveUp, Abort, committed
    <2> QED  BY <2>1, CommitAppends
  <1> QED
    BY <1>1, <1>2, Invariance, PTL DEF Spec, KeepsTheLedger, Ledger!Spec
-----------------------------------------------------------------------------
(***************************************************************************)
(* Drainers that read their windows in one total order never wait in a     *)
(* cycle.  What a drainer has locked is behind what it is working on, and  *)
(* that is behind what is left of its window; so every wait leads to a     *)
(* drainer that is further on.                                             *)
(***************************************************************************)

(* A bounded set of naturals has a greatest element. *)
LEMMA Greatest ==
    ASSUME NEW T \in SUBSET Nat, T # {}, NEW bound \in Nat, \A x \in T : x <= bound
    PROVE  \E x \in T : \A y \in T : y <= x
  <1> DEFINE above == {x..bound : x \in T}
             order == StrictSubsetOrdering(Nat)
  <1>1. above \subseteq FiniteSubsetsOf(Nat)
    <2>1. \A x \in T : IsFiniteSet(x..bound) /\ x..bound \in SUBSET Nat
      BY FS_Interval
    <2> QED  BY <2>1 DEF FiniteSubsetsOf
  <1>2. above # {}
    OBVIOUS
  <1>3. IsWellFoundedOn(order, FiniteSubsetsOf(Nat))
    BY FS_StrictSubsetOrderingWellFounded
  <1>4. \E least \in above : \A other \in above : <<other, least>> \notin order
    <2> HIDE DEF above, order
    <2> QED  BY <1>1, <1>2, <1>3, WFMin
  <1>5. PICK x \in T : \A y \in T : <<y..bound, x..bound>> \notin order
    BY <1>4
  <1>6. ASSUME NEW y \in T, ~(y <= x) PROVE FALSE
    <2>1. /\ y..bound \subseteq x..bound /\ x \in x..bound /\ x \notin y..bound
          /\ y..bound \in SUBSET Nat /\ x..bound \in SUBSET Nat
      BY <1>6
    <2> QED  BY <1>5, <2>1 DEF StrictSubsetOrdering
  <1> QED  BY <1>6
-----------------------------------------------------------------------------
(* Every drainer reads outputs in the same order, one after the other. *)
TotalOrder == \A o, p \in Occurrences : Rank[o] = Rank[p] => o = p

(* What orders a drainer's work: its refs are occurrences, ranked by numbers. *)
LEMMA Ranks ==
    ASSUME TypeOK, NEW d \in Drainers
    PROVE  /\ \A o \in Occurrences : Rank[o] \in Nat
           /\ \A f \in todo[d] : f.ref \in Occurrences
           /\ output[d] # None => output[d].ref \in Occurrences
           /\ Held(d) \subseteq Occurrences
  BY ConstantsAssumption DEF TypeOK, Facts, Obligations, Receipts, Held

(* A drainer that does not move stays in order. *)
LEMMA StillInOrder ==
    ASSUME NEW e \in Drainers, InOrder(e),
           UNCHANGED <<pc[e], todo[e], output[e], newObligations[e], newReceipts[e], newAcks[e]>>
    PROVE  InOrder(e)'
  BY DEF InOrder, Held

LEMMA IdleInOrder ==
    ASSUME NEW d \in Drainers, todo'[d] = {}, output'[d] = None,
           newObligations'[d] = {}, newReceipts'[d] = {}, newAcks'[d] = {}
    PROVE  InOrder(d)'
  BY DEF InOrder, Held

LEMMA BeginInOrder ==
    ASSUME TypeOK, NEW d \in Drainers, InOrder(d), Begin(d)
    PROVE  InOrder(d)'
  <1>1. PICK W \in SUBSET Occurrences : todo' = [todo EXCEPT ![d] = {Fact(o) : o \in W}]
    BY DEF Begin
  <1>2. \A f, g \in todo'[d] : f.ref = g.ref => f = g
    BY <1>1 DEF Fact, TypeOK
  <1>3. /\ pc[d] = "idle" /\ pc'[d] = "next"
        /\ UNCHANGED <<output, newObligations, newReceipts, newAcks>>
    BY DEF Begin, TypeOK, pending
  <1>4. Held(d) = {} /\ Held(d)' = {} /\ output'[d] = None
    BY <1>3 DEF InOrder, Held
  <1> QED  BY <1>2, <1>3, <1>4 DEF InOrder

LEMMA EvaluateInOrder ==
    ASSUME TypeOK, TotalOrder, NEW d \in Drainers, InOrder(d), Evaluate(d)
    PROVE  InOrder(d)'
  <1>1. PICK fact \in todo[d] :
           /\ IsNext(d, fact)
           /\ output' = [output EXCEPT ![d] = fact]
           /\ todo' = [todo EXCEPT ![d] = @ \ {fact}]
    BY DEF Evaluate
  <1>2. /\ output'[d] = fact /\ todo'[d] = todo[d] \ {fact}
        /\ fact # None /\ fact \in Facts
    BY <1>1, ConstantsAssumption DEF TypeOK
  <1>3. /\ pc'[d] \in {"append", "accept"}
        /\ UNCHANGED <<newObligations, newReceipts, newAcks>>
    BY DEF Evaluate, TypeOK, pending
  <1>4. Held(d)' = Held(d)
    BY <1>3 DEF Held
  <1>5. \A f \in todo'[d] : Rank[fact.ref] < Rank[f.ref]
    BY <1>1, <1>2, Ranks DEF IsNext, InOrder, TotalOrder
  <1>6. \A o \in Held(d) : Rank[o] < Rank[fact.ref]
    BY <1>1 DEF InOrder
  <1>7. fact.ref \notin Held(d)
    BY <1>6, Ranks
  <1>8. /\ fact.ref \notin newAcks'[d]
        /\ \A r \in newReceipts'[d] : r.ref # fact.ref
        /\ \A b \in newObligations'[d] : b.ref # fact.ref
    BY <1>3, <1>7 DEF Held
  <1> QED  BY <1>2, <1>3, <1>4, <1>5, <1>6, <1>8 DEF InOrder

(* Working on an output locks nothing but what belongs to it. *)
LEMMA WorkInOrder ==
    ASSUME TypeOK, NEW d \in Drainers, InOrder(d), output[d] # None,
           RuleOut(d) \/ Accept(d) \/ Append(d) \/ Acknowledge(d)
    PROVE  InOrder(d)'
  <1> DEFINE ref == output[d].ref
  <1>1. ref \in Occurrences /\ todo'[d] = todo[d]
    BY Ranks DEF RuleOut, Accept, Append, Acknowledge
  <1>2. \A o \in Held(d)' : o \in Held(d) \/ o = ref
    <2>1. /\ \A b \in newObligations'[d] : b \in newObligations[d] \/ b.ref = ref
          /\ \A r \in newReceipts'[d] : r \in newReceipts[d] \/ r.ref = ref
          /\ \A o \in newAcks'[d] : o \in newAcks[d] \/ o = ref
      BY DEF RuleOut, Accept, Append, Acknowledge, TypeOK, pending, Command, Evidence, Receipt
    <2> QED  BY <2>1 DEF Held
  <1>3. \A o \in Held(d)', f \in todo'[d] : Rank[o] < Rank[f.ref]
    BY <1>1, <1>2 DEF InOrder
  <1>4. \A f, g \in todo'[d] : f.ref = g.ref => f = g
    BY <1>1 DEF InOrder
  <1>5. pc'[d] # "idle" /\ (output'[d] = output[d] \/ output'[d] = None)
    BY DEF RuleOut, Accept, Append, Acknowledge, TypeOK
  <1>6. CASE output'[d] = None
    BY <1>3, <1>4, <1>5, <1>6 DEF InOrder
  <1>7. CASE output'[d] # None
    <2>1. output'[d] = output[d]
      BY <1>5, <1>7
    <2>2. CASE RuleOut(d)
      BY <1>3, <1>4, <2>1, <2>2 DEF RuleOut, pending, InOrder, Held, TypeOK
    <2>3. CASE Accept(d)
      <3>1. /\ pc[d] = "accept" /\ pc'[d] = "append"
            /\ UNCHANGED <<newReceipts, newAcks>>
        BY <2>3 DEF Accept, TypeOK
      <3> QED  BY <1>1, <1>2, <1>3, <1>4, <2>1, <3>1 DEF InOrder
    <2>4. CASE Append(d)
      <3>1. /\ pc[d] = "append" /\ pc'[d] = "ack" /\ UNCHANGED newAcks
        BY <1>7, <2>4 DEF Append, TypeOK
      <3> QED  BY <1>1, <1>2, <1>3, <1>4, <2>1, <3>1 DEF InOrder
    <2>5. CASE Acknowledge(d)
      BY <1>7, <2>5 DEF Acknowledge, TypeOK
    <2> QED  BY <2>2, <2>3, <2>4, <2>5
  <1> QED  BY <1>6, <1>7

LEMMA AbortInOrder ==
    ASSUME TypeOK, LocksInOrder, NEW d \in Drainers, Abort(d)
    PROVE  LocksInOrder'
  <1>1. InOrder(d)'
    BY IdleInOrder DEF Abort, TypeOK
  <1>2. ASSUME NEW e \in Drainers, e # d PROVE InOrder(e)'
    BY <1>2, StillInOrder DEF Abort, TypeOK, LocksInOrder
  <1> QED  BY <1>1, <1>2 DEF LocksInOrder

(* One step per action of a drainer. *)
LEMMA StepInOrder ==
    ASSUME TypeOK, TotalOrder, LocksInOrder, [Next]_vars
    PROVE  LocksInOrder'
  <1>1. CASE UNCHANGED <<pc, todo, output, newObligations, newReceipts, newAcks>>
    BY <1>1, StillInOrder DEF LocksInOrder
  <1>2. ASSUME NEW d \in Drainers,
               Begin(d) \/ Evaluate(d) \/ RuleOut(d) \/ Accept(d) \/ Append(d) \/ Acknowledge(d)
        PROVE  LocksInOrder'
    <2>1. ASSUME NEW e \in Drainers, e # d PROVE InOrder(e)'
      <3>1. UNCHANGED <<pc[e], todo[e], output[e],
                        newObligations[e], newReceipts[e], newAcks[e]>>
        BY <1>2, <2>1 DEF Begin, Evaluate, RuleOut, Accept, Append, Acknowledge, pending, TypeOK
      <3> QED  BY <3>1, StillInOrder DEF LocksInOrder
    <2>2. InOrder(d)
      BY DEF LocksInOrder
    <2>3. ASSUME Begin(d) PROVE InOrder(d)'
      BY <2>2, <2>3, BeginInOrder
    <2>4. ASSUME Evaluate(d) PROVE InOrder(d)'
      BY <2>2, <2>4, EvaluateInOrder
    <2>5. ASSUME RuleOut(d) \/ Accept(d) \/ Append(d) \/ Acknowledge(d)
          PROVE  InOrder(d)'
      <3>1. output[d] # None
        BY <2>5, ConstantsAssumption DEF RuleOut, Accept, Append, Acknowledge, TypeOK
      <3> QED  BY <2>2, <2>5, <3>1, WorkInOrder
    <2>6. InOrder(d)'
      BY <1>2, <2>3, <2>4, <2>5
    <2> QED  BY <2>1, <2>6 DEF LocksInOrder
  <1>3. ASSUME NEW d \in Drainers, Commit(d) PROVE LocksInOrder'
    <2>1. output[d] = None /\ output' = output /\ todo' = todo /\ todo[d] = {}
      BY <1>3 DEF Commit, LocksInOrder, InOrder
    <2>2. InOrder(d)'
      BY <1>3, <2>1, IdleInOrder DEF Commit, TypeOK
    <2>3. ASSUME NEW e \in Drainers, e # d PROVE InOrder(e)'
      BY <1>3, <2>3, StillInOrder DEF Commit, TypeOK, LocksInOrder
    <2> QED  BY <2>2, <2>3 DEF LocksInOrder
  <1>4. ASSUME NEW d \in Drainers,
               TaxRaises(d) \/ BillingConflict(d) \/ AppendConflict(d) \/ Fail(d) \/ GiveUp(d)
        PROVE  LocksInOrder'
    BY <1>4, AbortInOrder DEF TaxRaises, BillingConflict, AppendConflict, Fail, GiveUp
  <1>5. ASSUME NEW o \in Occurrences, Emit(o) \/ Rerate(o) \/ Republish(o) \/ Relink(o)
        PROVE  UNCHANGED <<pc, todo, output, newObligations, newReceipts, newAcks>>
    BY <1>5 DEF Emit, Rerate, Republish, Relink, Publish, progress, pending
  <1>6. CASE UNCHANGED vars
    BY <1>1, <1>6 DEF vars
  <1> QED  BY <1>1, <1>2, <1>3, <1>4, <1>5, <1>6 DEF Next, Publishing, DrainStep
-----------------------------------------------------------------------------
(* How far a drainer is: the output it works on, then how much of it is done. *)
Stage(d) == CASE pc[d] = "accept" -> 0 [] pc[d] = "append" -> 1 [] OTHER -> 2
Progress(d) == 3 * Rank[output[d].ref] + Stage(d)

Waiting(d) == pc[d] \in {"accept", "append", "ack"}

(* Who is waited for is further on. *)
LEMMA WaitsForward ==
    ASSUME TypeOK, TotalOrder, LocksInOrder, NEW d \in Drainers, NEW e \in Drainers,
           WaitsFor(d, e), Waiting(e)
    PROVE  Progress(d) < Progress(e)
  <1> DEFINE ref == output[d].ref
  <1>1. /\ Waiting(d)
        /\ output[d] \in Facts /\ output[e] \in Facts /\ output[e] # None
        /\ ref \in Occurrences /\ output[e].ref \in Occurrences
    BY ConstantsAssumption DEF WaitsFor, Waiting, TypeOK, Facts
  <1>2. Rank[ref] \in Nat /\ Rank[output[e].ref] \in Nat /\ Stage(d) \in 0..2 /\ Stage(e) \in 0..2
    BY <1>1, ConstantsAssumption DEF Stage
  <1>3. ref \in Held(e)
    BY DEF WaitsFor, Held, Spent, SameIdentity, Identity
  <1>4. CASE Rank[ref] < Rank[output[e].ref]
    BY <1>2, <1>4 DEF Progress
  <1>5. CASE ref = output[e].ref
    <2>1. InOrder(e)
      BY DEF LocksInOrder
    <2>2. CASE pc[d] = "accept" /\ Spent(newObligations[e], output[d])
      <3>1. pc[e] # "accept"
        BY <1>1, <1>5, <2>1, <2>2 DEF InOrder, Spent, SameIdentity, Identity
      <3>2. Stage(d) = 0 /\ Stage(e) > 0
        BY <2>2, <3>1 DEF Stage
      <3> QED  BY <1>2, <1>5, <3>2 DEF Progress
    <2>3. CASE pc[d] = "append" /\ Spent(newReceipts[e], output[d])
      <3>1. pc[e] = "ack"
        BY <1>1, <1>5, <2>1, <2>3 DEF InOrder, Spent, SameIdentity, Identity
      <3>2. Stage(d) = 1 /\ Stage(e) = 2
        BY <2>3, <3>1 DEF Stage
      <3> QED  BY <1>2, <1>5, <3>2 DEF Progress
    <2>4. CASE pc[d] = "ack" /\ ref \in newAcks[e]
      BY <1>1, <1>5, <2>1, <2>4 DEF InOrder
    <2> QED  BY <2>2, <2>3, <2>4 DEF WaitsFor
  <1>6. ref = output[e].ref \/ Rank[ref] < Rank[output[e].ref]
    <2>1. InOrder(e)
      BY DEF LocksInOrder
    <2>2. \A o \in Held(e) : o = output[e].ref \/ Rank[o] < Rank[output[e].ref]
      BY <1>1, <2>1 DEF InOrder
    <2> QED  BY <1>3, <2>2
  <1> QED  BY <1>4, <1>5, <1>6

LEMMA NoCycle ==
    ASSUME TypeOK, TotalOrder, LocksInOrder,
           NEW last \in Nat, \A o \in Occurrences : Rank[o] <= last
    PROVE  NoWaitCycle
  <1> SUFFICES ASSUME NEW S \in SUBSET Drainers, S # {},
                      \A d \in S : \E e \in S : WaitsFor(d, e)
               PROVE  FALSE
    BY DEF NoWaitCycle
  <1> DEFINE places == {Progress(d) : d \in S}
  <1>1. \A d \in S : Waiting(d)
    BY DEF WaitsFor, Waiting
  <1>2. \A d \in S : Progress(d) \in Nat /\ Progress(d) <= 3 * last + 2
    <2> SUFFICES ASSUME NEW d \in S
                 PROVE  Progress(d) \in Nat /\ Progress(d) <= 3 * last + 2
      OBVIOUS
    <2>1. output[d].ref \in Occurrences /\ Stage(d) \in 0..2
      BY <1>1 DEF Waiting, TypeOK, Facts, Stage
    <2>2. Rank[output[d].ref] \in Nat /\ Rank[output[d].ref] <= last
      BY <2>1, ConstantsAssumption
    <2> QED  BY <2>1, <2>2 DEF Progress
  <1>3. \E x \in places : \A y \in places : y <= x
    <2>1. places \in SUBSET Nat /\ places # {} /\ \A x \in places : x <= 3 * last + 2
      BY <1>2
    <2>2. 3 * last + 2 \in Nat
      OBVIOUS
    <2> HIDE DEF places
    <2> QED  BY <2>1, <2>2, Greatest
  <1>4. PICK d \in S : \A e \in S : Progress(e) <= Progress(d)
    BY <1>3
  <1>5. PICK e \in S : WaitsFor(d, e)
    OBVIOUS
  <1>6. Progress(d) < Progress(e)
    BY <1>1, <1>5, WaitsForward
  <1> QED  BY <1>2, <1>4, <1>6

(***************************************************************************)
(* Any number of drainers that read their windows in one total order never *)
(* wait in a cycle, whatever is re-rated, re-published, refused or lost.   *)
(***************************************************************************)
THEOREM NoDeadlock ==
    ASSUME TotalOrder, NEW last \in Nat, \A o \in Occurrences : Rank[o] <= last
    PROVE  Spec => []NoWaitCycle
  <1>1. Init => LocksInOrder
    BY DEF Init, LocksInOrder, InOrder, Held
  <1>2. TypeOK /\ LocksInOrder /\ [Next]_vars => LocksInOrder'
    BY StepInOrder
  <1>3. TypeOK /\ LocksInOrder => NoWaitCycle
    BY NoCycle
  <1> QED  BY <1>1, <1>2, <1>3, TypeCorrect, PTL DEF Spec
=============================================================================
