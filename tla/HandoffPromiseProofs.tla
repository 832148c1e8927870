------------------------- MODULE HandoffPromiseProofs -------------------------
(***************************************************************************)
(* RatedHandoff keeps HandoffPromise, for every value of its constants, as *)
(* long as no occurrence is re-rated while a drainer works on it.          *)
(***************************************************************************)
EXTENDS RatedHandoffProofs

(* Reading a fact's identity. *)
LEMMA IdentityParts ==
    ASSUME NEW r \in Receipts, NEW o \in Occurrences, NEW g
    PROVE  Identity(r) = <<o, g>> <=> r.ref = o /\ r.version = g
  BY DEF Identity

LEMMA InitAcks == Init => AckInv
  BY DEF Init, AckInv, AckedIffApplied, NothingAhead, AcksMatch, Offered

(***************************************************************************)
(* Generations do not move and the ledger grows: an idle witness keeps     *)
(* matching.                                                               *)
(***************************************************************************)
LEMMA StillMatching ==
    ASSUME NEW e \in Drainers, TypeOK, AcksMatch(e), receipts \subseteq receipts',
           \A o \in Occurrences : offer'[o].generation = offer[o].generation,
           UNCHANGED <<pc[e], todo[e], output[e], answer[e], newReceipts[e], newAcks[e]>>
    PROVE  AcksMatch(e)'
  <1>1. /\ \A f \in todo[e] : f.ref \in Occurrences
        /\ output[e] # None => output[e].ref \in Occurrences
        /\ \A r \in newReceipts[e] : r.ref \in Occurrences
        /\ \A o \in newAcks[e] : o \in Occurrences
    BY DEF TypeOK, Facts, Receipts
  <1>2. Evidence(e)' = Evidence(e)
    BY DEF Evidence
  <1>3. SeenReceipts(e) \subseteq SeenReceipts(e)'
    BY DEF SeenReceipts
  <1> QED  BY <1>1, <1>2, <1>3 DEF AcksMatch, IsCurrent, Offered

LEMMA NothingToMatch ==
    ASSUME NEW d \in Drainers, todo'[d] = {}, output'[d] = None, pc'[d] = "idle",
           newReceipts'[d] = {}, newAcks'[d] = {}
    PROVE  AcksMatch(d)'
  BY DEF AcksMatch

(***************************************************************************)
(* A new generation of an occurrence nobody works on.                      *)
(***************************************************************************)
LEMMA AdvanceAcks ==
    ASSUME TypeOK, AckInv, NEW o \in Occurrences, NEW g \in 1..MaxGeneration,
           NEW fp, Publish(o, g, fp, FALSE), g > offer[o].generation, ~WorkedOn(o)
    PROVE  AckInv'
  <1>1. /\ offer'[o].generation = g /\ offer'[o].acked = FALSE
        /\ \A p \in Occurrences : p # o => offer'[p] = offer[p]
        /\ UNCHANGED <<receipts, pc, todo, output, answer, newReceipts, newAcks>>
    BY DEF Publish, TypeOK, committed, progress, pending
  <1>2. \A p \in Occurrences : offer[p].generation \in Nat
    BY ConstantsAssumption DEF TypeOK
  <1>3. AckedIffApplied'
    <2>1. ~ReceiptedVersion(o, "applied")'
      <3>1. ASSUME NEW r \in receipts, Identity(r) = <<o, g>> PROVE FALSE
        <4>1. r \in Receipts /\ r.ref = o /\ r.version = g
          BY <3>1, IdentityParts DEF TypeOK
        <4>2. r.version <= offer[r.ref].generation
          BY DEF AckInv, NothingAhead
        <4> QED  BY <4>1, <4>2, <1>2
      <3> QED  BY <1>1, <3>1 DEF ReceiptedVersion
    <2>2. \A p \in Occurrences : p # o =>
            (offer'[p].acked <=> (Offered(p) /\ ReceiptedVersion(p, "applied"))')
      BY <1>1 DEF AckInv, AckedIffApplied, Offered, ReceiptedVersion
    <2> QED  BY <1>1, <2>1, <2>2 DEF AckedIffApplied
  <1>4. NothingAhead'
    <2>1. ASSUME NEW r \in Receipts, r.version <= offer[r.ref].generation
          PROVE  r.version <= offer'[r.ref].generation
      <3>1. r.version \in Nat /\ r.ref \in Occurrences
        BY ConstantsAssumption DEF Receipts
      <3> QED  BY <1>1, <1>2, <2>1, <3>1
    <2> QED  BY <1>1, <2>1 DEF AckInv, NothingAhead, TypeOK
  <1>5. ASSUME NEW e \in Drainers PROVE AcksMatch(e)'
    <2>1. /\ \A f \in todo[e] : f.ref \in Occurrences /\ f.ref # o
          /\ output[e] # None => output[e].ref \in Occurrences /\ output[e].ref # o
          /\ \A p \in newAcks[e] : p \in Occurrences /\ p # o
      BY DEF TypeOK, Facts, WorkedOn
    <2>2. ASSUME NEW r \in newReceipts[e], r.outcome = "applied"
          PROVE  r.ref \in Occurrences /\ r.ref # o
      <3>1. r.ref \in newAcks[e] \/ (pc[e] = "ack" /\ output[e].ref = r.ref)
        BY <2>2 DEF AckInv, AcksMatch
      <3>2. pc[e] = "ack" => output[e] # None
        BY ConstantsAssumption DEF TypeOK
      <3> QED  BY <2>1, <3>1, <3>2
    <2>3. Evidence(e)' = Evidence(e) /\ SeenReceipts(e)' = SeenReceipts(e)
      BY <1>1 DEF Evidence, SeenReceipts
    <2> QED  BY <1>1, <2>1, <2>2, <2>3 DEF AckInv, AcksMatch, IsCurrent, Offered
  <1> QED  BY <1>3, <1>4, <1>5 DEF AckInv

(* Nothing refers to an occurrence that was never offered. *)
LEMMA UnofferedIdle ==
    ASSUME TypeOK, AckInv, NEW o \in Occurrences, ~Offered(o)
    PROVE  ~WorkedOn(o)
  BY DEF WorkedOn, AckInv, AcksMatch, IsCurrent

(***************************************************************************)
(* A step of d that commits nothing and leaves generations and acks alone. *)
(***************************************************************************)
LEMMA LocalAcks ==
    ASSUME TypeOK, AckInv, NEW d \in Drainers, UNCHANGED receipts,
           \A o \in Occurrences : /\ offer'[o].generation = offer[o].generation
                                  /\ offer'[o].acked = offer[o].acked,
           \A e \in Drainers : e # d =>
              UNCHANGED <<pc[e], todo[e], output[e], answer[e], newReceipts[e], newAcks[e]>>,
           AcksMatch(d)',
           \A r \in newReceipts'[d] : r.version <= offer[r.ref].generation /\ r.ref \in Occurrences
    PROVE  AckInv'
  <1>1. AckedIffApplied'
    BY DEF AckInv, AckedIffApplied, Offered, ReceiptedVersion
  <1>2. NothingAhead'
    BY DEF AckInv, NothingAhead, TypeOK, Receipts
  <1>3. \A e \in Drainers : AcksMatch(e)'
    BY StillMatching DEF AckInv
  <1> QED  BY <1>1, <1>2, <1>3 DEF AckInv

LEMMA AbortAcks ==
    ASSUME TypeOK, AckInv, NEW d \in Drainers, Abort(d)
    PROVE  AckInv'
  <1>1. AcksMatch(d)'
    BY NothingToMatch DEF Abort, TypeOK
  <1> QED  BY <1>1, LocalAcks DEF Abort, TypeOK, owners, committed

LEMMA BeginAcks ==
    ASSUME TypeOK, AckInv, NEW d \in Drainers, Begin(d)
    PROVE  AckInv'
  <1>1. /\ UNCHANGED <<offer, receipts, output, answer, newReceipts, newAcks>>
        /\ pc'[d] = "next"
        /\ \A e \in Drainers : e # d => pc'[e] = pc[e] /\ todo'[e] = todo[e]
    BY DEF Begin, TypeOK, owners, committed, pending
  <1>2. \A f \in todo'[d] : \E o \in Unacknowledged : f = Fact(o)
    BY DEF Begin, IsWindow, TypeOK
  <1>3. \A f \in todo'[d] : IsCurrent(f)
    BY <1>2 DEF Unacknowledged, IsCurrent, Fact
  <1>4. AcksMatch(d)'
    <2>1. AcksMatch(d) /\ pc[d] # "ack"
      BY DEF AckInv, Begin
    <2> QED  BY <1>1, <1>3, <2>1 DEF AcksMatch, IsCurrent, Offered, SeenReceipts
  <1> QED  BY <1>1, <1>4, LocalAcks DEF AckInv, NothingAhead, TypeOK, Receipts

LEMMA EvaluateAcks ==
    ASSUME TypeOK, AckInv, NEW d \in Drainers, Evaluate(d)
    PROVE  AckInv'
  <1>1. /\ UNCHANGED <<offer, receipts, newReceipts, newAcks>>
        /\ pc[d] # "ack" /\ pc'[d] # "ack"
        /\ todo'[d] \subseteq todo[d] /\ output'[d] \in todo[d]
        /\ \A e \in Drainers : e # d =>
              UNCHANGED <<pc[e], todo[e], output[e], answer[e]>>
    BY DEF Evaluate, TypeOK, owners, committed, pending
  <1>2. AcksMatch(d)'
    BY <1>1 DEF AckInv, AcksMatch, IsCurrent, Offered, SeenReceipts
  <1> QED  BY <1>1, <1>2, LocalAcks DEF AckInv, NothingAhead, TypeOK, Receipts

LEMMA RuleOutOrAcceptAcks ==
    ASSUME TypeOK, AckInv, NEW d \in Drainers, RuleOut(d) \/ Accept(d)
    PROVE  AckInv'
  <1>1. /\ UNCHANGED <<offer, receipts, todo, output, answer, newReceipts, newAcks>>
        /\ pc[d] # "ack" /\ pc'[d] # "ack"
        /\ \A e \in Drainers : e # d => pc'[e] = pc[e]
    BY DEF RuleOut, Accept, TypeOK, owners, committed, pending
  <1>2. AcksMatch(d)'
    BY <1>1 DEF AckInv, AcksMatch, IsCurrent, Offered, SeenReceipts
  <1> QED  BY <1>1, <1>2, LocalAcks DEF AckInv, NothingAhead, TypeOK, Receipts

LEMMA AppendAcks ==
    ASSUME TypeOK, AckInv, NEW d \in Drainers, Append(d)
    PROVE  AckInv'
  <1>1. /\ UNCHANGED <<offer, receipts, todo, newAcks>>
        /\ pc[d] = "append" /\ output[d] \in Facts
        /\ newReceipts'[d] = newReceipts[d] \cup ({Evidence(d)} \ receipts)
        /\ \A e \in Drainers : e # d =>
              UNCHANGED <<pc[e], output[e], answer[e], newReceipts[e]>>
    BY DEF Append, TypeOK, owners, committed
  <1>2. AcksMatch(d) /\ output[d] # None /\ IsCurrent(output[d])
    BY <1>1, ConstantsAssumption DEF AckInv, AcksMatch
  <1>3. /\ Evidence(d).ref = output[d].ref /\ Evidence(d).version = output[d].version
        /\ Evidence(d).ref \in Occurrences
        /\ Evidence(d).version = offer[Evidence(d).ref].generation
        /\ Evidence(d).version <= offer[Evidence(d).ref].generation
    <2>1. output[d].version \in Nat /\ output[d].ref \in Occurrences
      BY <1>1 DEF Facts
    <2> QED  BY <1>2, <2>1 DEF Evidence, Receipt, IsCurrent
  <1>4. SeenReceipts(d)' = SeenReceipts(d) \cup {Evidence(d)}
    BY <1>1 DEF SeenReceipts
  <1>5. AcksMatch(d)'
    <2>1. CASE answer[d] \in Accounts
      <3>1. pc'[d] = "ack" /\ UNCHANGED <<output, answer>>
        BY <2>1 DEF Append, TypeOK
      <3>2. Evidence(d)' = Evidence(d)
        BY <3>1 DEF Evidence
      <3> QED
        BY <1>1, <1>2, <1>3, <1>4, <2>1, <3>1, <3>2 DEF AcksMatch, IsCurrent, Offered
    <2>2. CASE answer[d] \notin Accounts
      <3>1. pc'[d] = "next" /\ output'[d] = None
        BY <2>2 DEF Append, TypeOK
      <3>2. Evidence(d).outcome = "refused"
        BY <2>2 DEF Evidence, Receipt
      <3> QED
        BY <1>1, <1>2, <1>4, <3>1, <3>2 DEF AcksMatch, IsCurrent, Offered
    <2> QED  BY <2>1, <2>2
  <1>6. \A r \in newReceipts'[d] : r.version <= offer[r.ref].generation /\ r.ref \in Occurrences
    BY <1>1, <1>3 DEF AckInv, NothingAhead, TypeOK, Receipts
  <1> QED  BY <1>1, <1>5, <1>6, LocalAcks

LEMMA AcknowledgeAcks ==
    ASSUME TypeOK, AckInv, NEW d \in Drainers, Acknowledge(d)
    PROVE  AckInv'
  <1>1. /\ UNCHANGED <<offer, receipts, todo, newReceipts>>
        /\ pc[d] = "ack" /\ pc'[d] = "next" /\ output'[d] = None /\ output[d] \in Facts
        /\ newAcks'[d] = newAcks[d] \cup {output[d].ref}
        /\ \A e \in Drainers : e # d =>
              UNCHANGED <<pc[e], output[e], answer[e], newAcks[e]>>
    BY DEF Acknowledge, TypeOK, owners, committed
  <1>2. AcksMatch(d) /\ output[d] # None /\ IsCurrent(output[d])
    BY <1>1, ConstantsAssumption DEF AckInv, AcksMatch
  <1>3. /\ Evidence(d) \in SeenReceipts(d) /\ Evidence(d).outcome = "applied"
        /\ Identity(Evidence(d)) = <<output[d].ref, offer[output[d].ref].generation>>
    BY <1>1, <1>2 DEF AcksMatch, IsCurrent, Evidence, Receipt, Identity
  <1>4. AcksMatch(d)'
    BY <1>1, <1>2, <1>3 DEF AcksMatch, IsCurrent, Offered, SeenReceipts
  <1> QED  BY <1>1, <1>4, LocalAcks DEF AckInv, NothingAhead, TypeOK, Receipts

LEMMA CommitAcks ==
    ASSUME TypeOK, AckInv, NEW d \in Drainers, Commit(d)
    PROVE  AckInv'
  <1>1. /\ receipts' = SeenReceipts(d) /\ pc[d] = "next"
        /\ pc'[d] = "idle" /\ todo'[d] = {} /\ newReceipts'[d] = {} /\ newAcks'[d] = {}
        /\ output' = output
        /\ \A e \in Drainers : e # d =>
              UNCHANGED <<pc[e], todo[e], output[e], answer[e], newReceipts[e], newAcks[e]>>
    BY DEF Commit, TypeOK, SeenReceipts
  <1>2. \A o \in Occurrences : /\ offer'[o].generation = offer[o].generation
                               /\ offer'[o].acked <=> offer[o].acked \/ o \in newAcks[d]
    BY DEF Commit, TypeOK
  <1>3. AcksMatch(d)
    BY DEF AckInv
  <1>4. AckedIffApplied'
    <2> SUFFICES ASSUME NEW o \in Occurrences
                 PROVE  (offer[o].acked \/ o \in newAcks[d]) <=>
                          (Offered(o) /\ \E r \in SeenReceipts(d) :
                             Identity(r) = <<o, offer[o].generation>> /\ r.outcome = "applied")
      BY <1>1, <1>2 DEF AckedIffApplied, Offered, ReceiptedVersion
    <2>1. offer[o].acked <=> Offered(o) /\ ReceiptedVersion(o, "applied")
      BY DEF AckInv, AckedIffApplied
    <2>2. ASSUME NEW r \in newReceipts[d], Identity(r) = <<o, offer[o].generation>>,
                 r.outcome = "applied"
          PROVE  o \in newAcks[d]
      <3>1. r.ref = o
        BY <2>2, IdentityParts DEF TypeOK
      <3> QED  BY <1>1, <1>3, <2>2, <3>1 DEF AcksMatch
    <2> QED  BY <1>3, <2>1, <2>2 DEF AcksMatch, ReceiptedVersion, SeenReceipts
  <1>5. NothingAhead'
    BY <1>1, <1>2 DEF AckInv, NothingAhead, SeenReceipts, TypeOK, Receipts
  <1>6. ASSUME NEW e \in Drainers PROVE AcksMatch(e)'
    <2>1. CASE e = d
      BY <1>1, <1>3, <2>1, <1>2 DEF AcksMatch, IsCurrent, Offered, TypeOK, Facts
    <2>2. CASE e # d
      BY <1>1, <1>2, <2>2, StillMatching DEF AckInv, SeenReceipts
    <2> QED  BY <2>1, <2>2
  <1> QED  BY <1>4, <1>5, <1>6 DEF AckInv

LEMMA StepAcks ==
    ASSUME ~Disturbed("race"), TypeOK, AckInv, [Next]_vars
    PROVE  AckInv'
  <1>1. CASE UNCHANGED vars
    BY <1>1 DEF vars, AckInv, AckedIffApplied, NothingAhead, AcksMatch, Offered,
       ReceiptedVersion, IsCurrent, SeenReceipts, Evidence
  <1>2. ASSUME NEW o \in Occurrences, Emit(o) PROVE AckInv'
    <2>1. 1 \in 1..MaxGeneration /\ 1 > offer[o].generation
      BY <1>2, ConstantsAssumption DEF Emit, Offered, TypeOK
    <2> QED  BY <1>2, <2>1, AdvanceAcks, UnofferedIdle DEF Emit
  <1>3. ASSUME NEW o \in Occurrences, Rerate(o) PROVE AckInv'
    <2>1. /\ offer[o].generation + 1 \in 1..MaxGeneration
          /\ offer[o].generation + 1 > offer[o].generation
      BY <1>3, ConstantsAssumption DEF Rerate, Offered, TypeOK
    <2> QED  BY <1>3, <2>1, AdvanceAcks DEF Rerate
  <1>4. ASSUME NEW o \in Occurrences, Republish(o) \/ Relink(o) PROVE AckInv'
    <2>1. /\ \A p \in Occurrences : /\ offer'[p].generation = offer[p].generation
                                    /\ offer'[p].acked = offer[p].acked
          /\ UNCHANGED <<receipts, pc, todo, output, answer, newReceipts, newAcks>>
      BY <1>4 DEF Republish, Relink, Publish, TypeOK, committed, progress, pending
    <2>2. AckedIffApplied'
      BY <2>1 DEF AckInv, AckedIffApplied, Offered, ReceiptedVersion
    <2>3. NothingAhead'
      BY <2>1 DEF AckInv, NothingAhead, TypeOK, Receipts
    <2>4. \A e \in Drainers : AcksMatch(e)'
      BY <2>1, StillMatching DEF AckInv
    <2> QED  BY <2>2, <2>3, <2>4 DEF AckInv
  <1>5. ASSUME NEW d \in Drainers,
               \/ TaxRaises(d) \/ BillingConflict(d) \/ AppendConflict(d)
               \/ Fail(d) \/ GiveUp(d)
        PROVE  AckInv'
    BY <1>5, AbortAcks DEF TaxRaises, BillingConflict, AppendConflict, Fail, GiveUp
  <1> QED
    BY <1>1, <1>2, <1>3, <1>4, <1>5, BeginAcks, EvaluateAcks, RuleOutOrAcceptAcks,
       AppendAcks, AcknowledgeAcks, CommitAcks DEF Next, Publishing, DrainStep

(* Subscriptions stops offering exactly what Billing was charged for. *)
THEOREM AcksAreCharges ==
    ASSUME ~Disturbed("race")
    PROVE  Spec => []AckedIffApplied
  <1>1. AckInv => AckedIffApplied
    BY DEF AckInv
  <1>2. TypeOK /\ AckInv /\ [Next]_vars => TypeOK' /\ AckInv'
    BY StepType, StepAcks
  <1> QED  BY <1>1, <1>2, InitType, InitAcks, PTL DEF Spec
-----------------------------------------------------------------------------
(***************************************************************************)
(* What a drainer holds uncommitted is new to Billing and to Cloud alike:  *)
(* a charge's key is spent in neither table, nor is an evidence's.         *)
(***************************************************************************)
LEMMA PendingIsFresh ==
    ASSUME IInv, NEW d \in Drainers, pc[d] = "next"
    PROVE  /\ \A b \in newObligations[d] \ obligations :
                ~Spent(obligations, b) /\ ~Spent(receipts, b)
           /\ \A r \in newReceipts[d] \ receipts :
                ~Spent(obligations, r) /\ ~Spent(receipts, r)
  <1>1. UniqueIdentity(SeenObligations(d)) /\ UniqueIdentity(SeenReceipts(d))
    BY DEF IInv, KeysHeldOnce, HeldOnce, SeenObligations, SeenReceipts
  <1>2. \A b \in SeenObligations(d) : Spent(Applied(SeenReceipts(d)), b)
    <2>1. \A b \in obligations : Spent(Applied(receipts), b)
      BY DEF IInv, ChargeMatchesEvidence, Agree
    <2>2. Applied(receipts) \subseteq Applied(SeenReceipts(d))
      BY DEF Applied, SeenReceipts
    <2> QED
      BY <2>1, <2>2, SpentGrows DEF IInv, PendingIsBacked, Backed, SeenObligations
  <1>3. ASSUME NEW b \in newObligations[d] \ obligations, NEW s \in receipts,
               SameIdentity(s, b)
        PROVE  FALSE
    <2>1. PICK t \in Applied(SeenReceipts(d)) : SameIdentity(t, b)
      BY <1>2 DEF SeenObligations, Spent
    <2>2. t = s
      BY <1>1, <1>3, <2>1 DEF UniqueIdentity, SameIdentity, SeenReceipts, Applied
    <2>3. s \in Applied(receipts)
      BY <2>1, <2>2 DEF Applied
    <2>4. PICK c \in obligations : SameIdentity(c, s)
      BY <2>3 DEF IInv, ChargeMatchesEvidence, Agree, Spent
    <2>5. c = b
      BY <1>1, <1>3, <2>4 DEF UniqueIdentity, SameIdentity, SeenObligations
    <2> QED  BY <2>5
  <1>4. ASSUME NEW r \in newReceipts[d] \ receipts, NEW c \in obligations,
               SameIdentity(c, r)
        PROVE  FALSE
    <2>1. PICK t \in Applied(receipts) : SameIdentity(t, c)
      BY DEF IInv, ChargeMatchesEvidence, Agree, Spent
    <2>2. t \in receipts /\ SameIdentity(t, r)
      BY <1>4, <2>1 DEF Applied, SameIdentity
    <2> QED  BY <1>1, <2>2 DEF UniqueIdentity, SeenReceipts
  <1>5. \A b \in newObligations[d] \ obligations : ~Spent(obligations, b)
    BY <1>1 DEF UniqueIdentity, Spent, SeenObligations
  <1>6. \A r \in newReceipts[d] \ receipts : ~Spent(receipts, r)
    BY <1>1 DEF UniqueIdentity, Spent, SeenReceipts
  <1> QED  BY <1>3, <1>4, <1>5, <1>6 DEF Spent

(* The promise compares charges and evidence as the drains do. *)
LEMMA PromiseAgree ==
    ASSUME NEW charges, NEW log
    PROVE  Promise!Agree(charges, log) <=> Agree(charges, log)
  BY DEF Promise!Agree, Agree, Promise!Applied, Applied, Promise!Spent, Spent,
     Promise!SameIdentity, SameIdentity, Promise!Identity, Identity

(* A commit settles its batch. *)
LEMMA CommitSettles ==
    ASSUME IInv, AckInv, NEW d \in Drainers, Commit(d)
    PROVE  Promise!Settle
  <1> DEFINE charges == newObligations[d] \ obligations
             evidence == newReceipts[d] \ receipts
  <1>1. /\ obligations' = SeenObligations(d) /\ receipts' = SeenReceipts(d)
        /\ pc[d] = "next"
    BY DEF Commit, SeenObligations, SeenReceipts
  <1>2. obligations' \ obligations = charges /\ receipts' \ receipts = evidence
    BY <1>1 DEF SeenObligations, SeenReceipts
  <1>3. obligations \subseteq obligations' /\ receipts \subseteq receipts'
    BY <1>1 DEF SeenObligations, SeenReceipts
  <1>4. Promise!Fresh(charges) /\ Promise!Fresh(evidence)
    BY <1>1, PendingIsFresh DEF Promise!Fresh, Promise!Spent, Spent, Promise!SameIdentity,
       SameIdentity, Promise!Identity, Identity
  <1>5. ASSUME NEW c \in charges PROVE Spent(Applied(evidence), c)
    <2>1. Spent(Applied(SeenReceipts(d)), c)
      BY <1>1 DEF IInv, PendingIsBacked, Backed
    <2>2. ~Spent(receipts, c)
      BY <1>1, PendingIsFresh
    <2> QED  BY <2>1, <2>2 DEF Spent, Applied, SeenReceipts
  <1>6. ASSUME NEW r \in Applied(evidence) PROVE Spent(charges, r)
    <2>1. r \in Applied(newReceipts[d]) /\ r \in evidence
      BY DEF Applied
    <2>2. Spent(SeenObligations(d), r)
      BY <2>1 DEF IInv, PendingIsBacked, Backed
    <2>3. ~Spent(obligations, r)
      BY <1>1, <2>1, PendingIsFresh
    <2> QED  BY <2>2, <2>3 DEF Spent, SeenObligations
  <1>7. Agree(charges, evidence)
    BY <1>5, <1>6 DEF Agree
  <1>8. UniqueIdentity(charges) /\ UniqueIdentity(evidence)
    BY DEF IInv, KeysHeldOnce, HeldOnce, UniqueIdentity
  <1>9. offer' = [o \in Occurrences |-> [offer[o] EXCEPT !.acked =
                    @ \/ \E c \in charges : c.ref = o]]
    <2>1. offer' = [o \in Occurrences |->
                      IF o \in newAcks[d] THEN [offer[o] EXCEPT !.acked = TRUE] ELSE offer[o]]
      BY DEF Commit
    <2>2. ASSUME NEW o \in Occurrences
          PROVE  (offer[o].acked \/ o \in newAcks[d]) <=>
                   (offer[o].acked \/ \E c \in charges : c.ref = o)
      <3>1. ASSUME o \in newAcks[d], ~offer[o].acked
            PROVE  \E c \in charges : c.ref = o
        <4>1. PICK r \in SeenReceipts(d) :
                 Identity(r) = <<o, offer[o].generation>> /\ r.outcome = "applied"
          BY <3>1 DEF AckInv, AcksMatch
        <4>2. r \notin receipts
          BY <3>1, <4>1 DEF AckInv, AckedIffApplied, ReceiptedVersion, AcksMatch
        <4>3. r \in Applied(evidence)
          BY <4>1, <4>2 DEF SeenReceipts, Applied
        <4>4. PICK c \in charges : SameIdentity(c, r)
          BY <1>6, <4>3 DEF Spent
        <4> QED  BY <4>1, <4>4 DEF SameIdentity, Identity
      <3>2. ASSUME NEW c \in charges, c.ref = o
            PROVE  o \in newAcks[d]
        <4>1. PICK r \in Applied(evidence) : SameIdentity(r, c)
          BY <1>5 DEF Spent
        <4>2. r \in newReceipts[d] /\ r.outcome = "applied" /\ r.ref = o
          BY <3>2, <4>1 DEF Applied, SameIdentity, Identity
        <4> QED  BY <1>1, <4>2 DEF AckInv, AcksMatch
      <3> QED  BY <3>1, <3>2
    <2>3. \A o \in Occurrences : offer[o].acked \in BOOLEAN /\
             offer[o] = [generation |-> offer[o].generation,
                         fingerprint |-> offer[o].fingerprint, acked |-> offer[o].acked]
      BY DEF IInv, TypeOK
    <2>4. \A o \in Occurrences :
             (IF o \in newAcks[d] THEN [offer[o] EXCEPT !.acked = TRUE] ELSE offer[o])
               = [offer[o] EXCEPT !.acked = (@ \/ \E c \in charges : c.ref = o)]
      <3> SUFFICES ASSUME NEW o \in Occurrences
                   PROVE  (IF o \in newAcks[d] THEN [offer[o] EXCEPT !.acked = TRUE] ELSE offer[o])
                            = [offer[o] EXCEPT !.acked =
                                 (offer[o].acked \/ \E c \in charges : c.ref = o)]
        OBVIOUS
      <3> DEFINE settled == \E c \in charges : c.ref = o
      <3> HIDE DEF settled
      <3>1. (offer[o].acked \/ o \in newAcks[d]) <=> (offer[o].acked \/ settled)
        BY <2>2 DEF settled
      <3>2. CASE offer[o].acked \/ settled
        <4>1. (offer[o].acked \/ settled) = TRUE
          BY <3>2
        <4>2. o \notin newAcks[d] => offer[o] = [offer[o] EXCEPT !.acked = TRUE]
          BY <2>3, <3>1, <3>2
        <4> QED  BY <4>1, <4>2 DEF settled
      <3>3. CASE ~(offer[o].acked \/ settled)
        <4>1. (offer[o].acked \/ settled) = FALSE
          BY <3>3
        <4>2. o \notin newAcks[d] /\ offer[o] = [offer[o] EXCEPT !.acked = FALSE]
          BY <2>3, <3>1, <3>3
        <4> QED  BY <4>1, <4>2 DEF settled
      <3> QED  BY <3>2, <3>3
    <2> QED  BY <2>1, <2>4
  <1>10. ASSUME NEW c \in charges PROVE c.version = offer[c.ref].generation
    <2>1. PICK r \in Applied(evidence) : SameIdentity(r, c)
      BY <1>5, <1>10 DEF Spent
    <2>2. /\ r \in newReceipts[d] /\ r.outcome = "applied"
          /\ r.ref = c.ref /\ r.version = c.version
      BY <2>1 DEF Applied, SameIdentity, Identity
    <2> QED  BY <2>2 DEF AckInv, AcksMatch
  <1>11. ASSUME NEW r \in evidence
         PROVE  r.ref \in Occurrences /\ r.version \in 1..offer[r.ref].generation
    <2>1. r.ref \in Occurrences /\ r.version \in 1..MaxGeneration
      BY DEF IInv, TypeOK, Receipts
    <2>2. r.version <= offer[r.ref].generation /\ offer[r.ref].generation \in Nat
      BY <2>1, ConstantsAssumption DEF AckInv, NothingAhead, IInv, TypeOK
    <2> QED  BY <2>1, <2>2, ConstantsAssumption
  <1> HIDE DEF charges, evidence
  <1>12. Promise!UniqueIdentity(charges) /\ Promise!UniqueIdentity(evidence)
    BY <1>8 DEF Promise!UniqueIdentity, UniqueIdentity, Promise!SameIdentity, SameIdentity,
           Promise!Identity, Identity
  <1>13. Promise!Agree(charges, evidence)
    BY <1>7, PromiseAgree
  <1> QED
    BY <1>2, <1>3, <1>4, <1>9, <1>10, <1>11, <1>12, <1>13
       DEF Promise!Settle

LEMMA StepKeepsPromise ==
    ASSUME IInv, AckInv, [Next]_vars
    PROVE  [Promise!Next]_(Promise!vars)
  <1>1. CASE UNCHANGED <<offer, obligations, receipts>>
    BY <1>1 DEF Promise!vars
  <1>2. ASSUME NEW o \in Occurrences, NEW fp \in Fingerprints,
               Publish(o, offer[o].generation + 1, fp, FALSE)
        PROVE  Promise!Publish(o)
    BY <1>2 DEF Publish, committed, Promise!Publish
  <1>3. ASSUME NEW o \in Occurrences, Emit(o) PROVE Promise!Publish(o)
    <2>1. offer[o].generation = 0
      BY <1>3, ConstantsAssumption DEF Emit, Offered, IInv, TypeOK
    <2>2. PICK fp \in Fingerprints : Publish(o, 1, fp, FALSE)
      BY <1>3 DEF Emit
    <2>3. 1 = offer[o].generation + 1
      BY <2>1
    <2> QED  BY <1>2, <2>2, <2>3
  <1>4. ASSUME NEW o \in Occurrences, Rerate(o) \/ Republish(o) PROVE Promise!Publish(o)
    <2>1. CASE Rerate(o)
      BY <1>2, <2>1 DEF Rerate
    <2>2. CASE Republish(o)
      <3>1. PICK fp \in Fingerprints : Publish(o, offer[o].generation, fp, offer[o].acked)
        BY <2>2 DEF Republish
      <3>2. offer[o] = [generation |-> offer[o].generation, acked |-> offer[o].acked,
                        fingerprint |-> offer[o].fingerprint]
        BY DEF IInv, TypeOK
      <3>3. [offer[o] EXCEPT !.fingerprint = fp]
              = [generation |-> offer[o].generation, fingerprint |-> fp, acked |-> offer[o].acked]
        BY <3>2
      <3>4. offer' = [offer EXCEPT ![o].fingerprint = fp]
        BY <3>1, <3>3 DEF Publish
      <3> QED  BY <2>2, <3>1, <3>4 DEF Republish, Offered, Publish, committed, Promise!Publish
    <2> QED  BY <1>4, <2>1, <2>2
  <1>5. ASSUME NEW d \in Drainers, Begin(d) \/ Fail(d) \/ GiveUp(d) \/
               TaxRaises(d) \/ Evaluate(d) \/ RuleOut(d) \/ Accept(d) \/ BillingConflict(d)
               \/ Append(d) \/ AppendConflict(d) \/ Acknowledge(d)
        PROVE  UNCHANGED <<offer, obligations, receipts>>
    BY <1>5 DEF Begin, Fail, GiveUp, TaxRaises, Evaluate, RuleOut, Accept, BillingConflict,
       Append, AppendConflict, Acknowledge, Abort, owners, committed
  <1>6. ASSUME NEW o \in Occurrences, Relink(o) PROVE UNCHANGED <<offer, obligations, receipts>>
    BY <1>6 DEF Relink, committed
  <1>7. CASE UNCHANGED vars
    BY <1>1, <1>7 DEF vars
  <1> QED
    BY <1>1, <1>3, <1>4, <1>5, <1>6, <1>7, CommitSettles
       DEF Next, Publishing, DrainStep, Promise!Next

(***************************************************************************)
(* Every behaviour of the drains is, to a reader of the three owners'      *)
(* tables, a behaviour of HandoffPromise.                                  *)
(***************************************************************************)
THEOREM Refinement ==
    ASSUME ~Disturbed("race")
    PROVE  Spec => KeepsThePromise
  <1>1. Init => Promise!Init
    BY DEF Init, Promise!Init
  <1>2. AckInv /\ TypeOK /\ [Next]_vars => AckInv'
    BY StepAcks
  <1>3. IInv /\ AckInv /\ [Next]_vars => [Promise!Next]_(Promise!vars)
    BY StepKeepsPromise
  <1>4. IInv => TypeOK
    BY DEF IInv
  <1> QED
    BY <1>1, <1>2, <1>3, <1>4, Invariance, InitAcks, PTL DEF Spec, KeepsThePromise, Promise!Spec
-----------------------------------------------------------------------------
(***************************************************************************)
(* What the promise is worth: everything said of the three owners' tables  *)
(* above follows from it alone, so it holds of any hand-off that keeps the *)
(* promise, however it drains.                                             *)
(***************************************************************************)
OfferType == offer \in [Occurrences -> [generation : Nat, fingerprint : Fingerprints \cup {None},
                                       acked : BOOLEAN]]
EvidenceIsPublished == \A r \in receipts :
    r.ref \in Occurrences /\ r.version \in 1..offer[r.ref].generation
PromiseInv ==
    /\ OfferType /\ EvidenceIsPublished
    /\ ChargeMatchesEvidence /\ OneVerdictPerFact /\ AckedIffApplied

LEMMA PromiseInit == Promise!Init => PromiseInv
  BY DEF Promise!Init, PromiseInv, OfferType, EvidenceIsPublished, ChargeMatchesEvidence,
     Agree, Applied, OneVerdictPerFact, AckedIffApplied, UniqueIdentity, Offered

LEMMA PublishKeeps ==
    ASSUME PromiseInv, NEW o \in Occurrences, Promise!Publish(o)
    PROVE  PromiseInv'
  <1>1. UNCHANGED <<obligations, receipts>>
    BY DEF Promise!Publish
  <1>2. /\ OfferType'
        /\ \A p \in Occurrences : p # o => offer'[p] = offer[p]
        /\ \/ offer'[o].generation = offer[o].generation + 1 /\ offer'[o].acked = FALSE
           \/ offer'[o].generation = offer[o].generation /\ offer'[o].acked = offer[o].acked
    <2>1. PICK fp \in Fingerprints :
            \/ offer' = [offer EXCEPT ![o] = [generation |-> offer[o].generation + 1,
                                              fingerprint |-> fp, acked |-> FALSE]]
            \/ offer' = [offer EXCEPT ![o].fingerprint = fp]
      BY DEF Promise!Publish
    <2>2. CASE offer' = [offer EXCEPT ![o] = [generation |-> offer[o].generation + 1,
                                              fingerprint |-> fp, acked |-> FALSE]]
      BY <2>2 DEF PromiseInv, OfferType
    <2>3. CASE offer' = [offer EXCEPT ![o].fingerprint = fp]
      BY <2>3 DEF PromiseInv, OfferType
    <2> QED  BY <2>1, <2>2, <2>3
  <1>3. \A p \in Occurrences :
           /\ offer[p].generation \in Nat /\ offer'[p].generation \in Nat
           /\ offer[p].generation <= offer'[p].generation
    BY <1>2 DEF PromiseInv, OfferType
  <1>4. EvidenceIsPublished'
    BY <1>1, <1>3 DEF PromiseInv, EvidenceIsPublished
  <1>5. ChargeMatchesEvidence' /\ OneVerdictPerFact'
    BY <1>1 DEF PromiseInv, ChargeMatchesEvidence, OneVerdictPerFact
  <1>6. ASSUME NEW p \in Occurrences
        PROVE  (offer[p].acked <=> Offered(p) /\ ReceiptedVersion(p, "applied"))'
    <2>1. offer[p].acked <=> Offered(p) /\ ReceiptedVersion(p, "applied")
      BY DEF PromiseInv, AckedIffApplied
    <2>2. CASE offer'[p].generation = offer[p].generation /\ offer'[p].acked = offer[p].acked
      BY <1>1, <2>1, <2>2 DEF Offered, ReceiptedVersion
    <2>3. CASE p = o /\ offer'[o].generation = offer[o].generation + 1 /\ offer'[o].acked = FALSE
      <3>1. ASSUME NEW r \in receipts, Identity(r) = <<o, offer[o].generation + 1>>
            PROVE  FALSE
        <4>1. r.ref = o /\ r.version = offer[o].generation + 1
          BY <3>1 DEF Identity
        <4>2. r.version <= offer[o].generation
          BY <4>1, <1>3 DEF PromiseInv, EvidenceIsPublished
        <4> QED  BY <4>1, <4>2, <1>3
      <3> QED  BY <1>1, <2>3, <3>1 DEF ReceiptedVersion
    <2> QED  BY <1>2, <2>2, <2>3
  <1>7. AckedIffApplied'
    BY <1>6 DEF AckedIffApplied, Offered, ReceiptedVersion
  <1> QED  BY <1>2, <1>4, <1>5, <1>7 DEF PromiseInv

(* Adding what is new, one entry per identity, keeps identities unique. *)
LEMMA FreshUnion ==
    ASSUME NEW log, NEW held, UniqueIdentity(log), UniqueIdentity(held),
           \A x \in held : ~Spent(log, x)
    PROVE  UniqueIdentity(log \cup held)
  BY DEF UniqueIdentity, Spent, SameIdentity

LEMMA SettleKeeps ==
    ASSUME PromiseInv, Promise!Settle
    PROVE  PromiseInv'
  <1> DEFINE charges == obligations' \ obligations
             evidence == receipts' \ receipts
  <1>1. /\ obligations' = obligations \cup charges /\ receipts' = receipts \cup evidence
        /\ \A c \in charges : ~Spent(obligations, c)
        /\ \A r \in evidence : ~Spent(receipts, r)
        /\ UniqueIdentity(charges) /\ UniqueIdentity(evidence)
    BY DEF Promise!Settle, Promise!Fresh, Promise!Spent, Spent, Promise!UniqueIdentity,
       UniqueIdentity, Promise!SameIdentity, SameIdentity, Promise!Identity, Identity
  <1>2. /\ \A c \in charges : c.version = offer[c.ref].generation
        /\ \A r \in evidence : r.ref \in Occurrences /\ r.version \in 1..offer[r.ref].generation
        /\ offer' = [o \in Occurrences |-> [offer[o] EXCEPT !.acked =
                        @ \/ \E c \in charges : c.ref = o]]
    BY DEF Promise!Settle
  <1>3. Promise!Agree(charges, evidence)
    BY DEF Promise!Settle
  <1> HIDE DEF charges, evidence
  <1>4. /\ \A c \in charges : Spent(Applied(evidence), c)
        /\ \A r \in Applied(evidence) : Spent(charges, r)
    BY <1>3, PromiseAgree DEF Agree
  <1>5. /\ OfferType'
        /\ \A o \in Occurrences :
              /\ offer'[o].generation = offer[o].generation
              /\ offer'[o].acked <=> (offer[o].acked \/ \E c \in charges : c.ref = o)
    <2> DEFINE then(o) == offer[o].acked \/ \E c \in charges : c.ref = o
    <2>1. \A o \in Occurrences : then(o) \in BOOLEAN
      OBVIOUS
    <2>2. offer' = [o \in Occurrences |-> [offer[o] EXCEPT !.acked = then(o)]]
      BY <1>2
    <2>3. \A o \in Occurrences : then(o) <=> (offer[o].acked \/ \E c \in charges : c.ref = o)
      OBVIOUS
    <2> HIDE DEF then
    <2>4. ASSUME NEW o \in Occurrences
          PROVE  /\ offer'[o] \in [generation : Nat, fingerprint : Fingerprints \cup {None},
                                   acked : BOOLEAN]
                 /\ offer'[o].generation = offer[o].generation
                 /\ offer'[o].acked = then(o)
      <3>1. offer[o] \in [generation : Nat, fingerprint : Fingerprints \cup {None}, acked : BOOLEAN]
        BY DEF PromiseInv, OfferType
      <3>2. offer'[o] = [offer[o] EXCEPT !.acked = then(o)]
        BY <2>2
      <3> QED  BY <2>1, <3>1, <3>2
    <2>5. OfferType'
      BY <2>2, <2>4 DEF OfferType
    <2> QED  BY <2>3, <2>4, <2>5
  <1>6. EvidenceIsPublished'
    BY <1>1, <1>2, <1>5 DEF PromiseInv, EvidenceIsPublished
  <1>7. ChargeMatchesEvidence'
    <2>1. /\ \A b \in obligations : Spent(Applied(receipts), b)
          /\ \A r \in Applied(receipts) : Spent(obligations, r)
      BY DEF PromiseInv, ChargeMatchesEvidence, Agree
    <2>2. Applied(receipts') = Applied(receipts) \cup Applied(evidence)
      BY <1>1, AppliedUnion
    <2>3. \A b \in obligations' : Spent(Applied(receipts'), b)
      BY <1>1, <1>4, <2>1, <2>2, SpentGrows
    <2>4. \A r \in Applied(receipts') : Spent(obligations', r)
      BY <1>1, <1>4, <2>1, <2>2, SpentGrows
    <2> QED  BY <2>3, <2>4 DEF ChargeMatchesEvidence, Agree
  <1>8. OneVerdictPerFact'
    BY <1>1, FreshUnion DEF PromiseInv, OneVerdictPerFact
  <1>9. ASSUME NEW o \in Occurrences
        PROVE  offer'[o].acked <=> Offered(o)' /\ ReceiptedVersion(o, "applied")'
    <2>1. offer[o].acked <=> Offered(o) /\ ReceiptedVersion(o, "applied")
      BY DEF PromiseInv, AckedIffApplied
    <2>2. ReceiptedVersion(o, "applied")' <=>
             \/ ReceiptedVersion(o, "applied")
             \/ \E r \in evidence : Identity(r) = <<o, offer[o].generation>> /\ r.outcome = "applied"
      BY <1>1, <1>5 DEF ReceiptedVersion
    <2>3. ASSUME NEW r \in evidence, Identity(r) = <<o, offer[o].generation>>, r.outcome = "applied"
          PROVE  \E c \in charges : c.ref = o
      <3>1. r \in Applied(evidence)
        BY <2>3 DEF Applied
      <3>2. PICK c \in charges : SameIdentity(c, r)
        BY <1>4, <3>1 DEF Spent
      <3> QED  BY <2>3, <3>2 DEF SameIdentity, Identity
    <2>4. ASSUME NEW c \in charges, c.ref = o
          PROVE  Offered(o) /\ \E r \in evidence :
                    Identity(r) = <<o, offer[o].generation>> /\ r.outcome = "applied"
      <3>1. PICK r \in Applied(evidence) : SameIdentity(r, c)
        BY <1>4 DEF Spent
      <3>2. /\ r \in evidence /\ r.outcome = "applied"
            /\ r.ref = o /\ r.version = offer[o].generation
        BY <1>2, <2>4, <3>1 DEF Applied, SameIdentity, Identity
      <3>3. offer[o].generation \in 1..offer[o].generation /\ offer[o].generation \in Nat
        BY <1>2, <3>2 DEF PromiseInv, OfferType
      <3> QED  BY <3>2, <3>3 DEF Offered, Identity
    <2>5. Offered(o)' <=> Offered(o)
      BY <1>5 DEF Offered
    <2>6. ASSUME ReceiptedVersion(o, "applied") PROVE Offered(o)
      <3>1. PICK r \in receipts : Identity(r) = <<o, offer[o].generation>>
        BY <2>6 DEF ReceiptedVersion
      <3>2. r.ref = o /\ r.version = offer[o].generation
        BY <3>1 DEF Identity
      <3>3. offer[o].generation \in 1..offer[o].generation /\ offer[o].generation \in Nat
        BY <3>2 DEF PromiseInv, EvidenceIsPublished, OfferType
      <3> QED  BY <3>3 DEF Offered
    <2> QED  BY <1>5, <2>1, <2>2, <2>3, <2>4, <2>5, <2>6
  <1>10. AckedIffApplied'
    BY <1>9 DEF AckedIffApplied, Offered, ReceiptedVersion
  <1> QED  BY <1>5, <1>6, <1>7, <1>8, <1>10 DEF PromiseInv

(***************************************************************************)
(* ChargeMatchesEvidence, OneVerdictPerFact and AckedIffApplied follow     *)
(* from the promise alone.                                                 *)
(***************************************************************************)
THEOREM PromiseIsEnough ==
    KeepsThePromise => [](ChargeMatchesEvidence /\ OneVerdictPerFact /\ AckedIffApplied)
  <1>1. PromiseInv /\ [Promise!Next]_(Promise!vars) => PromiseInv'
    <2>1. CASE UNCHANGED Promise!vars
      BY <2>1 DEF Promise!vars, PromiseInv, OfferType, EvidenceIsPublished,
         ChargeMatchesEvidence, OneVerdictPerFact, AckedIffApplied, Offered,
         ReceiptedVersion
    <2> QED  BY <2>1, PublishKeeps, SettleKeeps DEF Promise!Next
  <1>2. PromiseInv => ChargeMatchesEvidence /\ OneVerdictPerFact /\ AckedIffApplied
    BY DEF PromiseInv
  <1> QED  BY <1>1, <1>2, PromiseInit, PTL DEF KeepsThePromise, Promise!Spec
=============================================================================
