--------------------------- MODULE ReconcileProofs ---------------------------
(***************************************************************************)
(* Proofs about Reconcile for inputs of any length, any number of keys and *)
(* any versions: the loops of reconcile compute what their verdicts mean.  *)
(***************************************************************************)
EXTENDS Reconcile, TLAPS

LEMMA InputType ==
    ASSUME TypeOK
    PROVE  /\ published \in Seq(Facts) /\ received \in Seq(Receipts)
           /\ \A p \in 1..Len(published) : published[p] \in Facts
           /\ \A n \in 1..Len(received) : received[n] \in Receipts
  BY InputsAssumption DEF TypeOK

LEMMA VerdictType ==
    ASSUME NEW fact, NEW receipt
    PROVE  Verdict(fact, receipt) \in Verdicts
  BY DEF Verdict, Verdicts

LEMMA StepType == TypeOK /\ [Next]_vars => TypeOK'
  <1> SUFFICES ASSUME TypeOK, [Next]_vars PROVE TypeOK'
    OBVIOUS
  <1>1. CASE UNCHANGED vars
    BY <1>1 DEF TypeOK, vars
  <1>2. CASE Fold
    <2>1. received[folded + 1] \in Receipts /\ folded' \in 0..Len(received)
      BY <1>2, InputType DEF Fold, TypeOK
    <2>2. latest' \in [Keys -> Receipts \cup {None}]
      BY <1>2, <2>1 DEF Fold, TypeOK
    <2> QED  BY <1>2, <2>1, <2>2 DEF Fold, TypeOK
  <1>3. CASE Classify
    <2> DEFINE fact == published[Len(verdicts) + 1]
               verdict == Verdict(fact, latest[fact.ref])
    <2>1. verdict \in Verdicts
      BY VerdictType
    <2>2. verdicts' = Append(verdicts, verdict) /\ Len(verdicts) < Len(published)
      BY <1>3 DEF Classify
    <2> HIDE DEF verdict
    <2>3. verdicts' \in Seq(Verdicts) /\ Len(verdicts') \in 0..Len(published)
      BY <2>1, <2>2, InputType DEF TypeOK
    <2> QED  BY <1>3, <2>3 DEF Classify, TypeOK
  <1> QED  BY <1>1, <1>2, <1>3 DEF Next

LEMMA InitType == Init => TypeOK
  BY InputsAssumption DEF Init, TypeOK

(* reconcile keeps its types: every verdict is one of the four lists. *)
THEOREM TypeCorrect == Spec => []TypeOK
  BY InitType, StepType, PTL DEF Spec

(***************************************************************************)
(* The first loop.  A receipt that is not newer changes nothing; a newer   *)
(* one is newer than all before it.                                        *)
(***************************************************************************)
LEMMA FoldLatest == TypeOK /\ LatestIsFirstNewest /\ Fold => LatestIsFirstNewest'
  <1> SUFFICES ASSUME TypeOK, LatestIsFirstNewest, Fold PROVE LatestIsFirstNewest'
    OBVIOUS
  <1> DEFINE next == folded + 1
             receipt == received[next]
             FirstNewest(n, k) ==
                /\ received[n].ref = k
                /\ \A m \in 1..next : received[m].ref = k =>
                      \/ received[m].version < received[n].version
                      \/ received[m].version = received[n].version /\ n <= m
  <1>1. /\ receipt \in Receipts /\ receipt # None
        /\ folded \in Nat /\ folded' = next /\ received' = received
    BY InputType, InputsAssumption DEF Fold, TypeOK
  <1>2. /\ \A m \in 1..next : received[m].version \in Nat
        /\ 1..next = 1..folded \cup {next}
    BY <1>1, InputType DEF Fold, Receipts
  <1>3. ASSUME NEW k \in Keys
        PROVE  IF latest'[k] = None THEN \A m \in 1..next : received[m].ref # k
               ELSE \E n \in 1..next : latest'[k] = received[n] /\ FirstNewest(n, k)
    <2>1. CASE receipt.ref # k
      <3>1. latest'[k] = latest[k]
        BY <2>1 DEF Fold, TypeOK
      <3> QED  BY <1>1, <1>2, <2>1, <3>1 DEF LatestIsFirstNewest, IsFirstNewest
    <2>2. CASE receipt.ref = k /\ latest[k] = None
      <3>1. latest'[k] = receipt
        BY <2>2 DEF Fold, TypeOK, IsNewer
      <3>2. \A m \in 1..folded : received[m].ref # k
        BY <2>2 DEF LatestIsFirstNewest
      <3>3. next \in 1..next /\ FirstNewest(next, k)
        BY <1>1, <1>2, <2>2, <3>2
      <3> QED  BY <1>1, <3>1, <3>3
    <2>3. CASE receipt.ref = k /\ latest[k] # None
      <3>1. PICK n \in 1..folded : latest[k] = received[n] /\ IsFirstNewest(n, k)
        BY <2>3 DEF LatestIsFirstNewest
      <3>2. n \in 1..next
        BY <1>2
      <3>3. CASE receipt.version > latest[k].version
        <4>1. latest'[k] = receipt
          BY <2>3, <3>3 DEF Fold, TypeOK, IsNewer
        <4>2. next \in 1..next /\ FirstNewest(next, k)
          BY <1>1, <1>2, <2>3, <3>1, <3>2, <3>3 DEF IsFirstNewest
        <4> QED  BY <1>1, <4>1, <4>2
      <3>4. CASE ~(receipt.version > latest[k].version)
        <4>1. latest'[k] = latest[k]
          BY <2>3, <3>4 DEF Fold, TypeOK, IsNewer
        <4>2. FirstNewest(n, k)
          BY <1>1, <1>2, <2>3, <3>1, <3>2, <3>4 DEF IsFirstNewest
        <4> QED  BY <2>3, <3>1, <3>2, <4>1, <4>2
      <3> QED  BY <3>3, <3>4
    <2> QED  BY <2>1, <2>2, <2>3
  <1> QED  BY <1>1, <1>3 DEF LatestIsFirstNewest, IsFirstNewest

LEMMA StepLatest == TypeOK /\ LatestIsFirstNewest /\ [Next]_vars => LatestIsFirstNewest'
  <1>1. LatestIsFirstNewest /\ (Classify \/ UNCHANGED vars) => LatestIsFirstNewest'
    BY DEF LatestIsFirstNewest, IsFirstNewest, Classify, vars
  <1> QED  BY <1>1, FoldLatest DEF Next

(***************************************************************************)
(* _latest_by_key keeps the first of the newest receipts of each key, in   *)
(* whatever order and however often they come.                             *)
(***************************************************************************)
THEOREM LatestIsNewest == Spec => []LatestIsFirstNewest
  <1>1. Init => LatestIsFirstNewest
    BY DEF Init, LatestIsFirstNewest
  <1> QED  BY <1>1, TypeCorrect, StepLatest, PTL DEF Spec

LEMMA StepVerdicts ==
    TypeOK /\ VerdictsFollowLatest /\ [Next]_vars => VerdictsFollowLatest'
  <1> SUFFICES ASSUME TypeOK, VerdictsFollowLatest, [Next]_vars
               PROVE  VerdictsFollowLatest'
    OBVIOUS
  <1>1. CASE UNCHANGED vars
    BY <1>1 DEF VerdictsFollowLatest, vars
  <1>2. CASE Fold
    <2>1. verdicts = <<>> /\ verdicts' = verdicts
      BY <1>2, InputType DEF VerdictsFollowLatest, Fold, TypeOK
    <2> QED  BY <2>1 DEF VerdictsFollowLatest
  <1>3. CASE Classify
    <2> DEFINE fact == published[Len(verdicts) + 1]
               verdict == Verdict(fact, latest[fact.ref])
    <2>1. /\ verdicts' = Append(verdicts, verdict) /\ folded = Len(received)
          /\ UNCHANGED <<published, received, folded, latest>>
      BY <1>3 DEF Classify
    <2>2. verdict \in Verdicts
      BY VerdictType
    <2>3. /\ Len(verdicts') = Len(verdicts) + 1 /\ Len(verdicts) \in Nat
          /\ verdicts'[Len(verdicts) + 1] = verdict
          /\ \A p \in 1..Len(verdicts) : verdicts'[p] = verdicts[p]
      <3> HIDE DEF verdict
      <3> QED  BY <2>1, <2>2 DEF TypeOK
    <2>4. \A p \in 1..Len(verdicts') :
             verdicts'[p] = Verdict(published[p], latest[published[p].ref])
      <3>1. \A p \in 1..Len(verdicts') : p \in 1..Len(verdicts) \/ p = Len(verdicts) + 1
        BY <2>3
      <3> QED  BY <2>3, <3>1 DEF VerdictsFollowLatest
    <2> QED  BY <2>1, <2>4 DEF VerdictsFollowLatest
  <1> QED  BY <1>1, <1>2, <1>3 DEF Next

(***************************************************************************)
(* What one verdict means, given the first loop has run to its end.        *)
(***************************************************************************)
LEMMA LatestIsOf ==
    ASSUME TypeOK, LatestIsFirstNewest, folded = Len(received), NEW k \in Keys
    PROVE  /\ latest[k] = None => Of(Evidence, k) = {}
           /\ latest[k] # None =>
                 /\ latest[k] \in Of(Evidence, k) /\ latest[k].version \in Nat
                 /\ \A r \in Of(Evidence, k) : r.version \in Nat /\ r.version <= latest[k].version
  <1>1. /\ folded \in Nat
        /\ \A n \in 1..folded : received[n].version \in Nat
    BY InputType DEF TypeOK, Receipts
  <1>2. CASE latest[k] = None
    <2>1. \A m \in 1..folded : received[m].ref # k
      BY <1>2 DEF LatestIsFirstNewest
    <2> QED  BY <1>2, <2>1 DEF Of, Evidence
  <1>3. CASE latest[k] # None
    <2>1. PICK n \in 1..folded : latest[k] = received[n] /\ IsFirstNewest(n, k)
      BY <1>3 DEF LatestIsFirstNewest
    <2>2. latest[k] \in Of(Evidence, k)
      BY <2>1 DEF Of, Evidence, IsFirstNewest
    <2>3. \A r \in Of(Evidence, k) : r.version \in Nat /\ r.version <= latest[k].version
      BY <1>1, <2>1 DEF Of, Evidence, IsFirstNewest
    <2> QED  BY <1>1, <1>3, <2>1, <2>2, <2>3
  <1> QED  BY <1>2, <1>3

LEMMA VerdictSound ==
    ASSUME TypeOK, LatestIsFirstNewest, VerdictsFollowLatest, NEW p \in 1..Len(verdicts)
    PROVE  /\ verdicts[p] \in Verdicts
           /\ Means(verdicts[p], published[p])
  <1> DEFINE fact == published[p]
             receipt == latest[fact.ref]
  <1>1. /\ p \in 1..Len(published) /\ fact \in Facts /\ fact.ref \in Keys
        /\ fact.version \in Nat
    BY InputType DEF TypeOK, Facts
  <1>2. verdicts # <<>> /\ folded = Len(received) /\ verdicts[p] = Verdict(fact, receipt)
    BY DEF VerdictsFollowLatest, TypeOK
  <1>3. /\ receipt = None => Of(Evidence, fact.ref) = {}
        /\ receipt # None =>
              /\ receipt \in Of(Evidence, fact.ref) /\ receipt.version \in Nat
              /\ \A r \in Of(Evidence, fact.ref) : r.version \in Nat /\ r.version <= receipt.version
    BY <1>1, <1>2, LatestIsOf
  <1> HIDE DEF fact, receipt
  <1>4. Means(Verdict(fact, receipt), fact)
    <2>1. CASE receipt = None
      <3>1. Verdict(fact, receipt) = "missing"
        BY <2>1 DEF Verdict
      <3> QED  BY <1>3, <2>1, <3>1 DEF Means
    <2>2. CASE receipt # None /\ receipt.version < fact.version
      <3>1. Verdict(fact, receipt) = "stale"
        BY <1>1, <1>3, <2>2 DEF Verdict
      <3>2. \A r \in Of(Evidence, fact.ref) : r.version < fact.version
        BY <1>1, <1>3, <2>2
      <3> QED  BY <1>3, <2>2, <3>1, <3>2 DEF Means
    <2>3. CASE /\ receipt # None /\ receipt.version = fact.version
               /\ receipt.fingerprint # fact.fingerprint
      <3>1. Verdict(fact, receipt) = "divergent"
        BY <1>1, <1>3, <2>3 DEF Verdict
      <3> QED  BY <1>1, <1>3, <2>3, <3>1 DEF Means
    <2>4. CASE \/ receipt # None /\ receipt.version > fact.version
               \/ /\ receipt # None /\ receipt.version = fact.version
                  /\ receipt.fingerprint = fact.fingerprint
      <3>1. Verdict(fact, receipt) = "settled"
        BY <1>1, <1>3, <2>4 DEF Verdict
      <3> QED  BY <1>1, <1>3, <2>4, <3>1 DEF Means
    <2> QED  BY <1>1, <1>3, <2>1, <2>2, <2>3, <2>4
  <1> QED  BY <1>2, <1>4, VerdictType DEF fact

(* On valid evidence no two verdicts fit one fact. *)
LEMMA MeaningsExclude ==
    ASSUME TypeOK, UniqueIdentity(Evidence), NEW fact \in Facts,
           NEW v \in Verdicts, NEW w \in Verdicts, Means(v, fact), Means(w, fact)
    PROVE  v = w
  <1>1. fact.version \in Nat /\ \A r \in Of(Evidence, fact.ref) : r.version \in Nat /\ r \in Evidence
                                                        /\ r.ref = fact.ref
    BY InputType DEF Facts, Of, Evidence, Receipts, TypeOK
  <1>2. \A r, s \in Of(Evidence, fact.ref) : r.version = s.version => r = s
    BY <1>1 DEF UniqueIdentity, SameIdentity, Identity
  <1>3. \A x \in {v, w} :
           /\ x = "missing" => Of(Evidence, fact.ref) = {}
           /\ x = "stale" => /\ Of(Evidence, fact.ref) # {}
                             /\ \A r \in Of(Evidence, fact.ref) : r.version < fact.version
           /\ x = "divergent" => /\ \A r \in Of(Evidence, fact.ref) : r.version <= fact.version
                                 /\ \E r \in Of(Evidence, fact.ref) :
                                       /\ r.version = fact.version
                                       /\ r.fingerprint # fact.fingerprint
           /\ x = "settled" => \E r \in Of(Evidence, fact.ref) :
                                  \/ r.version > fact.version
                                  \/ /\ r.version = fact.version
                                     /\ r.fingerprint = fact.fingerprint
    BY DEF Means
  <1>4. v \in {"missing", "stale", "divergent", "settled"}
        /\ w \in {"missing", "stale", "divergent", "settled"}
    BY DEF Verdicts
  <1> DEFINE Other(x, y) == {v, w} = {x, y} => FALSE
  <1>5. Other("missing", "stale") /\ Other("missing", "divergent")
    BY <1>3
  <1>6. Other("missing", "settled")
    BY <1>3
  <1>7. Other("stale", "divergent")
    BY <1>1, <1>3
  <1>8. Other("stale", "settled")
    BY <1>1, <1>3
  <1>9. Other("divergent", "settled")
    BY <1>1, <1>2, <1>3
  <1> QED  BY <1>4, <1>5, <1>6, <1>7, <1>8, <1>9

(***************************************************************************)
(* Every verdict of reconcile is the one and only verdict that fits the    *)
(* evidence of a ledger, independent of the order it is read in.           *)
(***************************************************************************)
THEOREM VerdictsJust == Spec => []VerdictsAreJust
  <1>1. Init => VerdictsFollowLatest
    BY DEF Init, VerdictsFollowLatest
  <1>2. TypeOK /\ LatestIsFirstNewest /\ VerdictsFollowLatest => VerdictsAreJust
    <2> SUFFICES ASSUME TypeOK, LatestIsFirstNewest, VerdictsFollowLatest,
                        UniqueIdentity(Evidence),
                        NEW p \in 1..Len(verdicts), NEW v \in Verdicts
                 PROVE  Means(v, published[p]) <=> v = verdicts[p]
      BY DEF VerdictsAreJust
    <2>1. published[p] \in Facts
      BY InputType DEF TypeOK
    <2>2. verdicts[p] \in Verdicts /\ Means(verdicts[p], published[p])
      BY VerdictSound
    <2> QED  BY <2>1, <2>2, MeaningsExclude
  <1> QED  BY <1>1, <1>2, TypeCorrect, LatestIsNewest, StepVerdicts, PTL DEF Spec

(***************************************************************************)
(* A converged report vouches for every published fact, on any evidence,   *)
(* a corrupted ledger's included.                                          *)
(***************************************************************************)
THEOREM ConvergedIsSound == Spec => []ConvergedMeansActedOn
  <1>1. Init => VerdictsFollowLatest
    BY DEF Init, VerdictsFollowLatest
  <1>2. TypeOK /\ LatestIsFirstNewest /\ VerdictsFollowLatest => ConvergedMeansActedOn
    BY VerdictSound DEF ConvergedMeansActedOn, Reported, Converged
  <1> QED  BY <1>1, <1>2, TypeCorrect, LatestIsNewest, StepVerdicts, PTL DEF Spec

(***************************************************************************)
(* The loops keep their invariant: the dictionary is that of the receipts  *)
(* taken so far and no verdict is given before it is complete.             *)
(***************************************************************************)
THEOREM Invariance == Spec => []IInv
  <1>1. Init => VerdictsFollowLatest
    BY DEF Init, VerdictsFollowLatest
  <1> QED  BY <1>1, TypeCorrect, LatestIsNewest, StepVerdicts, PTL DEF Spec, IInv

(* On valid evidence the dictionary holds what Newest chooses. *)
LEMMA LatestIsChosen ==
    ASSUME IInv, folded = Len(received), UniqueIdentity(Evidence), NEW k \in Keys
    PROVE  latest[k] = Newest(Evidence, k)
  <1> DEFINE newest == latest[k]
  <1>1. /\ newest = None => Of(Evidence, k) = {}
        /\ newest # None =>
              /\ newest \in Of(Evidence, k) /\ newest.version \in Nat
              /\ \A r \in Of(Evidence, k) : r.version \in Nat /\ r.version <= newest.version
    BY LatestIsOf DEF IInv
  <1>2. \A r \in Of(Evidence, k) : r \in Evidence /\ r.ref = k
    BY DEF Of
  <1> HIDE DEF newest
  <1>3. CASE newest = None
    BY <1>1, <1>3 DEF Newest, newest
  <1>4. CASE newest # None
    <2>1. IsNewest(Evidence, newest)
      BY <1>1, <1>2, <1>4 DEF IsNewest
    <2>2. ASSUME NEW r \in Of(Evidence, k), IsNewest(Evidence, r)
          PROVE  r = newest
      <3>1. newest.version <= r.version
        BY <1>1, <1>2, <1>4, <2>2 DEF IsNewest
      <3>2. r.version = newest.version
        BY <1>1, <1>4, <3>1
      <3> QED  BY <1>1, <1>2, <1>4, <3>2 DEF UniqueIdentity, SameIdentity, Identity
    <2>3. Newest(Evidence, k) = CHOOSE r \in Of(Evidence, k) : IsNewest(Evidence, r)
      BY <1>1, <1>4 DEF Newest
    <2>4. newest \in Of(Evidence, k)
      BY <1>1, <1>4
    <2> QED  BY <2>1, <2>2, <2>3, <2>4 DEF newest
  <1> QED  BY <1>3, <1>4

(***************************************************************************)
(* On the evidence of one ledger the two loops compute a function of the   *)
(* set of receipts, whatever order and repetition they come in.            *)
(***************************************************************************)
THEOREM ReportIsOfTheSet == Spec => []ReportIsJudgement
  <1>1. IInv => ReportIsJudgement
    <2> SUFFICES ASSUME IInv, UniqueIdentity(Evidence), NEW p \in 1..Len(verdicts)
                 PROVE  verdicts[p] = Judge(published[p], Evidence)
      BY DEF ReportIsJudgement
    <2>1. published[p].ref \in Keys
      <3>1. TypeOK
        BY DEF IInv
      <3>2. published \in Seq(Facts)
        BY <3>1, InputType
      <3>3. p \in 1..Len(published)
        BY <3>1, <3>2 DEF TypeOK
      <3>4. published[p] \in Facts
        BY <3>1, <3>3, InputType
      <3> QED  BY <3>4 DEF Facts
    <2>2. /\ folded = Len(received)
          /\ verdicts[p] = Verdict(published[p], latest[published[p].ref])
      BY DEF IInv, VerdictsFollowLatest, TypeOK
    <2> QED  BY <2>1, <2>2, LatestIsChosen DEF Judge
  <1> QED  BY <1>1, Invariance, PTL
=============================================================================
