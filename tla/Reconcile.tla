------------------------------ MODULE Reconcile ------------------------------
(***************************************************************************)
(* reconcile of receipts.py: what an owner publishes against the receipts  *)
(* this application holds.  _latest_by_key folds the receipts, in the      *)
(* order they come, into the newest one of each key; then each published   *)
(* fact gets one verdict.  The four lists of the report are the published  *)
(* facts of each verdict, in the order of publication (settled is sorted). *)
(***************************************************************************)
EXTENDS ReceiptEvidence, Sequences

CONSTANTS
    Keys,              \* FactKey: owner and reference
    Fingerprints,
    None,              \* latest.get(key) finds nothing
    PublishedInputs,   \* the arguments reconcile is called with
    ReceivedInputs

Facts == [ref : Keys, version : Nat \ {0}, fingerprint : Fingerprints]
Receipts == [ref : Keys, version : Nat \ {0}, fingerprint : Fingerprints, outcome : Outcomes]

ASSUME InputsAssumption ==
    /\ PublishedInputs \subseteq Seq(Facts)
    /\ ReceivedInputs \subseteq Seq(Receipts)
    /\ None \notin Receipts

VARIABLES
    published, received,   \* the arguments
    folded,                \* how many receipts _latest_by_key has taken
    latest,                \* its dictionary
    verdicts               \* of the published facts taken so far

vars == <<published, received, folded, latest, verdicts>>

Verdicts == {"missing", "stale", "divergent", "settled"}

TypeOK ==
    /\ published \in PublishedInputs
    /\ received \in ReceivedInputs
    /\ folded \in 0..Len(received)
    /\ latest \in [Keys -> Receipts \cup {None}]
    /\ verdicts \in Seq(Verdicts)
    /\ Len(verdicts) \in 0..Len(published)

Init ==
    /\ published \in PublishedInputs
    /\ received \in ReceivedInputs
    /\ folded = 0
    /\ latest = [k \in Keys |-> None]
    /\ verdicts = <<>>

(* Mutation of IsNewer: the last receipt wins, whatever its version. *)
IsNewerAlways(receipt, current) == TRUE

(* Mutation of IsNewer: the last of the receipts of one version wins. *)
IsNewerOrEqual(receipt, current) == current = None \/ receipt.version >= current.version

IsNewer(receipt, current) == current = None \/ receipt.version > current.version

(* One turn of the loop of _latest_by_key. *)
Fold ==
    /\ folded < Len(received)
    /\ folded' = folded + 1
    /\ LET receipt == received[folded + 1]
       IN  latest' = IF IsNewer(receipt, latest[receipt.ref])
                     THEN [latest EXCEPT ![receipt.ref] = receipt]
                     ELSE latest
    /\ UNCHANGED <<published, received, verdicts>>

(* Mutation of Verdict: only the exact version settles a fact. *)
VerdictOfExact(fact, receipt) ==
    CASE receipt = None -> "missing"
      [] receipt # None /\ receipt.version < fact.version -> "stale"
      [] receipt # None /\ receipt.version = fact.version
           /\ receipt.fingerprint = fact.fingerprint -> "settled"
      [] OTHER -> "divergent"

(* Mutation of Verdict: any receipt of another version settles the fact. *)
VerdictForgetsStale(fact, receipt) ==
    CASE receipt = None -> "missing"
      [] receipt # None /\ receipt.version = fact.version
           /\ receipt.fingerprint # fact.fingerprint -> "divergent"
      [] OTHER -> "settled"

(* Mutation of Verdict: content is compared before versions are. *)
VerdictOfContent(fact, receipt) ==
    CASE receipt = None -> "missing"
      [] receipt # None /\ receipt.fingerprint # fact.fingerprint -> "divergent"
      [] receipt # None /\ receipt.fingerprint = fact.fingerprint
           /\ receipt.version < fact.version -> "stale"
      [] OTHER -> "settled"

(* The outcome is not consulted: a refusal settles its fact as well. *)
Verdict(fact, receipt) ==
    CASE receipt = None -> "missing"
      [] receipt # None /\ receipt.version < fact.version -> "stale"
      [] receipt # None /\ receipt.version = fact.version
           /\ receipt.fingerprint # fact.fingerprint -> "divergent"
      [] OTHER -> "settled"

(* One turn of the loop over the published facts. *)
Classify ==
    /\ folded = Len(received)
    /\ Len(verdicts) < Len(published)
    /\ LET fact == published[Len(verdicts) + 1]
       IN  verdicts' = Append(verdicts, Verdict(fact, latest[fact.ref]))
    /\ UNCHANGED <<published, received, folded, latest>>

Next == Fold \/ Classify

Spec == Init /\ [][Next]_vars
-----------------------------------------------------------------------------
Reported == folded = Len(received) /\ Len(verdicts) = Len(published)

(* ReconciliationReport.converged *)
Converged == \A p \in 1..Len(verdicts) : verdicts[p] = "settled"

Evidence == {received[n] : n \in 1..Len(received)}

(***************************************************************************)
(* What each verdict promises about the whole of the evidence.  It names   *)
(* no order: an early, late or superseded receipt changes a verdict only   *)
(* by what it says.                                                        *)
(***************************************************************************)
Means(verdict, fact) ==
    CASE verdict = "missing"   -> Of(Evidence, fact.ref) = {}
      [] verdict = "stale"     -> /\ Of(Evidence, fact.ref) # {}
                                  /\ \A r \in Of(Evidence, fact.ref) : r.version < fact.version
      [] verdict = "divergent" -> /\ \A r \in Of(Evidence, fact.ref) : r.version <= fact.version
                                  /\ \E r \in Of(Evidence, fact.ref) :
                                        /\ r.version = fact.version
                                        /\ r.fingerprint # fact.fingerprint
      [] verdict = "settled"   -> \E r \in Of(Evidence, fact.ref) :
                                        \/ r.version > fact.version
                                        \/ /\ r.version = fact.version
                                           /\ r.fingerprint = fact.fingerprint

(***************************************************************************)
(* On the evidence of one ledger, which holds one receipt per exact fact,  *)
(* a verdict is what the evidence says and the only one that fits it, so   *)
(* the report does not depend on the order receipts are read in.           *)
(***************************************************************************)
VerdictsAreJust ==
    UniqueIdentity(Evidence) =>
        \A p \in 1..Len(verdicts) : \A v \in Verdicts :
            Means(v, published[p]) <=> v = verdicts[p]

(***************************************************************************)
(* A report that calls itself converged vouches for every published fact:  *)
(* it was acted on, exactly or at a later version, whatever the evidence   *)
(* looks like.                                                             *)
(***************************************************************************)
ConvergedMeansActedOn ==
    Reported /\ Converged =>
        \A p \in 1..Len(published) : Means("settled", published[p])

(***************************************************************************)
(* The whole of reconcile as one function of a set of evidence: what the   *)
(* newest receipt of the fact's key says of the fact.                      *)
(***************************************************************************)
Newest(log, key) ==
    IF Of(log, key) = {} THEN None ELSE CHOOSE r \in Of(log, key) : IsNewest(log, r)

Judge(fact, log) == Verdict(fact, Newest(log, fact.ref))

(***************************************************************************)
(* The two loops compute that function on the evidence of one ledger,      *)
(* whatever order receipts_for returned it in and however often one        *)
(* receipt is in it: so a caller may take an audit for one step over a set *)
(* (RepairLoop does).                                                      *)
(***************************************************************************)
ReportIsJudgement ==
    UniqueIdentity(Evidence) =>
        \A p \in 1..Len(verdicts) : verdicts[p] = Judge(published[p], Evidence)

(***************************************************************************)
(* Why: latest holds the first of the newest receipts of each key, among   *)
(* those folded so far.                                                    *)
(***************************************************************************)
IsFirstNewest(n, key) ==
    /\ received[n].ref = key
    /\ \A m \in 1..folded : received[m].ref = key =>
          \/ received[m].version < received[n].version
          \/ received[m].version = received[n].version /\ n <= m

LatestIsFirstNewest ==
    \A k \in Keys :
        IF latest[k] = None THEN \A m \in 1..folded : received[m].ref # k
        ELSE \E n \in 1..folded : latest[k] = received[n] /\ IsFirstNewest(n, k)

(* The verdicts so far are those of the finished dictionary. *)
VerdictsFollowLatest ==
    /\ verdicts # <<>> => folded = Len(received)
    /\ \A p \in 1..Len(verdicts) : verdicts[p] = Verdict(published[p], latest[published[p].ref])

(***************************************************************************)
(* The state of the two loops: the dictionary is that of the receipts      *)
(* taken so far, and no verdict is given before it is complete.            *)
(***************************************************************************)
IInv == TypeOK /\ LatestIsFirstNewest /\ VerdictsFollowLatest
=============================================================================
