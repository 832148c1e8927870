----------------------------- MODULE Composition -----------------------------
(***************************************************************************)
(* The production gate of composition.py: load_manifest reads the root of  *)
(* a manifest and validates the declared components one by one, evaluate   *)
(* collects a blocker for each that is not released and composed,          *)
(* require_production_ready lets the report pass or refuses it.  evaluate  *)
(* also takes a tuple of components that load_manifest has never seen.     *)
(*                                                                         *)
(* What the JSON looks like is reduced to whether the root and each        *)
(* component are readable at all, whether the schema version is 1, and     *)
(* whether release evidence is absent, valid, or invalid (a wrong tag, a   *)
(* commit that is no SHA).  Names are numbers: the order of the            *)
(* distributions matters, their letters do not.                            *)
(***************************************************************************)
EXTENDS Naturals, Sequences

CONSTANTS
    Names,
    Manifests,      \* what cloud_v1_bom.json may declare
    HandBuilt       \* the tuples other callers may pass to evaluate

Availabilities == {"released", "source-unreleased", "source-missing"}
Activations == {"pending", "composed"}
Evidence == {"absent", "valid", "invalid"}
(* unreadable: not JSON, no object, or its components are no list. *)
Roots == {"unreadable", "other_schema", "schema_1"}
Blockers == [component : Nat, code : {"its_blocker", "released_not_composed"}]
Declarations == [distribution : Names, readable : BOOLEAN, availability : Availabilities,
                 activation : Activations, release : Evidence, explained : BOOLEAN]

ASSUME CompositionAssumption ==
    /\ Names \subseteq Nat
    /\ Manifests \subseteq Seq(Declarations)
    /\ HandBuilt \subseteq {s \in Seq(Declarations) :
                              \A n \in 1..Len(s) : s[n].readable}

VARIABLES
    root,         \* of the manifest's JSON; "none" of a hand-built tuple
    components,   \* the declaration, or the tuple given to evaluate
    loaded,       \* load_manifest has validated it
    taken,        \* components taken in the current loop
    blockers,     \* of the report so far: position and code
    stage

vars == <<root, components, loaded, taken, blockers, stage>>

TypeOK ==
    /\ root \in Roots \cup {"none"}
    /\ components \in Manifests \cup HandBuilt
    /\ loaded \in BOOLEAN
    /\ taken \in 0..Len(components)
    /\ blockers \in Seq(Blockers)
    /\ \A b \in 1..Len(blockers) : blockers[b].component \in 1..Len(components)
    /\ stage \in {"reading", "loading", "evaluating", "reported", "ready", "blocked",
                 "malformed"}

Init ==
    /\ taken = 0
    /\ blockers = <<>>
    /\ loaded = FALSE
    /\ \/ root \in Roots /\ components \in Manifests /\ stage = "reading"
       \/ root = "none" /\ components \in HandBuilt /\ stage = "evaluating"

(* The root of the manifest: readable JSON of schema 1 with components. *)
Acceptable == root = "schema_1" /\ components # <<>>

ReadRoot ==
    /\ stage = "reading"
    /\ stage' = IF Acceptable THEN "loading" ELSE "malformed"
    /\ UNCHANGED <<root, components, loaded, taken, blockers>>

Released(c) == c.availability = "released"

(* Mutation of ReleaseFits: the tag and the commit are not looked at. *)
ReleaseUnchecked(c) == Released(c) <=> c.release # "absent"

(* _release: evidence is there, and right, exactly when there is a release. *)
ReleaseFits(c) == c.release = IF Released(c) THEN "valid" ELSE "absent"

(* Mutation of WellFormed: an unreleased component needs no blocker. *)
WellFormedUnexplained(c) ==
    /\ c.readable
    /\ ReleaseFits(c)
    /\ c.explained => ~Released(c)
    /\ c.activation = "composed" => c.release # "absent"

(* _component *)
WellFormed(c) ==
    /\ c.readable
    /\ ReleaseFits(c)
    /\ c.explained <=> ~Released(c)
    /\ c.activation = "composed" => c.release # "absent"

LoadComponent ==
    /\ stage = "loading" /\ taken < Len(components)
    /\ IF WellFormed(components[taken + 1])
       THEN taken' = taken + 1 /\ stage' = stage
       ELSE taken' = taken /\ stage' = "malformed"
    /\ UNCHANGED <<root, components, loaded, blockers>>

(* Mutation of Orderly: sorted, so equal neighbours pass. *)
Sorted(s) == \A m, n \in 1..Len(s) : m < n => s[m].distribution <= s[n].distribution

(* No duplicate distribution, sorted by distribution. *)
Orderly(s) == \A m, n \in 1..Len(s) : m < n => s[m].distribution < s[n].distribution

FinishLoading ==
    /\ stage = "loading" /\ taken = Len(components)
    /\ IF Orderly(components)
       THEN taken' = 0 /\ loaded' = TRUE /\ stage' = "evaluating"
       ELSE stage' = "malformed" /\ UNCHANGED <<taken, loaded>>
    /\ UNCHANGED <<root, components, blockers>>

(* Mutation of BlockersOf: a release is taken for an adoption. *)
BlockersOfUnreleased(n) ==
    IF ~Released(components[n]) THEN <<[component |-> n, code |-> "its_blocker"]>>
    ELSE <<>>

(* The blocker of the n-th component, if it has one. *)
BlockersOf(n) ==
    IF ~Released(components[n]) THEN <<[component |-> n, code |-> "its_blocker"]>>
    ELSE IF components[n].activation # "composed"
    THEN <<[component |-> n, code |-> "released_not_composed"]>>
    ELSE <<>>

(* No release and no blocker to report: evaluate raises ManifestError. *)
Unexplained(c) == ~Released(c) /\ ~c.explained

EvaluateComponent ==
    /\ stage = "evaluating" /\ taken < Len(components)
    /\ IF Unexplained(components[taken + 1])
       THEN stage' = "malformed" /\ UNCHANGED <<taken, blockers>>
       ELSE /\ taken' = taken + 1
            /\ blockers' = blockers \o BlockersOf(taken + 1)
            /\ stage' = stage
    /\ UNCHANGED <<root, components, loaded>>

Report ==
    /\ stage = "evaluating" /\ taken = Len(components)
    /\ stage' = "reported"
    /\ UNCHANGED <<root, components, loaded, taken, blockers>>

(* require_production_ready *)
Gate ==
    /\ stage = "reported"
    /\ stage' = IF blockers = <<>> THEN "ready" ELSE "blocked"
    /\ UNCHANGED <<root, components, loaded, taken, blockers>>

Next == ReadRoot \/ LoadComponent \/ FinishLoading \/ EvaluateComponent \/ Report \/ Gate

Spec == Init /\ [][Next]_vars
-----------------------------------------------------------------------------
Judged == stage \in {"reported", "ready", "blocked"}

(***************************************************************************)
(* "A component is production-ready only when the checked-in manifest      *)
(* carries immutable release evidence and the application has activated    *)
(* that exact release": the gate opens on a manifest only if that holds of *)
(* every component, and it does not open on nothing.                       *)
(***************************************************************************)
GateIsSound == loaded /\ stage = "ready" =>
    /\ components # <<>>
    /\ \A n \in 1..Len(components) :
          /\ Released(components[n]) /\ components[n].release = "valid"
          /\ components[n].activation = "composed"

(***************************************************************************)
(* A report accounts for every component: it is adopted or it is named,    *)
(* once, in the order of the manifest.  A blocker carries no more than its *)
(* distribution: on a loaded manifest that is enough to tell which         *)
(* component it is about, adopted components included.                     *)
(***************************************************************************)
Adopted(c) == Released(c) /\ c.activation = "composed"
ReportIsComplete == Judged =>
    /\ \A n \in 1..Len(components) :
          ~Adopted(components[n]) <=> \E b \in 1..Len(blockers) : blockers[b].component = n
    /\ \A a, b \in 1..Len(blockers) : a < b => blockers[a].component < blockers[b].component
    /\ loaded => \A b \in 1..Len(blockers), n \in 1..Len(components) :
          n # blockers[b].component =>
              components[n].distribution # components[blockers[b].component].distribution

(***************************************************************************)
(* The other direction: the gate refuses nothing but what is really wrong. *)
(* A ManifestError is about the declaration - its root, names out of       *)
(* order, an ill-formed component - and never about one load_manifest   *)
(* has accepted; CompositionBlocked is about a component not adopted.      *)
(***************************************************************************)
RefusalHasCause ==
    /\ stage = "malformed" =>
          /\ ~loaded
          /\ \/ root \in Roots /\ ~Acceptable
             \/ ~Orderly(components)
             \/ \E n \in 1..Len(components) : ~WellFormed(components[n])
    /\ stage = "blocked" => \E n \in 1..Len(components) : ~Adopted(components[n])

(* What the loops have established about the components they have taken. *)
LoopInv ==
    /\ stage \in {"reading", "loading"} => blockers = <<>> /\ ~loaded
    /\ stage = "reading" => root \in Roots /\ taken = 0
    /\ stage = "loading" => Acceptable
    /\ stage = "loading" => \A n \in 1..taken : WellFormed(components[n])
    /\ loaded =>
          /\ Acceptable /\ Orderly(components)
          /\ \A n \in 1..Len(components) : WellFormed(components[n])
    /\ stage \in {"evaluating", "reported", "ready", "blocked"} =>
          /\ \A n \in 1..taken :
                ~Adopted(components[n]) <=> \E b \in 1..Len(blockers) : blockers[b].component = n
          /\ \A b \in 1..Len(blockers) : blockers[b].component <= taken
          /\ \A a, b \in 1..Len(blockers) : a < b => blockers[a].component < blockers[b].component
    /\ Judged => taken = Len(components)
    /\ stage = "ready" => blockers = <<>>

IInv == TypeOK /\ LoopInv /\ RefusalHasCause
=============================================================================
