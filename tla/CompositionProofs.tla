-------------------------- MODULE CompositionProofs --------------------------
(***************************************************************************)
(* Proofs about Composition for manifests of any length and content.       *)
(***************************************************************************)
EXTENDS Composition, SequenceTheorems, TLAPS

LEMMA ComponentType ==
    ASSUME TypeOK
    PROVE  /\ components \in Seq(Declarations) /\ Len(components) \in Nat
           /\ \A n \in 1..Len(components) : components[n] \in Declarations
  BY CompositionAssumption DEF TypeOK

LEMMA BlockersType ==
    ASSUME TypeOK, NEW n \in 1..Len(components)
    PROVE  /\ Adopted(components[n]) => BlockersOf(n) = <<>>
           /\ ~Adopted(components[n]) =>
                 \E blocker \in Blockers : BlockersOf(n) = <<blocker>> /\ blocker.component = n
  <1>1. n \in Nat
    BY ComponentType
  <1>2. \A code \in {"its_blocker", "released_not_composed"} :
           /\ [component |-> n, code |-> code] \in Blockers
           /\ [component |-> n, code |-> code].component = n
    BY <1>1 DEF Blockers
  <1> QED  BY <1>2 DEF BlockersOf, Adopted

(* What evaluate does to the blockers. *)
LEMMA Appending ==
    ASSUME TypeOK, EvaluateComponent, ~Unexplained(components[taken + 1])
    PROVE  /\ taken + 1 \in 1..Len(components)
           /\ taken' = taken + 1 /\ UNCHANGED <<root, components, loaded, stage>>
           /\ Adopted(components[taken + 1]) => blockers' = blockers
           /\ ~Adopted(components[taken + 1]) =>
                 \E blocker \in Blockers :
                    blockers' = Append(blockers, blocker) /\ blocker.component = taken + 1
  <1>1. taken + 1 \in 1..Len(components)
    BY ComponentType DEF TypeOK, EvaluateComponent
  <1>2. blockers' = blockers \o BlockersOf(taken + 1) /\ blockers \in Seq(Blockers)
    BY DEF TypeOK, EvaluateComponent
  <1>3. CASE Adopted(components[taken + 1])
    <2>1. BlockersOf(taken + 1) = <<>>
      BY <1>1, <1>3, BlockersType
    <2> QED  BY <1>1, <1>2, <1>3, <2>1 DEF EvaluateComponent
  <1>4. CASE ~Adopted(components[taken + 1])
    <2>1. PICK blocker \in Blockers :
             BlockersOf(taken + 1) = <<blocker>> /\ blocker.component = taken + 1
      BY <1>1, <1>4, BlockersType
    <2>2. blockers \o <<blocker>> = Append(blockers, blocker)
      BY <1>2, AppendIsConcat
    <2>3. blockers' = Append(blockers, blocker)
      BY <1>2, <2>1, <2>2
    <2> QED  BY <1>1, <1>4, <2>1, <2>3 DEF EvaluateComponent
  <1> QED  BY <1>3, <1>4

LEMMA StepType == TypeOK /\ [Next]_vars => TypeOK'
  <1> SUFFICES ASSUME TypeOK, [Next]_vars PROVE TypeOK'
    OBVIOUS
  <1>1. CASE UNCHANGED vars
    BY <1>1 DEF TypeOK, vars
  <1>2. CASE LoadComponent
    BY <1>2, ComponentType DEF TypeOK, LoadComponent
  <1>3. CASE FinishLoading
    <2>1. taken' \in 0..Len(components)
      BY <1>3, ComponentType DEF TypeOK, FinishLoading
    <2>2. loaded' \in BOOLEAN /\ stage' \in {"evaluating", "malformed"}
      BY <1>3 DEF TypeOK, FinishLoading
    <2> QED  BY <1>3, <2>1, <2>2 DEF TypeOK, FinishLoading
  <1>4. CASE EvaluateComponent
    <2>1. CASE Unexplained(components[taken + 1])
      BY <1>4, <2>1 DEF EvaluateComponent, TypeOK
    <2>2. CASE ~Unexplained(components[taken + 1]) /\ Adopted(components[taken + 1])
      BY <1>4, <2>2, Appending DEF TypeOK
    <2>3. CASE ~Unexplained(components[taken + 1]) /\ ~Adopted(components[taken + 1])
      <3>1. PICK blocker \in Blockers :
               blockers' = Append(blockers, blocker) /\ blocker.component = taken + 1
        BY <1>4, <2>3, Appending
      <3>2. blockers' \in Seq(Blockers)
        BY <3>1 DEF TypeOK
      <3>3. \A b \in 1..Len(blockers') : blockers'[b].component \in 1..Len(components)
        BY <1>4, <2>3, <3>1, Appending DEF TypeOK
      <3> QED  BY <1>4, <2>3, <3>2, <3>3, Appending DEF TypeOK
    <2> QED  BY <2>1, <2>2, <2>3
  <1>5. CASE ReadRoot \/ Report \/ Gate
    BY <1>5 DEF TypeOK, ReadRoot, Report, Gate
  <1> QED  BY <1>1, <1>2, <1>3, <1>4, <1>5 DEF Next

LEMMA InitType == Init => TypeOK
  <1> SUFFICES ASSUME Init PROVE TypeOK
    OBVIOUS
  <1>1. components \in Seq(Declarations)
    BY CompositionAssumption DEF Init
  <1>2. blockers \in Seq(Blockers) /\ Len(blockers) = 0 /\ 0 \in 0..Len(components)
    BY <1>1 DEF Init
  <1>3. components \in Manifests \cup HandBuilt /\ loaded \in BOOLEAN /\ taken = 0
        /\ stage \in {"reading", "evaluating"} /\ root \in Roots \cup {"none"}
    BY DEF Init
  <1> QED  BY <1>2, <1>3 DEF TypeOK

(* The gate keeps its types. *)
THEOREM TypeCorrect == Spec => []TypeOK
  BY InitType, StepType, PTL DEF Spec

LEMMA StepLoop == TypeOK /\ LoopInv /\ [Next]_vars => LoopInv'
  <1> SUFFICES ASSUME TypeOK, LoopInv, [Next]_vars PROVE LoopInv'
    OBVIOUS
  <1>0. taken \in Nat /\ Len(components) \in Nat /\ Len(blockers) \in Nat
    BY ComponentType DEF TypeOK
  <1>1. CASE UNCHANGED vars
    BY <1>1 DEF LoopInv, vars, Judged, Acceptable
  <1>2. CASE LoadComponent
    BY <1>0, <1>2 DEF LoopInv, LoadComponent, Judged, Acceptable
  <1>3. CASE FinishLoading
    <2>1. CASE Orderly(components)
      <3>1. /\ \A n \in 1..Len(components) : WellFormed(components[n])
            /\ blockers = <<>> /\ taken' = 0 /\ stage' = "evaluating" /\ Acceptable
            /\ UNCHANGED <<root, components, blockers>>
        BY <1>3, <2>1 DEF LoopInv, FinishLoading
      <3> QED  BY <2>1, <3>1 DEF LoopInv, Judged, Acceptable
    <2>2. CASE ~Orderly(components)
      BY <1>3, <2>2 DEF LoopInv, FinishLoading, Judged
    <2> QED  BY <2>1, <2>2
  <1>4. CASE EvaluateComponent
    <2> DEFINE n == taken + 1
    <2>1. CASE Unexplained(components[n])
      BY <1>4, <2>1 DEF EvaluateComponent, LoopInv, Judged, Acceptable
    <2>2. CASE ~Unexplained(components[n]) /\ Adopted(components[n])
      <3>1. /\ blockers' = blockers /\ taken' = n /\ stage' = "evaluating" /\ stage = "evaluating"
            /\ UNCHANGED <<root, components, loaded>>
        BY <1>4, <2>2, Appending DEF EvaluateComponent
      <3>2. \A m \in 1..n : m \in 1..taken \/ m = n
        BY <1>0
      <3>3. \A b \in 1..Len(blockers) :
               blockers[b].component \in Nat /\ blockers[b].component <= taken
        BY <3>1 DEF LoopInv, TypeOK
      <3>4. \A m \in 1..n : ~Adopted(components[m]) <=>
               \E b \in 1..Len(blockers) : blockers[b].component = m
        BY <1>0, <2>2, <3>1, <3>2, <3>3 DEF LoopInv
      <3>5. \A b \in 1..Len(blockers) : blockers[b].component <= n
        BY <1>0, <3>3
      <3> QED  BY <3>1, <3>4, <3>5 DEF LoopInv, Judged, Acceptable
    <2>3. CASE ~Unexplained(components[n]) /\ ~Adopted(components[n])
      <3>1. PICK blocker \in Blockers :
               blockers' = Append(blockers, blocker) /\ blocker.component = n
        BY <1>4, <2>3, Appending
      <3>2. /\ taken' = n /\ stage' = "evaluating" /\ stage = "evaluating"
            /\ UNCHANGED <<root, components, loaded>>
        BY <1>4, <2>3, Appending DEF EvaluateComponent
      <3>3. /\ Len(blockers') = Len(blockers) + 1
            /\ blockers'[Len(blockers) + 1].component = n
            /\ \A b \in 1..Len(blockers) : blockers'[b] = blockers[b]
        BY <3>1 DEF TypeOK
      <3>4. \A b \in 1..Len(blockers') : b \in 1..Len(blockers) \/ b = Len(blockers) + 1
        BY <1>0, <3>3
      <3>5. \A b \in 1..Len(blockers) :
               blockers[b].component \in Nat /\ blockers[b].component <= taken
        BY <3>2 DEF LoopInv, TypeOK
      <3>6. \A m \in 1..n : ~Adopted(components[m]) <=>
                \E b \in 1..Len(blockers') : blockers'[b].component = m
        <4>1. \A m \in 1..n : m \in 1..taken \/ m = n
          BY <1>0
        <4>2. Len(blockers) + 1 \in 1..Len(blockers')
          BY <1>0, <3>3
        <4>3. \A m \in 1..taken : ~Adopted(components[m]) <=>
                \E b \in 1..Len(blockers) : blockers[b].component = m
          BY <3>2 DEF LoopInv
        <4>4. \A m \in 1..taken : m # n
          BY <1>0
        <4>5. \A b \in 1..Len(blockers) : b \in 1..Len(blockers')
          BY <1>0, <3>3
        <4> QED  BY <2>3, <3>3, <3>4, <4>1, <4>2, <4>3, <4>4, <4>5
      <3>7. /\ \A b \in 1..Len(blockers') : blockers'[b].component <= n
            /\ \A a, b \in 1..Len(blockers') : a < b =>
                  blockers'[a].component < blockers'[b].component
        <4>1. \A a, b \in 1..Len(blockers) : a < b =>
                 blockers[a].component < blockers[b].component
          BY <3>2 DEF LoopInv
        <4> QED  BY <1>0, <3>3, <3>4, <3>5, <4>1
      <3> QED  BY <3>2, <3>6, <3>7 DEF LoopInv, Judged, Acceptable
    <2> QED  BY <2>1, <2>2, <2>3
  <1>5. CASE Report \/ Gate
    BY <1>5 DEF LoopInv, Report, Gate, Judged, Acceptable
  <1>6. CASE ReadRoot
    <2>1. taken' = 0 /\ blockers' = <<>> /\ ~loaded'
      BY <1>6 DEF LoopInv, ReadRoot
    <2>2. \/ stage' = "loading" /\ Acceptable'
          \/ stage' = "malformed"
      BY <1>6 DEF ReadRoot, Acceptable
    <2> QED  BY <2>1, <2>2 DEF LoopInv, Judged
  <1> QED  BY <1>1, <1>2, <1>3, <1>4, <1>5, <1>6 DEF Next

LEMMA Looping == Spec => [](TypeOK /\ LoopInv)
  <1>1. Init => LoopInv
    BY DEF Init, LoopInv, Judged
  <1> QED  BY <1>1, InitType, StepType, StepLoop, PTL DEF Spec

(* The gate opens on a manifest only if all of it is released and composed. *)
THEOREM GateSound == Spec => []GateIsSound
  <1>1. TypeOK /\ LoopInv => GateIsSound
    <2> SUFFICES ASSUME TypeOK, LoopInv, loaded, stage = "ready",
                        NEW n \in 1..Len(components)
                 PROVE  Adopted(components[n]) /\ components[n].release = "valid"
      BY DEF GateIsSound, LoopInv, Adopted, Acceptable
    <2>1. taken = Len(components) /\ blockers = <<>> /\ WellFormed(components[n])
      BY DEF LoopInv, Judged
    <2>2. Adopted(components[n])
      BY <2>1 DEF LoopInv
    <2> QED  BY <2>1, <2>2 DEF WellFormed, ReleaseFits, Adopted
  <1> QED  BY <1>1, Looping, PTL

(* A report accounts for every component, once and in order. *)
THEOREM ReportComplete == Spec => []ReportIsComplete
  <1>1. TypeOK /\ LoopInv => ReportIsComplete
    <2> SUFFICES ASSUME TypeOK, LoopInv, Judged PROVE ReportIsComplete
      BY DEF ReportIsComplete
    <2>1. /\ taken = Len(components)
          /\ \A n \in 1..taken :
                ~Adopted(components[n]) <=> \E b \in 1..Len(blockers) : blockers[b].component = n
          /\ \A a, b \in 1..Len(blockers) : a < b => blockers[a].component < blockers[b].component
      BY DEF LoopInv, Judged
    <2>4. \A b \in 1..Len(blockers) : blockers[b].component \in 1..Len(components)
      BY DEF TypeOK
    <2>2. \A n \in 1..Len(components) : components[n].distribution \in Nat
      BY ComponentType, CompositionAssumption DEF Declarations
    <2>3. ASSUME loaded, NEW m \in 1..Len(components), NEW n \in 1..Len(components), m # n
          PROVE  components[m].distribution # components[n].distribution
      <3>1. m < n \/ n < m
        BY <2>3, ComponentType
      <3> QED  BY <2>2, <2>3, <3>1 DEF LoopInv, Orderly
    <2> QED  BY <2>1, <2>3, <2>4 DEF ReportIsComplete
  <1> QED  BY <1>1, Looping, PTL

LEMMA StepRefusal ==
    TypeOK /\ LoopInv /\ RefusalHasCause /\ [Next]_vars => RefusalHasCause'
  <1> SUFFICES ASSUME TypeOK, LoopInv, RefusalHasCause, [Next]_vars
               PROVE  RefusalHasCause'
    OBVIOUS
  <1>1. CASE UNCHANGED vars
    BY <1>1 DEF RefusalHasCause, vars, Acceptable
  <1>2. CASE LoadComponent
    <2>1. taken + 1 \in 1..Len(components) /\ ~loaded
      BY <1>2, ComponentType DEF TypeOK, LoadComponent, LoopInv
    <2>2. CASE WellFormed(components[taken + 1])
      BY <1>2, <2>2 DEF LoadComponent, RefusalHasCause, Acceptable
    <2>3. CASE ~WellFormed(components[taken + 1])
      BY <1>2, <2>1, <2>3 DEF LoadComponent, RefusalHasCause
    <2> QED  BY <2>2, <2>3
  <1>3. CASE FinishLoading
    BY <1>3 DEF FinishLoading, RefusalHasCause, LoopInv
  <1>4. CASE EvaluateComponent
    <2> DEFINE c == components[taken + 1]
    <2>1. taken + 1 \in 1..Len(components)
      BY <1>4, ComponentType DEF TypeOK, EvaluateComponent
    <2>2. CASE Unexplained(c)
      <3>1. ~WellFormed(c)
        BY <2>2 DEF Unexplained, WellFormed
      <3>2. ~loaded
        BY <2>1, <3>1 DEF LoopInv
      <3> QED  BY <1>4, <2>1, <2>2, <3>1, <3>2 DEF EvaluateComponent, RefusalHasCause
    <2>3. CASE ~Unexplained(c)
      BY <1>4, <2>3 DEF EvaluateComponent, RefusalHasCause, Acceptable
    <2> QED  BY <2>2, <2>3
  <1>5. CASE Report
    BY <1>5 DEF Report, RefusalHasCause
  <1>6. CASE ReadRoot
    <2>1. root \in Roots /\ ~loaded
      BY <1>6 DEF ReadRoot, LoopInv
    <2> QED  BY <1>6, <2>1 DEF ReadRoot, RefusalHasCause, Acceptable
  <1>7. CASE Gate
    <2>1. CASE blockers = <<>>
      BY <1>7, <2>1 DEF Gate, RefusalHasCause
    <2>2. CASE blockers # <<>>
      <3>1. /\ 1 \in 1..Len(blockers)
            /\ blockers[1].component \in 1..Len(components)
        BY <2>2 DEF TypeOK
      <3>2. taken = Len(components)
        BY <1>7 DEF Gate, LoopInv, Judged
      <3>3. ~Adopted(components[blockers[1].component])
        BY <1>7, <3>1, <3>2 DEF Gate, LoopInv
      <3> QED  BY <1>7, <2>2, <3>1, <3>3 DEF Gate, RefusalHasCause
    <2> QED  BY <2>1, <2>2
  <1> QED  BY <1>1, <1>2, <1>3, <1>4, <1>5, <1>6, <1>7 DEF Next

(***************************************************************************)
(* The loops of load_manifest and evaluate keep their invariant, for       *)
(* manifests and tuples of any length.                                     *)
(***************************************************************************)
THEOREM Invariance == Spec => []IInv
  <1>1. Init => RefusalHasCause
    BY DEF Init, RefusalHasCause
  <1> QED  BY <1>1, Looping, StepRefusal, PTL DEF Spec, IInv

(***************************************************************************)
(* Nothing is refused without a cause in the declaration itself, and what  *)
(* load_manifest accepted, evaluate judges without raising.                *)
(***************************************************************************)
THEOREM RefusalsHaveCause == Spec => []RefusalHasCause
  BY Invariance, PTL DEF IInv
=============================================================================
