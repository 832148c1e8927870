---------------------------- MODULE LineagesProofs ----------------------------
(***************************************************************************)
(* Proofs about Lineages for every value of its constants: any number of   *)
(* migrators, any releases, any effects the modules' revisions need.       *)
(***************************************************************************)
EXTENDS Lineages, TLAPS

(* The names tell commands, modules and lineages apart. *)
LEMMA Names ==
    /\ Upgrades \cap Lineages = {}
    /\ "heads" \in Upgrades /\ "sql" \in Upgrades
    /\ Modules \subseteq Lineages /\ {"kernel", "cloud"} \subseteq Lineages
    /\ Composed \cup {"cloud"} = Lineages
    /\ "kernel" \notin Modules /\ "cloud" \notin Modules
  BY DEF Upgrades, Lineages, Modules, Composed

(* Every effect is bound to the revision that makes it whole. *)
LEMMA BoundWhole ==
    /\ DOMAIN Bindings = DOMAIN WholeAt
    /\ \A e \in DOMAIN Bindings : Bindings[e] = WholeAt[e] /\ Bindings[e] \in Nat
    /\ WholeAt["roles"] = 1
  BY DEF Bindings, WholeAt

LEMMA BaseType == Base \in Schemas
  BY DEF Base, Schemas

(* One more or one less revision of a lineage is a schema again. *)
LEMMA Advance ==
    ASSUME NEW schema \in Schemas, NEW l \in Lineages, NEW n \in Nat
    PROVE  /\ [schema EXCEPT ![l] = n] \in Schemas
           /\ [schema EXCEPT ![l] = n][l] = n
           /\ \A k \in Lineages \ {l} : [schema EXCEPT ![l] = n][k] = schema[k]
  BY DEF Schemas

LEMMA ReleaseType ==
    ASSUME NEW r \in Releases
    PROVE  r \in Schemas /\ r["kernel"] > 0 /\ r["cloud"] = 1
  BY LineagesAssumption

-----------------------------------------------------------------------------
(* Type correctness, one step per action. *)

LEMMA InitType == Init => TypeOK
  <1> SUFFICES ASSUME Init PROVE TypeOK
    OBVIOUS
  <1>1. deployed \in Releases /\ release \in [Migrators -> Releases]
    BY DEF Init
  <1>2. read \in [Migrators -> Schemas] /\ work \in [Migrators -> Schemas]
    BY BaseType DEF Init
  <1>3. command \in [Migrators -> Upgrades \cup Lineages]
    BY DEF Init, Upgrades
  <1> QED  BY <1>1, <1>2, <1>3, BaseType, LineagesAssumption DEF Init, TypeOK

LEMMA ExitType ==
    ASSUME TypeOK, NEW m \in Migrators, Exit(m), applied' \in Schemas,
           faults' \in 0..MaxFaults
    PROVE  TypeOK'
  BY BaseType DEF TypeOK, Exit, job

(* A step of a run changes one number of its work. *)
LEMMA WorkType ==
    ASSUME TypeOK, NEW m \in Migrators, NEW l \in Lineages, NEW n \in Nat,
           work' = [work EXCEPT ![m][l] = n],
           UNCHANGED <<applied, deployed, pc, job, environment, read, bounds>>
    PROVE  TypeOK'
  <1>1. work[m] \in Schemas
    BY DEF TypeOK
  <1>2. [work[m] EXCEPT ![l] = n] \in Schemas
    BY <1>1, Advance
  <1>3. work' \in [Migrators -> Schemas]
    BY <1>2 DEF TypeOK
  <1> QED  BY <1>3 DEF TypeOK, job, environment, bounds

LEMMA ResultType ==
    ASSUME TypeOK, NEW m \in Migrators
    PROVE  Result(m) \in Schemas
  <1>1. work[m] \in Schemas /\ applied \in Schemas
    BY DEF TypeOK
  <1> QED  BY <1>1 DEF Result, Schemas

LEMMA StepType == TypeOK /\ [Next]_vars => TypeOK'
  <1> SUFFICES ASSUME TypeOK, [Next]_vars PROVE TypeOK'
    OBVIOUS
  <1> USE LineagesAssumption
  <1>1. CASE UNCHANGED vars
    BY <1>1 DEF TypeOK, vars
  <1>2. CASE Redeploy
    BY <1>2 DEF Redeploy, TypeOK, job, environment, transaction
  <1>3. ASSUME NEW m \in Migrators, Start(m) PROVE TypeOK'
    <2>1. {"cloud"} \subseteq Lineages
      BY Names
    <2>2. command' \in [Migrators -> Upgrades \cup Lineages]
      BY <1>3 DEF Start, TypeOK
    <2> QED  BY <1>3, <2>1, <2>2 DEF Start, TypeOK, transaction, bounds
  <1>4. ASSUME NEW m \in Migrators, InstallBindings(m) PROVE TypeOK'
    BY <1>4 DEF InstallBindings, TypeOK, job, transaction, bounds
  <1>5. ASSUME NEW m \in Migrators, SelectPlanes(m) PROVE TypeOK'
    BY <1>5 DEF SelectPlanes, TypeOK, job, transaction, bounds, Selections, Modules
  <1>6. ASSUME NEW m \in Migrators, ComposeLineages(m) PROVE TypeOK'
    <2>1. Composed \subseteq Lineages
      BY Names
    <2> QED  BY <1>6, <2>1 DEF ComposeLineages, TypeOK, job, transaction, bounds
  <1>7. ASSUME NEW m \in Migrators, Connect(m) PROVE TypeOK'
    <2>1. Heads(m) \in Schemas
      BY BaseType DEF Heads, TypeOK
    <2> QED  BY <1>7, <2>1 DEF Connect, TypeOK, job, environment, bounds
  <1>8. ASSUME NEW m \in Migrators, NEW l \in Lineages, Upgrade(m, l) PROVE TypeOK'
    <2>1. work[m][l] + 1 \in Nat
      BY DEF TypeOK, Schemas
    <2>2. work' = [work EXCEPT ![m][l] = work[m][l] + 1]
      BY <1>8 DEF Upgrade
    <2> QED  BY <1>8, <2>1, <2>2, WorkType DEF Upgrade
  <1>9. ASSUME NEW m \in Migrators, NEW l \in Lineages, Downgrade(m, l) PROVE TypeOK'
    <2>1. work[m][l] - 1 \in Nat
      BY <1>9 DEF Downgrade, Leaf, Falls, TypeOK, Schemas
    <2>2. work' = [work EXCEPT ![m][l] = work[m][l] - 1]
      BY <1>9 DEF Downgrade
    <2> QED  BY <1>9, <2>1, <2>2, WorkType DEF Downgrade
  <1>10. ASSUME NEW m \in Migrators, NEW l \in Lineages,
                LineageMissing(m) \/ Refuse(m) \/ Clash(m, l) \/ Deadlock(m)
         PROVE  TypeOK'
    <2>1. Exit(m) /\ applied' = applied /\ faults' = faults
      BY <1>10 DEF LineageMissing, Refuse, Clash, Deadlock
    <2> QED  BY <2>1, ExitType DEF TypeOK
  <1>11. ASSUME NEW m \in Migrators, Commit(m) PROVE TypeOK'
    <2>1. Exit(m) /\ applied' = Result(m) /\ faults' = faults
      BY <1>11 DEF Commit
    <2> QED  BY <2>1, ResultType, ExitType DEF TypeOK
  <1>12. ASSUME NEW m \in Migrators, Fail(m) PROVE TypeOK'
    <2>1. Exit(m) /\ applied' = applied /\ faults' \in 0..MaxFaults
      BY <1>12 DEF Fail, TypeOK
    <2> QED  BY <2>1, ExitType DEF TypeOK
  <1> QED
    BY <1>1, <1>2, <1>3, <1>4, <1>5, <1>6, <1>7, <1>8, <1>9, <1>10, <1>11, <1>12, Names
       DEF Next, Install, Perform

(* Every variable keeps its type, in every state of every behaviour. *)
THEOREM TypeCorrect == Spec => []TypeOK
  BY InitType, StepType, PTL DEF Spec
-----------------------------------------------------------------------------
(* What a run does to its schema keeps the schema supported. *)

(* The effects a revision in the graph needs are answered by what it depends on. *)
LEMMA NeedsAnswered ==
    ASSUME TypeOK, NEW m \in Migrators, Loads(m), NEW need \in Needs,
           InGraph(m, need.lineage, need.revision)
    PROVE  /\ need.effect \in DOMAIN WholeAt
           /\ WholeAt[need.effect] \in DependsOn(need.lineage, need.revision)
  <1>1. need.effect \in DOMAIN Bindings
    BY DEF Loads, TypeOK
  <1>2. need.lineage \in Modules /\ need.lineage # "kernel" /\ need.lineage # "cloud"
    BY NeedsAssumption, Names
  <1>3. Bindings[need.effect] \in DependsOn(need.lineage, need.revision)
    BY <1>2 DEF DependsOn, NeedsOf
  <1> QED  BY <1>1, <1>3, BoundWhole

LEMMA UpgradeSupported ==
    ASSUME TypeOK, NEW m \in Migrators, NEW l \in Lineages,
           Loads(m), Supported(work[m]), Possible(m, l)
    PROVE  Supported([work[m] EXCEPT ![l] = work[m][l] + 1])
  <1> DEFINE before == work[m]
             after == [work[m] EXCEPT ![l] = work[m][l] + 1]
  <1>1. before \in Schemas /\ \A k \in Lineages : before[k] \in Nat
    BY DEF TypeOK, Schemas
  <1>2. \A k \in Lineages : after[k] >= before[k] /\ (k # l => after[k] = before[k])
    BY <1>1 DEF Schemas
  <1>3. after[l] = before[l] + 1 /\ after["kernel"] >= before["kernel"] /\ after["kernel"] \in Nat
    BY <1>1, <1>2, Names DEF Schemas
  <1>4. after["cloud"] > 0 => after["kernel"] >= WholeAt["roles"]
    <2>1. CASE l = "cloud"
      <3>1. 1 \in DependsOn(l, work[m][l] + 1)
        BY <2>1 DEF DependsOn, CloudDependsOn
      <3>2. before["kernel"] >= 1
        BY <3>1 DEF Possible
      <3> QED  BY <3>2, <1>1, <1>3, BoundWhole, Names
    <2>2. CASE l # "cloud"
      <3>1. after["cloud"] = before["cloud"]
        BY <2>2, <1>2, Names
      <3> QED  BY <3>1, <1>1, <1>3, BoundWhole, Names DEF Supported
    <2> QED  BY <2>1, <2>2
  <1>5. ASSUME NEW need \in Needs, after[need.lineage] >= need.revision
        PROVE  need.effect \in DOMAIN WholeAt /\ after["kernel"] >= WholeAt[need.effect]
    <2>1. need.lineage \in Lineages /\ need.revision \in Nat
      BY NeedsAssumption, Names
    <2>2. CASE before[need.lineage] >= need.revision
      <3>1. need.effect \in DOMAIN WholeAt /\ before["kernel"] >= WholeAt[need.effect]
        BY <2>2 DEF Supported
      <3>2. WholeAt[need.effect] \in Nat
        BY <3>1, BoundWhole
      <3> QED  BY <3>1, <3>2, <1>1, <1>3, Names
    <2>3. CASE ~(before[need.lineage] >= need.revision)
      <3>1. need.lineage = l /\ need.revision = before[l] + 1
        BY <2>3, <2>1, <1>1, <1>2, <1>3, <1>5
      <3>2. InGraph(m, need.lineage, need.revision)
        BY <3>1 DEF Possible
      <3>3. /\ need.effect \in DOMAIN WholeAt
            /\ WholeAt[need.effect] \in DependsOn(l, work[m][l] + 1)
        BY <3>1, <3>2, NeedsAnswered
      <3>4. before["kernel"] >= WholeAt[need.effect] /\ WholeAt[need.effect] \in Nat
        BY <3>3, BoundWhole DEF Possible
      <3> QED  BY <3>3, <3>4, <1>1, <1>3, Names
    <2> QED  BY <2>2, <2>3
  <1> QED  BY <1>4, <1>5 DEF Supported

LEMMA DowngradeSupported ==
    ASSUME TypeOK, NEW m \in Migrators, NEW l \in Lineages,
           Supported(work[m]), Leaf(m, l)
    PROVE  Supported([work[m] EXCEPT ![l] = work[m][l] - 1])
  <1> DEFINE before == work[m]
             after == [work[m] EXCEPT ![l] = work[m][l] - 1]
  <1>1. \A k \in Lineages : before[k] \in Nat
    BY DEF TypeOK, Schemas
  <1>2. before[l] > 0
    BY DEF Leaf, Falls
  <1>3. /\ after[l] = before[l] - 1
        /\ \A k \in Lineages : k # l => after[k] = before[k]
        /\ \A k \in Lineages : after[k] \in Nat /\ after[k] <= before[k]
    BY <1>1, <1>2 DEF TypeOK, Schemas
  <1> HIDE DEF after
  <1>4. after["cloud"] > 0 => after["kernel"] >= WholeAt["roles"]
    <2> SUFFICES ASSUME after["cloud"] > 0 PROVE after["kernel"] >= WholeAt["roles"]
      OBVIOUS
    <2>1. before["cloud"] >= 1 /\ before["kernel"] >= 1
      BY <1>1, <1>3, Names, BoundWhole DEF Supported
    <2>2. CASE l = "kernel"
      <3>1. 1 \in DependsOn("cloud", 1) /\ 1 \in 1..before["cloud"]
        BY <1>1, <2>1, Names DEF DependsOn, CloudDependsOn
      <3>2. before["kernel"] # 1
        BY <2>2, <3>1, Names DEF Leaf
      <3> QED  BY <2>1, <2>2, <3>2, <1>1, <1>3, Names, BoundWhole
    <2>3. CASE l # "kernel"
      BY <2>1, <2>3, <1>3, Names, BoundWhole
    <2> QED  BY <2>2, <2>3
  <1>5. ASSUME NEW need \in Needs, after[need.lineage] >= need.revision
        PROVE  need.effect \in DOMAIN WholeAt /\ after["kernel"] >= WholeAt[need.effect]
    <2>1. /\ need.lineage \in Modules /\ need.lineage \in Lineages
          /\ need.revision \in Nat /\ need.revision > 0
      BY NeedsAssumption, Names
    <2>2. before[need.lineage] >= need.revision
      BY <2>1, <1>1, <1>3, <1>5
    <2>3. need.effect \in DOMAIN WholeAt /\ before["kernel"] >= WholeAt[need.effect]
      BY <2>2 DEF Supported
    <2>4. WholeAt[need.effect] \in Nat
      BY <2>3, BoundWhole
    <2>5. CASE l = "kernel"
      <3>1. WholeAt[need.effect] \in DependsOn(need.lineage, need.revision)
        BY <2>1, <2>3, BoundWhole, Names DEF DependsOn, NeedsOf
      <3>2. need.revision \in 1..before[need.lineage]
        BY <2>1, <2>2, <1>1
      <3>3. before["kernel"] # WholeAt[need.effect]
        BY <2>5, <2>1, <3>1, <3>2 DEF Leaf
      <3> QED  BY <2>3, <2>4, <2>5, <3>3, <1>1, <1>3, Names
    <2>6. CASE l # "kernel"
      BY <2>3, <2>6, <1>3, Names
    <2> QED  BY <2>5, <2>6
  <1>6. Supported(after)
    BY <1>4, <1>5 DEF Supported
  <1> QED  BY <1>6 DEF after

(* A run's own revisions, merged with what others have committed. *)
LEMMA ResultSupported ==
    ASSUME IInv, NEW m \in Migrators, pc[m] = "run"
    PROVE  Supported(Result(m))
  <1> DEFINE result == Result(m)
  <1>1. /\ Supported(applied) /\ Supported(work[m])
        /\ \A l \in Lineages : applied[l] \in Nat /\ read[m][l] \in Nat /\ work[m][l] \in Nat
    BY DEF IInv, Equipped, TypeOK, Schemas
  <1>2. \A l \in Lineages : result[l] = IF Holds(m, l) THEN work[m][l] ELSE applied[l]
    BY DEF Result
  <1>3. CASE command[m] = "sql"
    <2>1. \A l \in Lineages : result[l] = applied[l]
      BY <1>2, <1>3 DEF Holds
    <2> QED  BY <1>1, <2>1, NeedsAssumption, Names DEF Supported
  <1>4. CASE command[m] \in Lineages
    <2>1. \A l \in Lineages : result[l] = work[m][l]
      BY <1>2, <1>4, Names DEF Holds, IInv, Unwinding
    <2> QED  BY <1>1, <2>1, NeedsAssumption, Names DEF Supported
  <1>5. CASE command[m] = "heads"
    <2>1. \A l \in Lineages : result[l] \in Nat /\ result[l] >= applied[l] /\ result[l] >= work[m][l]
      BY <1>1, <1>2, <1>5, Names DEF Holds, IInv, Upgrading
    <2>2. \A l \in Lineages : result[l] = work[m][l] \/ result[l] = applied[l]
      BY <1>2
    <2> HIDE DEF result
    <2>3. result["cloud"] > 0 => result["kernel"] >= WholeAt["roles"]
      BY <1>1, <2>1, <2>2, Names, BoundWhole DEF Supported
    <2>4. ASSUME NEW need \in Needs, result[need.lineage] >= need.revision
          PROVE  need.effect \in DOMAIN WholeAt /\ result["kernel"] >= WholeAt[need.effect]
      <3>1. need.lineage \in Lineages
        BY NeedsAssumption, Names
      <3>2. work[m][need.lineage] >= need.revision \/ applied[need.lineage] >= need.revision
        BY <3>1, <2>2, <2>4
      <3>3. /\ need.effect \in DOMAIN WholeAt
            /\ \/ work[m]["kernel"] >= WholeAt[need.effect]
               \/ applied["kernel"] >= WholeAt[need.effect]
        BY <3>2, <1>1 DEF Supported
      <3>4. WholeAt[need.effect] \in Nat
        BY <3>3, BoundWhole
      <3> QED  BY <3>3, <3>4, <2>1, <1>1, Names
    <2>5. Supported(result)
      BY <2>3, <2>4 DEF Supported
    <2> QED  BY <2>5 DEF result
  <1> QED  BY <1>3, <1>4, <1>5 DEF IInv, TypeOK, Upgrades
-----------------------------------------------------------------------------
(* The inductive invariant, one lemma per kind of step. *)

LEMMA InitInv == Init => IInv
  <1> SUFFICES ASSUME Init PROVE IInv
    OBVIOUS
  <1>1. TypeOK
    BY InitType
  <1>2. Supported(Base)
    BY NeedsAssumption, Names DEF Supported, Base
  <1>3. Supported(applied) /\ UnwindsAlone
    BY <1>2 DEF Init, UnwindsAlone, Running
  <1>4. ASSUME NEW m \in Migrators
        PROVE  pc[m] = "idle" /\ work[m] = read[m]
    BY <1>4 DEF Init
  <1>5. \A m \in Migrators : Equipped(m) /\ Upgrading(m) /\ Unwinding(m)
    BY <1>4 DEF Equipped, Upgrading, Unwinding
  <1>6. HeldOnce
    BY <1>4 DEF HeldOnce, Holds
  <1> QED  BY <1>1, <1>3, <1>5, <1>6 DEF IInv

(* Before its run a migrator changes nothing but its own preparations. *)
LEMMA SetupKeeps ==
    ASSUME IInv, TypeOK', NEW m \in Migrators,
           UNCHANGED <<applied, transaction>>, UnwindsAlone',
           pc[m] # "run", pc'[m] # "run", Equipped(m)',
           \A e \in Migrators \ {m} :
              /\ pc'[e] = pc[e] /\ command'[e] = command[e] /\ release'[e] = release[e]
              /\ bound'[e] = bound[e] /\ selected'[e] = selected[e]
              /\ locations'[e] = locations[e]
    PROVE  IInv'
  <1>1. work' = work /\ read' = read /\ applied' = applied
    BY DEF transaction
  <1>2. ASSUME NEW e \in Migrators
        PROVE  Equipped(e)' /\ Upgrading(e)' /\ Unwinding(e)'
    <2>1. CASE e = m
      BY <2>1 DEF Upgrading, Unwinding
    <2>2. CASE e # m
      <3>1. Equipped(e) /\ Upgrading(e) /\ Unwinding(e)
        BY DEF IInv
      <3>2. Equipped(e)'
        BY <1>1, <2>2, <3>1 DEF Equipped, Installed, Loads, InGraph
      <3> QED  BY <1>1, <2>2, <3>1, <3>2 DEF Upgrading, Unwinding, Holds
    <2> QED  BY <2>1, <2>2
  <1>3. HeldOnce'
    BY <1>1 DEF IInv, HeldOnce, Holds, Equipped
  <1>4. Supported(applied)'
    BY <1>1 DEF IInv
  <1> QED  BY <1>2, <1>3, <1>4 DEF IInv

LEMMA StartKeeps ==
    ASSUME IInv, TypeOK', NEW m \in Migrators, Start(m)
    PROVE  IInv'
  <1> USE DEF IInv, TypeOK
  <1>1. pc[m] = "idle" /\ pc'[m] = "bind"
    BY DEF Start, Running
  <1>2. UnwindsAlone'
    BY DEF Start, UnwindsAlone, Running
  <1>3. Equipped(m)'
    BY <1>1 DEF Start, Equipped, transaction
  <1> QED  BY <1>1, <1>2, <1>3, SetupKeeps DEF Start, transaction

LEMMA InstallKeeps ==
    ASSUME IInv, TypeOK', NEW m \in Migrators,
           InstallBindings(m) \/ SelectPlanes(m) \/ ComposeLineages(m)
    PROVE  IInv'
  <1> USE DEF IInv, TypeOK
  <1>1. /\ pc[m] \in {"bind", "select", "compose"} /\ pc'[m] \in {"select", "compose", "connect"}
        /\ pc' = [pc EXCEPT ![m] = pc'[m]]
        /\ UNCHANGED <<applied, job, transaction>>
    BY DEF InstallBindings, SelectPlanes, ComposeLineages
  <1>2. UnwindsAlone'
    BY <1>1 DEF UnwindsAlone, Running, job
  <1>3. Equipped(m)'
    <2>1. CASE ComposeLineages(m)
      <3>1. \A l \in Composed : Installed(m, l)
        BY <2>1 DEF ComposeLineages
      <3>2. Installed(m, "cloud")
        BY ReleaseType DEF Installed
      <3>3. locations[m] \subseteq Lineages /\ "cloud" \in locations[m]
        BY <1>1 DEF Equipped
      <3>4. \A l \in Lineages : Installed(m, l)
        BY <3>1, <3>2, Names
      <3> QED  BY <2>1, <1>1, <3>3, <3>4, Names
               DEF ComposeLineages, Equipped, Installed, job, transaction
    <2>2. CASE InstallBindings(m) \/ SelectPlanes(m)
      BY <2>2, <1>1 DEF InstallBindings, SelectPlanes, Equipped, transaction
    <2> QED  BY <2>1, <2>2
  <1>4. \A e \in Migrators \ {m} :
           /\ pc'[e] = pc[e] /\ command'[e] = command[e] /\ release'[e] = release[e]
           /\ bound'[e] = bound[e] /\ selected'[e] = selected[e]
           /\ locations'[e] = locations[e]
    BY <1>1 DEF InstallBindings, SelectPlanes, ComposeLineages, job
  <1>5. pc[m] # "run" /\ pc'[m] # "run"
    BY <1>1
  <1> QED  BY <1>1, <1>2, <1>3, <1>4, <1>5, SetupKeeps

(* A process that ends leaves the others what they rely on. *)
LEMMA ExitKeeps ==
    ASSUME IInv, TypeOK', NEW m \in Migrators, Exit(m), Supported(applied)',
           \A e \in Migrators \ {m} : Upgrading(e)' /\ Unwinding(e)'
    PROVE  IInv'
  <1> USE DEF IInv, TypeOK
  <1>1. /\ pc'[m] = "idle" /\ work'[m] = read'[m]
        /\ command' = command /\ release' = release
    BY DEF Exit, job
  <1>2. ASSUME NEW e \in Migrators \ {m}
        PROVE  /\ pc'[e] = pc[e] /\ read'[e] = read[e] /\ work'[e] = work[e]
               /\ bound'[e] = bound[e] /\ selected'[e] = selected[e]
               /\ locations'[e] = locations[e]
    BY <1>2 DEF Exit
  <1>3. UnwindsAlone'
    BY <1>1, <1>2 DEF UnwindsAlone, Running
  <1>4. ASSUME NEW e \in Migrators
        PROVE  Equipped(e)' /\ Upgrading(e)' /\ Unwinding(e)'
    <2>1. CASE e = m
      BY <1>1, <2>1 DEF Equipped, Upgrading, Unwinding
    <2>2. CASE e # m
      <3>1. Equipped(e)
        OBVIOUS
      <3>2. Equipped(e)'
        BY <1>1, <1>2, <2>2, <3>1 DEF Equipped, Installed, Loads, InGraph
      <3> QED  BY <2>2, <3>2
    <2> QED  BY <2>1, <2>2
  <1>5. HeldOnce'
    BY <1>1, <1>2 DEF HeldOnce, Holds
  <1> QED  BY <1>3, <1>4, <1>5

LEMMA QuitKeeps ==
    ASSUME IInv, TypeOK', NEW m \in Migrators, Exit(m), applied' = applied
    PROVE  IInv'
  <1>1. Supported(applied)'
    BY DEF IInv
  <1>2. ASSUME NEW e \in Migrators \ {m}
        PROVE  Upgrading(e)' /\ Unwinding(e)'
    <2>1. /\ pc'[e] = pc[e] /\ read'[e] = read[e] /\ work'[e] = work[e]
          /\ command'[e] = command[e]
      BY <1>2 DEF Exit, job, IInv, TypeOK
    <2>2. Upgrading(e) /\ Unwinding(e)
      BY <1>2 DEF IInv
    <2> QED  BY <2>1, <2>2 DEF Upgrading, Unwinding, Holds
  <1> QED  BY <1>1, <1>2, ExitKeeps

LEMMA ConnectKeeps ==
    ASSUME IInv, TypeOK', NEW m \in Migrators, Connect(m)
    PROVE  IInv'
  <1> USE DEF IInv, TypeOK
  <1>1. /\ pc[m] = "connect" /\ pc' = [pc EXCEPT ![m] = "run"]
        /\ read' = [read EXCEPT ![m] = Heads(m)] /\ work' = [work EXCEPT ![m] = Heads(m)]
        /\ UNCHANGED <<applied, command, release, bound, selected, locations>>
        /\ Loads(m)
    BY DEF Connect, job, environment, Resolves
  <1>2. UnwindsAlone'
    BY <1>1 DEF UnwindsAlone, Running
  <1>3. Supported(Heads(m)) /\ Heads(m) \in Schemas
    <2>1. Supported(Base)
      BY NeedsAssumption, Names DEF Supported, Base
    <2> QED  BY <2>1, BaseType DEF Heads
  <1>4. Loads(m)'
    BY <1>1 DEF Loads, InGraph
  <1>5. ASSUME NEW e \in Migrators
        PROVE  Equipped(e)' /\ Upgrading(e)' /\ Unwinding(e)'
    <2>1. CASE e = m
      <3>1. work'[m] = Heads(m) /\ read'[m] = Heads(m) /\ pc'[m] = "run"
        BY <1>1
      <3>2. Supported(work[m])'
        BY <1>3, <3>1
      <3>3. Equipped(m)'
        BY <1>1, <1>4, <3>1, <3>2 DEF Equipped, Installed
      <3>4. \A l \in Lineages : Heads(m)[l] \in Nat
        BY <1>3 DEF Schemas
      <3>5. command[m] # "sql" => Heads(m) = applied
        BY DEF Heads
      <3>6. Upgrading(m)'
        BY <1>1, <3>1, <3>4, <3>5 DEF Upgrading, Holds
      <3>7. Unwinding(m)'
        BY <1>1, <3>1, <3>4, <3>5, Names DEF Unwinding, Holds
      <3> QED  BY <2>1, <3>3, <3>6, <3>7
    <2>2. CASE e # m
      <3>1. /\ pc'[e] = pc[e] /\ read'[e] = read[e] /\ work'[e] = work[e]
            /\ command'[e] = command[e] /\ applied' = applied
        BY <1>1, <2>2
      <3>2. Equipped(e) /\ Upgrading(e) /\ Unwinding(e)
        OBVIOUS
      <3>3. Equipped(e)'
        BY <1>1, <3>1, <3>2 DEF Equipped, Installed, Loads, InGraph
      <3> QED  BY <3>1, <3>2, <3>3 DEF Upgrading, Unwinding, Holds
    <2> QED  BY <2>1, <2>2
  <1>6. HeldOnce'
    BY <1>1 DEF HeldOnce, Holds
  <1> QED  BY <1>1, <1>2, <1>5, <1>6

(* One revision, up or down, changes one number of one run. *)
LEMMA WorkKeeps ==
    ASSUME IInv, TypeOK', NEW m \in Migrators, NEW l \in Lineages, NEW n \in Nat,
           pc[m] = "run", work' = [work EXCEPT ![m][l] = n],
           UNCHANGED <<applied, pc, job, environment, read>>,
           Supported([work[m] EXCEPT ![l] = n]),
           Upgrading(m)', Unwinding(m)',
           \A e \in Migrators \ {m} : Holds(e, l) => command[m] = "sql"
    PROVE  IInv'
  <1> USE DEF IInv, TypeOK
  <1>1. UNCHANGED <<applied, pc, command, release, bound, selected, locations, read>>
    BY DEF job, environment
  <1>2. work[m] \in Schemas
    OBVIOUS
  <1>3. work'[m] = [work[m] EXCEPT ![l] = n] /\ \A e \in Migrators \ {m} : work'[e] = work[e]
    OBVIOUS
  <1>4. work'[m][l] = n /\ \A k \in Lineages \ {l} : work'[m][k] = work[m][k]
    BY <1>2, <1>3, Advance
  <1>5. UnwindsAlone'
    BY <1>1 DEF UnwindsAlone, Running
  <1>6. ASSUME NEW e \in Migrators
        PROVE  Equipped(e)' /\ Upgrading(e)' /\ Unwinding(e)'
    <2>1. Equipped(e) /\ Upgrading(e) /\ Unwinding(e)
      OBVIOUS
    <2>2. CASE e = m
      <3>1. Supported(work[m])'
        BY <1>3
      <3>2. Equipped(m)'
        BY <1>1, <2>1, <2>2, <3>1 DEF Equipped, Installed, Loads, InGraph
      <3> QED  BY <2>2, <3>2
    <2>3. CASE e # m
      <3>1. work'[e] = work[e]
        BY <1>3, <2>3
      <3>2. Equipped(e)'
        BY <1>1, <2>1, <3>1 DEF Equipped, Installed, Loads, InGraph
      <3> QED  BY <1>1, <2>1, <3>1, <3>2 DEF Upgrading, Unwinding, Holds
    <2> QED  BY <2>2, <2>3
  <1>7. HeldOnce'
    <2> SUFFICES ASSUME NEW d \in Migrators, NEW e \in Migrators, NEW k \in Lineages,
                        Holds(d, k)', Holds(e, k)', d # e
                 PROVE  FALSE
      BY DEF HeldOnce
    <2>1. ASSUME NEW f \in Migrators, Holds(f, k)', ~(f = m /\ k = l)
          PROVE  Holds(f, k)
      BY <2>1, <1>1, <1>3, <1>4 DEF Holds
    <2>2. CASE ~(d = m /\ k = l) /\ ~(e = m /\ k = l)
      BY <2>1, <2>2 DEF HeldOnce
    <2>3. CASE (d = m /\ k = l) \/ (e = m /\ k = l)
      <3>1. PICK f \in Migrators \ {m} : Holds(f, l)
        BY <2>1, <2>3
      <3>2. command[m] = "sql"
        BY <3>1
      <3> QED  BY <1>1, <2>3, <3>2 DEF Holds
    <2> QED  BY <2>2, <2>3
  <1> QED  BY <1>1, <1>5, <1>6, <1>7

LEMMA UpgradeKeeps ==
    ASSUME IInv, TypeOK', NEW m \in Migrators, NEW l \in Lineages, Upgrade(m, l)
    PROVE  IInv'
  <1> USE DEF IInv
  <1>1. /\ pc[m] = "run" /\ command[m] \in Upgrades /\ command[m] \notin Lineages
        /\ Possible(m, l) /\ ~Overtaken(m, l) /\ ~Waits(m, l)
        /\ work' = [work EXCEPT ![m][l] = work[m][l] + 1]
        /\ UNCHANGED <<applied, pc, job, environment, read>>
        /\ command' = command
    BY Names DEF Upgrade, Ready, job
  <1>2. work[m] \in Schemas /\ work[m][l] + 1 \in Nat /\ \A k \in Lineages : read[m][k] \in Nat
    BY DEF TypeOK, Schemas
  <1>3. Supported([work[m] EXCEPT ![l] = work[m][l] + 1])
    BY <1>1, UpgradeSupported DEF Equipped
  <1>4. work'[m][l] = work[m][l] + 1 /\ \A k \in Lineages \ {l} : work'[m][k] = work[m][k]
    BY <1>1, <1>2, Advance DEF TypeOK
  <1>5. Upgrading(m)'
    <2> SUFFICES ASSUME NEW k \in Lineages
                 PROVE  /\ read[m][k] <= work'[m][k]
                        /\ command[m] = "heads" =>
                              /\ read[m][k] <= applied[k]
                              /\ work'[m][k] # read[m][k] => applied[k] = read[m][k]
      BY <1>1 DEF Upgrading, Holds
    <2>1. /\ read[m][k] <= work[m][k]
          /\ command[m] = "heads" =>
                /\ read[m][k] <= applied[k]
                /\ work[m][k] # read[m][k] => applied[k] = read[m][k]
      BY <1>1, Names DEF Upgrading, Holds
    <2>2. CASE k = l
      BY <1>1, <1>2, <1>4, <2>1, <2>2 DEF Overtaken, TypeOK, Schemas
    <2>3. CASE k # l
      BY <1>4, <2>1, <2>3
    <2> QED  BY <2>2, <2>3
  <1>6. Unwinding(m)'
    BY <1>1 DEF Unwinding
  <1>7. \A e \in Migrators \ {m} : Holds(e, l) => command[m] = "sql"
    <2>1. Ready(m, l)
      BY DEF Upgrade
    <2> QED  BY <1>1, <2>1 DEF Waits, WaitsFor
  <1> QED  BY <1>1, <1>2, <1>3, <1>5, <1>6, <1>7, WorkKeeps

LEMMA DowngradeKeeps ==
    ASSUME IInv, TypeOK', NEW m \in Migrators, NEW l \in Lineages, Downgrade(m, l)
    PROVE  IInv'
  <1> USE DEF IInv
  <1>1. /\ pc[m] = "run" /\ command[m] \in Lineages /\ command[m] \notin Upgrades
        /\ Leaf(m, l)
        /\ work' = [work EXCEPT ![m][l] = work[m][l] - 1]
        /\ UNCHANGED <<applied, pc, job, environment, read>>
        /\ command' = command
    BY Names DEF Downgrade, job
  <1>2. work[m] \in Schemas /\ work[m][l] - 1 \in Nat /\ \A k \in Lineages : read[m][k] \in Nat
    BY <1>1 DEF TypeOK, Schemas, Leaf, Falls
  <1>3. Supported([work[m] EXCEPT ![l] = work[m][l] - 1])
    BY <1>1, DowngradeSupported DEF Equipped
  <1>4. work'[m][l] = work[m][l] - 1 /\ \A k \in Lineages \ {l} : work'[m][k] = work[m][k]
    BY <1>1, <1>2, Advance DEF TypeOK
  <1>5. Upgrading(m)'
    BY <1>1 DEF Upgrading
  <1>6. Unwinding(m)'
    <2>1. l = command[m] \/ command[m] = "kernel"
      BY <1>1 DEF Leaf, Falls
    <2>2. /\ read[m] = applied
          /\ \A k \in Lineages : /\ work[m][k] <= read[m][k]
                                 /\ Holds(m, k) => k = command[m] \/ command[m] = "kernel"
      BY <1>1 DEF Unwinding
    <2>3. ASSUME NEW k \in Lineages
          PROVE  /\ work'[m][k] <= read[m][k]
                 /\ Holds(m, k)' => k = command[m] \/ command[m] = "kernel"
      <3>1. CASE k = l
        BY <1>2, <1>4, <2>1, <2>2, <3>1 DEF TypeOK, Schemas
      <3>2. CASE k # l
        BY <1>1, <1>4, <2>2, <3>2 DEF Holds
      <3> QED  BY <3>1, <3>2
    <2> QED  BY <1>1, <2>2, <2>3 DEF Unwinding
  <1>7. \A e \in Migrators \ {m} : ~Holds(e, l)
    BY <1>1 DEF UnwindsAlone, Running, Equipped, Holds
  <1> QED  BY <1>1, <1>2, <1>3, <1>5, <1>6, <1>7, WorkKeeps

(* What a commit leaves of the lineages other runs work on. *)
LEMMA CommitKeeps ==
    ASSUME IInv, TypeOK', NEW m \in Migrators, Commit(m)
    PROVE  IInv'
  <1> USE DEF IInv
  <1>1. pc[m] = "run" /\ applied' = Result(m) /\ Exit(m)
    BY DEF Commit, Finished
  <1>2. Supported(applied)'
    BY <1>1, ResultSupported
  <1>3. \A l \in Lineages : applied'[l] = IF Holds(m, l) THEN work[m][l] ELSE applied[l]
    BY <1>1 DEF Result
  <1>4. ASSUME NEW e \in Migrators \ {m}
        PROVE  Upgrading(e)' /\ Unwinding(e)'
    <2>1. /\ pc'[e] = pc[e] /\ read'[e] = read[e] /\ work'[e] = work[e]
          /\ command'[e] = command[e]
      BY <1>1, <1>4 DEF Exit, job, TypeOK
    <2>2. Upgrading(e) /\ Unwinding(e)
      BY <1>4
    <2>3. pc[e] = "run" => command[m] \in Upgrades /\ command[e] \in Upgrades
      BY <1>1, <1>4 DEF UnwindsAlone, Running
    <2>4. Unwinding(e)'
      BY <2>1, <2>3, Names DEF Unwinding
    <2>5. CASE pc[e] = "run" /\ command[e] = "heads"
      <3>1. ASSUME NEW l \in Lineages
            PROVE  /\ read[e][l] <= applied'[l]
                   /\ work[e][l] # read[e][l] => applied'[l] = read[e][l]
        <4>1. /\ read[e][l] <= applied[l]
              /\ work[e][l] # read[e][l] => applied[l] = read[e][l]
          BY <2>2, <2>5, Names DEF Upgrading, Holds
        <4>2. CASE Holds(m, l)
          <5>1. command[m] = "heads"
            BY <4>2, <2>3, <2>5 DEF Holds, Upgrades
          <5>2. applied'[l] = work[m][l] /\ applied[l] = read[m][l] /\ read[m][l] <= work[m][l]
            BY <1>1, <1>3, <4>2, <5>1, Names DEF Upgrading
          <5>3. ~Holds(e, l)
            BY <1>4, <4>2 DEF HeldOnce
          <5>4. work[e][l] = read[e][l]
            BY <2>5, <5>3 DEF Holds
          <5> QED  BY <4>1, <5>2, <5>4 DEF TypeOK, Schemas
        <4>3. CASE ~Holds(m, l)
          BY <1>3, <4>1, <4>3
        <4> QED  BY <4>2, <4>3
      <3> QED  BY <2>1, <2>2, <2>4, <2>5, <3>1 DEF Upgrading, Holds
    <2>6. CASE ~(pc[e] = "run" /\ command[e] = "heads")
      BY <2>1, <2>2, <2>4, <2>6 DEF Upgrading
    <2> QED  BY <2>5, <2>6
  <1> QED  BY <1>1, <1>2, <1>4, ExitKeeps

LEMMA StepInv == IInv /\ [Next]_vars => IInv'
  <1> SUFFICES ASSUME IInv, [Next]_vars PROVE IInv'
    OBVIOUS
  <1>1. TypeOK /\ TypeOK'
    BY StepType DEF IInv
  <1>2. ASSUME UNCHANGED <<applied, pc, job, environment, transaction>> PROVE IInv'
    <2>1. UNCHANGED <<applied, pc, command, release, bound, selected, locations, read, work>>
      BY <1>2 DEF job, environment, transaction
    <2>2. UnwindsAlone' /\ HeldOnce' /\ Supported(applied)'
      BY <2>1 DEF IInv, UnwindsAlone, Running, HeldOnce, Holds
    <2>3. ASSUME NEW m \in Migrators
          PROVE  Equipped(m)' /\ Upgrading(m)' /\ Unwinding(m)'
      <3>1. Equipped(m) /\ Upgrading(m) /\ Unwinding(m)
        BY DEF IInv
      <3>2. Equipped(m)'
        BY <2>1, <3>1 DEF Equipped, Installed, Loads, InGraph
      <3> QED  BY <2>1, <3>1, <3>2 DEF Upgrading, Unwinding, Holds
    <2> QED  BY <1>1, <2>2, <2>3 DEF IInv
  <1>3. CASE UNCHANGED vars
    BY <1>2, <1>3 DEF vars, job, environment, transaction
  <1>4. CASE Redeploy
    BY <1>2, <1>4 DEF Redeploy
  <1>5. ASSUME NEW m \in Migrators, Start(m) PROVE IInv'
    BY <1>1, <1>5, StartKeeps
  <1>6. ASSUME NEW m \in Migrators,
               InstallBindings(m) \/ SelectPlanes(m) \/ ComposeLineages(m)
        PROVE  IInv'
    BY <1>1, <1>6, InstallKeeps
  <1>7. ASSUME NEW m \in Migrators, Connect(m) PROVE IInv'
    BY <1>1, <1>7, ConnectKeeps
  <1>8. ASSUME NEW m \in Migrators, NEW l \in Lineages, Upgrade(m, l) PROVE IInv'
    BY <1>1, <1>8, UpgradeKeeps
  <1>9. ASSUME NEW m \in Migrators, NEW l \in Lineages, Downgrade(m, l) PROVE IInv'
    BY <1>1, <1>9, DowngradeKeeps
  <1>10. ASSUME NEW m \in Migrators, NEW l \in Lineages,
                LineageMissing(m) \/ Refuse(m) \/ Clash(m, l) \/ Deadlock(m) \/ Fail(m)
         PROVE  IInv'
    <2>1. Exit(m) /\ applied' = applied
      BY <1>10 DEF LineageMissing, Refuse, Clash, Deadlock, Fail
    <2> QED  BY <1>1, <2>1, QuitKeeps
  <1>11. ASSUME NEW m \in Migrators, Commit(m) PROVE IInv'
    BY <1>1, <1>11, CommitKeeps
  <1> QED
    BY <1>3, <1>4, <1>5, <1>6, <1>7, <1>8, <1>9, <1>10, <1>11, Names
       DEF Next, Install, Perform

(* The inductive invariant holds, for any number of migrators and releases. *)
THEOREM Invariance == Spec => []IInv
  BY InitInv, StepInv, PTL DEF Spec

(***************************************************************************)
(* What applied revisions need is in the schema, whole, in the database    *)
(* and inside every run, whatever overlaps, crashes or is unwound.         *)
(***************************************************************************)
THEOREM SchemaStaysSupported == Spec => []SchemaIsSupported
  <1>1. IInv => SchemaIsSupported
    <2> SUFFICES ASSUME IInv, NEW m \in Migrators, pc[m] = "run" PROVE Supported(Seen(m))
      BY DEF IInv, SchemaIsSupported
    <2> QED  BY ResultSupported DEF Seen, IInv, Equipped
  <1> QED  BY <1>1, Invariance, PTL
-----------------------------------------------------------------------------
(* A finished upgrade carries every lineage of its release. *)
LEMMA FinishedIsWhole ==
    ASSUME IInv, NEW m \in Migrators, Commit(m), command[m] \in Upgrades, NEW l \in Lineages
    PROVE  /\ work[m][l] > 0 /\ work[m][l] >= release[m][l]
           /\ command[m] = "heads" =>
                 /\ applied'[l] >= work[m][l] /\ applied'[l] >= applied[l]
                 /\ applied'[l] > 0 /\ applied'[l] >= release[m][l]
  <1> USE DEF IInv
  <1>1. pc[m] = "run" /\ work[m][l] >= release[m][l] /\ release[m][l] > 0
    BY DEF Commit, Finished, Equipped, Installed
  <1>2. /\ work[m][l] \in Nat /\ read[m][l] \in Nat /\ applied[l] \in Nat
        /\ release[m][l] \in Nat
    BY ReleaseType DEF TypeOK, Schemas
  <1>3. work[m][l] > 0
    BY <1>1, <1>2
  <1>4. ASSUME command[m] = "heads"
        PROVE  applied'[l] >= work[m][l] /\ applied'[l] >= applied[l]
    <2>1. /\ read[m][l] <= work[m][l] /\ read[m][l] <= applied[l]
          /\ Holds(m, l) => applied[l] = read[m][l]
      BY <1>1, <1>4, Names DEF Upgrading
    <2>2. applied'[l] = IF Holds(m, l) THEN work[m][l] ELSE applied[l]
      BY DEF Commit, Result
    <2>3. ~Holds(m, l) => work[m][l] = read[m][l]
      BY <1>4 DEF Holds
    <2> QED  BY <1>2, <2>1, <2>2, <2>3
  <1>5. ASSUME command[m] = "heads"
        PROVE  applied'[l] > 0 /\ applied'[l] >= release[m][l] /\ applied'[l] \in Nat
    <2>1. applied'[l] \in Nat
      BY <1>2 DEF Commit, Result
    <2> QED  BY <2>1, <1>1, <1>2, <1>3, <1>4, <1>5
  <1> QED  BY <1>1, <1>3, <1>4, <1>5

(***************************************************************************)
(* An upgrade that reports success, or a script, leaves out no owner's     *)
(* schema, whatever was installed and whatever else was running.           *)
(***************************************************************************)
THEOREM SuccessWhole == Spec => SuccessIsWhole
  <1>1. ASSUME IInv, [Next]_vars
        PROVE  [\A m \in Migrators : Succeeds(m) => \A l \in Lineages :
                  Outcome(m)[l] > 0 /\ Outcome(m)[l] >= release[m][l]]_vars
    <2> SUFFICES ASSUME NEW m \in Migrators, Succeeds(m), NEW l \in Lineages
                 PROVE  Outcome(m)[l] > 0 /\ Outcome(m)[l] >= release[m][l]
      OBVIOUS
    <2>1. Commit(m) /\ command[m] \in Upgrades
      BY DEF Succeeds
    <2>2. CASE command[m] = "sql"
      BY <1>1, <2>1, <2>2, FinishedIsWhole DEF Outcome
    <2>3. CASE command[m] = "heads"
      BY <1>1, <2>1, <2>3, FinishedIsWhole DEF Outcome
    <2> QED  BY <2>1, <2>2, <2>3 DEF Upgrades
  <1> QED  BY <1>1, Invariance, PTL DEF Spec, SuccessIsWhole

(* The promise speaks of the same lineages and the same needs. *)
LEMMA SameNames ==
    /\ Promise!Lineages = Lineages /\ Promise!Base = Base /\ Promise!Schemas = Schemas
    /\ Supported(applied)' => Promise!Supported(applied')
  BY DEF Promise!Lineages, Promise!Modules, Promise!Base, Promise!Schemas,
     Promise!Supported, Promise!WholeAt, Lineages, Modules, Base, Schemas, Supported, WholeAt

(* A commit is a whole upgrade, a whole unwinding, or no change at all. *)
LEMMA CommitKeepsPromise ==
    ASSUME IInv, TypeOK', NEW m \in Migrators, Commit(m), Supported(applied)'
    PROVE  [Promise!Next]_applied
  <1> USE DEF IInv
  <1>1. /\ pc[m] = "run" /\ command[m] \in Upgrades \cup Lineages
        /\ applied' \in Schemas /\ Finished(m)
        /\ \A l \in Lineages : applied'[l] = IF Holds(m, l) THEN work[m][l] ELSE applied[l]
    BY DEF Commit, Finished, TypeOK, Result
  <1>2. CASE command[m] = "sql"
    <2>1. \A l \in Lineages : applied'[l] = applied[l]
      BY <1>1, <1>2 DEF Holds
    <2>2. applied' = applied
      BY <1>1, <2>1 DEF TypeOK, Schemas
    <2> QED  BY <2>2
  <1>3. CASE command[m] = "heads"
    <2>1. \A l \in Lineages : applied'[l] >= applied[l] /\ applied'[l] > 0
      BY <1>3, FinishedIsWhole DEF Upgrades
    <2>2. Promise!Upgrade
      BY <2>1, SameNames DEF Promise!Upgrade
    <2> QED  BY <1>1, <2>2, SameNames DEF Promise!Next
  <1>4. CASE command[m] \in Lineages
    <2>1. command[m] \notin Upgrades /\ command[m] # "sql"
      BY <1>4, Names
    <2>2. /\ read[m] = applied
          /\ \A l \in Lineages : /\ work[m][l] <= read[m][l]
                                 /\ Holds(m, l) => l = command[m] \/ command[m] = "kernel"
      BY <1>1, <1>4 DEF Unwinding
    <2>3. \A l \in Lineages : applied'[l] = work[m][l]
      BY <1>1, <2>1, <2>2 DEF Holds
    <2>4. work[m][command[m]] = 0
      <3>1. ~Falls(m, command[m])
        BY <1>1, <1>4, <2>1 DEF Finished
      <3> QED  BY <1>4, <3>1 DEF Falls, TypeOK, Schemas
    <2>5. Promise!Unwind(command[m])
      <3>1. applied'[command[m]] = 0
        BY <1>4, <2>3, <2>4
      <3>2. ASSUME NEW l \in Lineages \ {command[m]}
            PROVE  IF command[m] = "kernel" THEN applied'[l] <= applied[l]
                                            ELSE applied'[l] = applied[l]
        BY <1>1, <2>2, <2>3
      <3> QED  BY <3>1, <3>2, SameNames DEF Promise!Unwind
    <2> QED  BY <1>1, <1>4, <2>5, SameNames DEF Promise!Next
  <1> QED  BY <1>1, <1>2, <1>3, <1>4 DEF Upgrades

(***************************************************************************)
(* The migrators' steps implement SchemaPromise: the database goes from    *)
(* one whole schema to another.                                            *)
(***************************************************************************)
THEOREM Refinement == Spec => KeepsTheSchemaPromise
  <1>1. Init => Promise!Init
    BY SameNames DEF Init, Promise!Init
  <1>2. ASSUME IInv, IInv', [Next]_vars
        PROVE  [Promise!Next]_applied
    <2>1. ASSUME NEW m \in Migrators, Commit(m) PROVE [Promise!Next]_applied
      BY <1>2, <2>1, CommitKeepsPromise DEF IInv
    <2>2. CASE UNCHANGED vars
      BY <2>2 DEF vars
    <2>3. CASE Redeploy
      BY <2>3 DEF Redeploy
    <2>4. ASSUME NEW m \in Migrators, NEW l \in Lineages,
                 Start(m) \/ Install(m) \/ Connect(m) \/ Refuse(m) \/ Upgrade(m, l)
                   \/ Clash(m, l) \/ Downgrade(m, l) \/ Deadlock(m) \/ Fail(m)
          PROVE  applied' = applied
      BY <2>4 DEF Start, Install, InstallBindings, SelectPlanes, ComposeLineages,
         LineageMissing, Connect, Refuse, Upgrade, Clash, Downgrade, Deadlock, Fail
    <2> QED  BY <1>2, <2>1, <2>2, <2>3, <2>4, Names DEF Next, Perform
  <1> QED  BY <1>1, <1>2, Invariance, PTL DEF Spec, KeepsTheSchemaPromise, Promise!Spec
-----------------------------------------------------------------------------
(* What a loaded revision depends on is a revision of the kernel. *)
LEMMA DependsType ==
    ASSUME TypeOK, NEW m \in Migrators, Loads(m), NEW l \in Lineages, NEW n,
           InGraph(m, l, n)
    PROVE  DependsOn(l, n) \subseteq Nat
  <1>1. \A need \in NeedsOf(l, n) : Bindings[need.effect] \in Nat
    BY BoundWhole DEF NeedsOf, Loads, TypeOK
  <1> QED  BY <1>1 DEF DependsOn, CloudDependsOn

(* What a step does to the run of one migrator. *)
LEMMA OwnStep ==
    ASSUME TypeOK, [Next]_vars, NEW m \in Migrators, pc'[m] = "run", command'[m] = "heads"
    PROVE  \/ work'[m] = read'[m]
           \/ \E l \in Lineages : Upgrade(m, l)
           \/ /\ pc'[m] = pc[m] /\ command'[m] = command[m] /\ release'[m] = release[m]
              /\ locations'[m] = locations[m] /\ read'[m] = read[m] /\ work'[m] = work[m]
  <1> USE DEF TypeOK
  <1> DEFINE Same == /\ pc'[m] = pc[m] /\ command'[m] = command[m]
                     /\ release'[m] = release[m] /\ locations'[m] = locations[m]
                     /\ read'[m] = read[m] /\ work'[m] = work[m]
  <1>1. CASE UNCHANGED vars
    BY <1>1 DEF vars
  <1>2. CASE Redeploy
    BY <1>2 DEF Redeploy, job, environment, transaction
  <1>3. ASSUME NEW e \in Migrators, Start(e) PROVE Same
    <2>1. pc' = [pc EXCEPT ![e] = "bind"] /\ UNCHANGED <<read, work>> /\ e # m
      BY <1>3 DEF Start, transaction
    <2> QED  BY <1>3, <2>1 DEF Start
  <1>4. ASSUME NEW e \in Migrators, InstallBindings(e) \/ SelectPlanes(e) \/ ComposeLineages(e)
        PROVE  Same
    <2>1. e # m
      BY <1>4 DEF InstallBindings, SelectPlanes, ComposeLineages
    <2> QED  BY <1>4, <2>1 DEF InstallBindings, SelectPlanes, ComposeLineages, job, transaction
  <1>5. ASSUME NEW e \in Migrators, Connect(e) PROVE Same \/ work'[m] = read'[m]
    BY <1>5 DEF Connect, job, environment
  <1>6. ASSUME NEW e \in Migrators, NEW l \in Lineages, Upgrade(e, l)
        PROVE  Same \/ \E k \in Lineages : Upgrade(m, k)
    BY <1>6 DEF Upgrade, job, environment
  <1>7. ASSUME NEW e \in Migrators, NEW l \in Lineages, Downgrade(e, l) PROVE Same
    <2>1. e # m
      BY <1>7, Names DEF Downgrade, job
    <2> QED  BY <1>7, <2>1 DEF Downgrade, job, environment
  <1>8. ASSUME NEW e \in Migrators, Exit(e) PROVE Same
    <2>1. e # m
      BY <1>8 DEF Exit
    <2> QED  BY <1>8, <2>1 DEF Exit, job
  <1>9. ASSUME NEW e \in Migrators, NEW l \in Lineages,
               LineageMissing(e) \/ Refuse(e) \/ Clash(e, l) \/ Deadlock(e) \/ Commit(e) \/ Fail(e)
        PROVE  Same
    BY <1>8, <1>9 DEF LineageMissing, Refuse, Clash, Deadlock, Commit, Fail
  <1> QED
    BY <1>1, <1>2, <1>3, <1>4, <1>5, <1>6, <1>7, <1>9, Names DEF Next, Install, Perform

LEMMA UpgradeInOrder ==
    ASSUME IInv, TakenInOrder, NEW m \in Migrators, NEW next \in Lineages, Upgrade(m, next),
           command[m] = "heads", NEW l \in Lineages, Holds(m, l)'
    PROVE  /\ InGraph(m, l, read[m][l] + 1)
           /\ \A k \in DependsOn(l, read[m][l] + 1) : work'[m]["kernel"] >= k
           /\ \A other \in Lineages : Offered(m, other) /\ ~Holds(m, other)' =>
                 Rank[l] <= Rank[other]
  <1>1. /\ pc[m] = "run" /\ Possible(m, next) /\ read' = read /\ command' = command
        /\ \A k \in Lineages : Possible(m, k) => Rank[next] <= Rank[k]
        /\ work' = [work EXCEPT ![m][next] = work[m][next] + 1]
    BY DEF Upgrade, Ready, job
  <1>2. /\ \A k \in Lineages : work[m][k] \in Nat /\ read[m][k] \in Nat
        /\ \A k \in Lineages : read[m][k] <= work[m][k]
        /\ Loads(m)
    BY <1>1, Names DEF IInv, TypeOK, Schemas, Equipped, Upgrading
  <1>3. /\ work'[m][next] = work[m][next] + 1
        /\ \A k \in Lineages \ {next} : work'[m][k] = work[m][k]
    BY <1>1 DEF IInv, TypeOK, Schemas
  <1>4. /\ work'[m]["kernel"] \in Nat /\ work'[m]["kernel"] >= work[m]["kernel"]
        /\ work[m]["kernel"] \in Nat /\ read[m]["kernel"] \in Nat
        /\ read[m]["kernel"] <= work[m]["kernel"]
    BY <1>2, <1>3, Names
  <1>5. \A k \in Lineages : Holds(m, k) <=> work[m][k] # read[m][k]
    BY Names DEF Holds
  <1>6. \A k \in Lineages : Holds(m, k)' <=> work'[m][k] # read[m][k]
    BY <1>1 DEF Holds
  <1>7. Holds(m, next)'
    BY <1>2, <1>3, <1>6
  <1>8. ~Holds(m, l) => l = next /\ work[m][l] = read[m][l]
    BY <1>3, <1>5, <1>6
  <1>9. /\ InGraph(m, l, read[m][l] + 1)
        /\ \A k \in DependsOn(l, read[m][l] + 1) : work[m]["kernel"] >= k
    <2>1. CASE Holds(m, l)
      BY <1>1, <2>1 DEF TakenInOrder
    <2>2. CASE ~Holds(m, l)
      BY <1>1, <1>8, <2>2 DEF Possible
    <2> QED  BY <2>1, <2>2
  <1>10. \A k \in DependsOn(l, read[m][l] + 1) : work'[m]["kernel"] >= k
    <2>1. DependsOn(l, read[m][l] + 1) \subseteq Nat
      BY <1>2, <1>9, DependsType DEF IInv
    <2> QED  BY <1>4, <1>9, <2>1
  <1>11. ASSUME NEW other \in Lineages, Offered(m, other), ~Holds(m, other)'
         PROVE  Rank[l] <= Rank[other]
    <2>1. other # next /\ ~Holds(m, other) /\ work[m][other] = read[m][other]
      BY <1>3, <1>5, <1>6, <1>7, <1>11
    <2>2. CASE Holds(m, l)
      BY <1>1, <1>11, <2>1, <2>2 DEF TakenInOrder
    <2>3. CASE ~Holds(m, l)
      <3>1. DependsOn(other, read[m][other] + 1) \subseteq Nat
        BY <1>2, <1>11, DependsType DEF IInv, Offered
      <3>2. Possible(m, other)
        BY <1>4, <1>11, <2>1, <3>1 DEF Possible, Offered
      <3> QED  BY <1>1, <1>8, <2>3, <3>2
    <2> QED  BY <2>2, <2>3
  <1> QED  BY <1>9, <1>10, <1>11

LEMMA StepOrder == IInv /\ TakenInOrder /\ [Next]_vars => TakenInOrder'
  <1> SUFFICES ASSUME IInv, TakenInOrder, [Next]_vars,
                      NEW m \in Migrators, NEW l \in Lineages,
                      pc'[m] = "run", command'[m] = "heads", Holds(m, l)'
               PROVE  /\ InGraph(m, l, read[m][l] + 1)'
                      /\ \A k \in DependsOn(l, read'[m][l] + 1) : work'[m]["kernel"] >= k
                      /\ \A other \in Lineages : Offered(m, other)' /\ ~Holds(m, other)' =>
                            Rank[l] <= Rank[other]
    BY DEF TakenInOrder, DependsOn
  <1>1. CASE work'[m] = read'[m]
    BY <1>1 DEF Holds
  <1>2. ASSUME NEW next \in Lineages, Upgrade(m, next)
        PROVE  /\ InGraph(m, l, read[m][l] + 1)'
               /\ \A k \in DependsOn(l, read'[m][l] + 1) : work'[m]["kernel"] >= k
               /\ \A other \in Lineages : Offered(m, other)' /\ ~Holds(m, other)' =>
                     Rank[l] <= Rank[other]
    <2>1. UNCHANGED <<command, release, locations, read>>
      BY <1>2 DEF Upgrade, job, environment
    <2>2. \A k \in Lineages : Offered(m, k)' <=> Offered(m, k)
      BY <2>1 DEF Offered, InGraph, DependsOn
    <2>3. InGraph(m, l, read[m][l] + 1)' <=> InGraph(m, l, read[m][l] + 1)
      BY <2>1 DEF InGraph
    <2> QED  BY <1>2, <2>1, <2>2, <2>3, UpgradeInOrder
  <1>3. CASE /\ pc'[m] = pc[m] /\ command'[m] = command[m] /\ release'[m] = release[m]
             /\ locations'[m] = locations[m] /\ read'[m] = read[m] /\ work'[m] = work[m]
    <2>1. \A k \in Lineages : (Holds(m, k)' <=> Holds(m, k))
      BY <1>3 DEF Holds
    <2>2. \A k \in Lineages : (Offered(m, k)' <=> Offered(m, k))
      BY <1>3 DEF Offered, InGraph, DependsOn
    <2>3. InGraph(m, l, read[m][l] + 1)' <=> InGraph(m, l, read[m][l] + 1)
      BY <1>3 DEF InGraph
    <2> QED  BY <1>3, <2>1, <2>2, <2>3 DEF TakenInOrder
  <1> QED  BY <1>1, <1>2, <1>3, OwnStep DEF IInv

(* Along a chain of waits the walk has come further and further. *)
LEMMA WaitsRise ==
    ASSUME IInv, TakenInOrder, OneWalk,
           NEW d \in Migrators, NEW e \in Migrators, NEW f \in Migrators,
           NEW l \in Lineages, NEW o \in Lineages, WaitsFor(d, e, l), WaitsFor(e, f, o)
    PROVE  Rank[l] < Rank[o]
  <1> USE DEF IInv
  <1>1. /\ Holds(e, l) /\ Holds(f, o) /\ e # f
        /\ pc[e] = "run" /\ command[e] = "heads" /\ Possible(e, o) /\ ~Overtaken(e, o)
    BY DEF WaitsFor, Ready, Upgrades
  <1>2. pc[f] = "run" /\ command[f] = "heads"
    <2>1. pc[f] = "run"
      BY <1>1 DEF Equipped, Holds
    <2>2. command[f] \in Upgrades
      BY <1>1, <2>1 DEF UnwindsAlone, Running
    <2> QED  BY <1>1, <2>1, <2>2 DEF Holds, Upgrades
  <1>3. /\ \A k \in Lineages : work[e][k] \in Nat /\ read[e][k] \in Nat
        /\ \A k \in Lineages : work[f][k] \in Nat /\ read[f][k] \in Nat
        /\ \A k \in Lineages : applied[k] \in Nat /\ read[f][k] <= applied[k]
        /\ \A k \in Lineages : Holds(e, k) => applied[k] = read[e][k]
        /\ \A k \in Lineages : Holds(f, k) => applied[k] = read[f][k]
        /\ \A k \in Lineages : ~Holds(e, k) => work[e][k] = read[e][k]
        /\ \A k \in Lineages : ~Holds(f, k) => work[f][k] = read[f][k]
    <2>1. \A k \in Lineages : /\ work[e][k] \in Nat /\ read[e][k] \in Nat /\ applied[k] \in Nat
                              /\ work[f][k] \in Nat /\ read[f][k] \in Nat
      BY DEF TypeOK, Schemas
    <2>2. Upgrading(e) /\ Upgrading(f)
      OBVIOUS
    <2> QED  BY <1>1, <1>2, <2>1, <2>2, Names DEF Upgrading, Holds
  <1>4. ~Holds(e, o) /\ o # l /\ work[e][o] = read[e][o] /\ applied[o] = read[e][o]
    <2>1. ~Holds(e, o)
      BY <1>1 DEF HeldOnce
    <2> QED  BY <1>1, <1>3, <2>1, Names DEF Overtaken
  <1>5. Offered(e, o)
    <2>1. InGraph(e, o, read[e][o] + 1)
      BY <1>1, <1>4 DEF Possible
    <2>2. DependsOn(o, read[e][o] + 1) \subseteq Nat
      BY <1>1, <2>1, DependsType DEF Equipped
    <2>3. CASE Holds(e, "kernel")
      <3>1. ~Holds(f, "kernel")
        BY <1>1, <2>3, Names DEF HeldOnce
      <3>2. /\ work[f]["kernel"] = read[f]["kernel"] /\ read[f]["kernel"] <= applied["kernel"]
            /\ applied["kernel"] = read[e]["kernel"]
        BY <1>3, <2>3, <3>1, Names
      <3>3. \A k \in DependsOn(o, read[f][o] + 1) : work[f]["kernel"] >= k
        BY <1>1, <1>2 DEF TakenInOrder
      <3>4. read[f][o] = read[e][o]
        BY <1>1, <1>3, <1>4
      <3>5. \A k \in DependsOn(o, read[e][o] + 1) : read[e]["kernel"] >= k
        BY <1>3, <2>2, <3>2, <3>3, <3>4, Names
      <3> QED  BY <2>1, <3>5 DEF Offered
    <2>4. CASE ~Holds(e, "kernel")
      <3>1. work[e]["kernel"] = read[e]["kernel"]
        BY <1>3, <2>4, Names
      <3> QED  BY <1>1, <1>4, <2>1, <3>1 DEF Possible, Offered
    <2> QED  BY <2>3, <2>4
  <1>6. Rank[l] <= Rank[o]
    BY <1>1, <1>4, <1>5 DEF TakenInOrder
  <1>7. Rank[l] # Rank[o] /\ Rank[l] \in Nat /\ Rank[o] \in Nat
    BY <1>4, LineagesAssumption DEF OneWalk
  <1> QED  BY <1>6, <1>7

(* Of the lineages somebody waits at, the walk comes to one last. *)
LEMMA SomeIsLast ==
    ASSUME NEW W \in SUBSET Lineages, W # {}
    PROVE  \E last \in W : \A l \in W : Rank[l] <= Rank[last]
  <1>1. \A l \in Lineages : Rank[l] \in Nat
    BY LineagesAssumption
  <1>2. Lineages = {"kernel", "cloud", "subscriptions", "billing"}
    BY DEF Lineages, Modules
  <1>3. \A l \in W : l \in {"kernel", "cloud", "subscriptions", "billing"}
    BY <1>2
  <1> DEFINE a == Rank["kernel"]
             b == Rank["cloud"]
             c == Rank["subscriptions"]
             d == Rank["billing"]
  <1>4. a \in Nat /\ b \in Nat /\ c \in Nat /\ d \in Nat
    BY <1>1, <1>2
  <1> QED  BY <1>3, <1>4

(***************************************************************************)
(* If Alembic walks the lineages in one order, no upgrades wait for one    *)
(* another in a circle: for any number of migrators, releases and needs.   *)
(***************************************************************************)
THEOREM NobodyIsStuck == Spec => []NoDeadlock
  <1>1. Init => TakenInOrder
    BY DEF Init, TakenInOrder
  <1>2. IInv /\ TakenInOrder => NoDeadlock
    <2> SUFFICES ASSUME IInv, TakenInOrder, OneWalk,
                        NEW S \in SUBSET Migrators, S # {}, Stuck(S)
                 PROVE  FALSE
      BY DEF NoDeadlock
    <2> DEFINE W == {l \in Lineages : \E d, e \in S : WaitsFor(d, e, l)}
    <2>1. W # {} /\ W \in SUBSET Lineages
      BY DEF Stuck
    <2>2. PICK last \in W : \A l \in W : Rank[l] <= Rank[last]
      BY <2>1, SomeIsLast
    <2>3. PICK d \in S, e \in S : WaitsFor(d, e, last)
      BY <2>2
    <2>4. PICK f \in S, o \in Lineages : WaitsFor(e, f, o)
      BY DEF Stuck
    <2>5. Rank[last] < Rank[o]
      BY <2>2, <2>3, <2>4, WaitsRise
    <2>6. o \in W
      BY <2>3, <2>4
    <2>7. Rank[o] \in Nat /\ Rank[last] \in Nat
      BY <2>2, <2>4, LineagesAssumption
    <2> QED  BY <2>2, <2>5, <2>6, <2>7
  <1> QED  BY <1>1, <1>2, Invariance, StepOrder, PTL DEF Spec
=============================================================================
