---------------------------- MODULE Prerequisites ----------------------------
(***************************************************************************)
(* The lineages that share Cloud's database and what their revisions need: *)
(* migration_lineages.py, migration_bindings.py, module_planes.py and the  *)
(* depends_on of ca_0001.  A lineage is a chain of revisions 1, 2, ...; a  *)
(* schema says how far each lineage has been applied, 0 being its base.    *)
(***************************************************************************)
EXTENDS Naturals

CONSTANT Needs   \* the effects the modules' revisions declare they require

(* COMPOSED_MODULE_LINEAGES *)
Modules == {"subscriptions", "billing"}
Lineages == {"kernel", "cloud"} \cup Modules

Schemas == [Lineages -> Nat]
Base == [l \in Lineages |-> 0]

ASSUME NeedsAssumption ==
    Needs \subseteq [lineage : Modules, revision : Nat \ {0}, effect : STRING]

(***************************************************************************)
(* The kernel revision from which each effect is whole.  0011 supplies the *)
(* tenant half of the outbox only; before 0018 the idempotency storage has *)
(* another name.                                                           *)
(***************************************************************************)
WholeAt == [catalog |-> 1, roles |-> 1, idempotency |-> 18, outbox |-> 12]

(* Mutation of Bindings: the relay is bound to its tenant half. *)
BindingsToHalf == [catalog |-> 1, roles |-> 1, idempotency |-> 18, outbox |-> 11]

(* Mutation of Bindings: an effect is bound to the head of the kernel. *)
BindingsToHead == [catalog |-> 1, roles |-> 1, idempotency |-> 19, outbox |-> 12]

(* ASSEMBLY_PREREQUISITE_BINDINGS: the kernel revision that answers an effect. *)
Bindings == [catalog |-> 1, roles |-> 1, idempotency |-> 18, outbox |-> 12]

(* Mutation of CloudDependsOn: the two lineages are independent roots. *)
CloudIndependent == {}

(* depends_on of ca_0001: the root of the kernel lineage. *)
CloudDependsOn == {1}

(* MODULE_PLANE_SELECTIONS: the modules whose plane is chosen (the tenant one). *)
Selections == {"subscriptions", "billing"}

NeedsOf(l, n) == {need \in Needs : need.lineage = l /\ need.revision = n}

(* The kernel revisions that go before revision n of lineage l. *)
DependsOn(l, n) ==
    CASE l = "kernel" -> {}
      [] l = "cloud" -> CloudDependsOn
      [] OTHER -> {Bindings[need.effect] : need \in NeedsOf(l, n)}

(* What the code of every applied revision relies on is there. *)
Supported(schema) ==
    /\ schema["cloud"] > 0 => schema["kernel"] >= WholeAt["roles"]
    /\ \A need \in Needs : schema[need.lineage] >= need.revision =>
          /\ need.effect \in DOMAIN WholeAt
          /\ schema["kernel"] >= WholeAt[need.effect]
=============================================================================
