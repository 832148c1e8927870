------------------------------ MODULE MCLineages ------------------------------
(* Instances of Lineages for TLC. *)
EXTENDS Lineages, TLC

CONSTANTS m1, m2

Release(kernel, subscriptions, billing) ==
    [l \in Lineages |-> CASE l = "kernel" -> kernel
                          [] l = "cloud" -> 1
                          [] l = "subscriptions" -> subscriptions
                          [] l = "billing" -> billing]

First == Release(18, 1, 1)
Second == Release(19, 2, 2)
WithoutBilling == Release(18, 1, 0)
OlderKernel == Release(12, 1, 1)    \* the idempotency ledger is at 18
Unanswered == Release(19, 2, 3)     \* billing 3 needs an effect nobody binds

AllReleases == {First, Second, WithoutBilling, OlderKernel, Unanswered}

Need(lineage, revision, effect) ==
    [lineage |-> lineage, revision |-> revision, effect |-> effect]

DeclaredNeeds ==
    {Need(module, 1, effect) : module \in Modules, effect \in {"catalog", "roles"}}
    \cup {Need("subscriptions", 1, "outbox"), Need("billing", 1, "idempotency"),
          Need("billing", 2, "outbox"), Need("billing", 3, "leases")}

(* A walk that comes to the foundation last, unless it is told not to. *)
KernelLast == [l \in Lineages |-> CASE l = "cloud" -> 0 [] l = "billing" -> 1
                                     [] l = "subscriptions" -> 2 [] l = "kernel" -> 3]

(* The same, with the modules in either order. *)
ModulesInAnyOrder == [KernelLast EXCEPT !["subscriptions"] = 1]

Symmetry == Permutations(Migrators)
=============================================================================
