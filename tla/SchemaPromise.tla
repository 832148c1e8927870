---------------------------- MODULE SchemaPromise ----------------------------
(***************************************************************************)
(* What anyone who connects to Cloud's database may rely on: the schema    *)
(* changes by whole upgrades and whole unwindings only.  After an upgrade  *)
(* every owner's schema is there ("continuing without one would run        *)
(* alembic upgrade heads against a database missing that owner's schema    *)
(* while reporting success", env.py), and what an applied revision needs   *)
(* is there at all times.  No migrator, file or lock appears here.         *)
(***************************************************************************)
EXTENDS Prerequisites

VARIABLE applied   \* how far each lineage has been applied

Init == applied = Base

Upgrade ==
    /\ \A l \in Lineages : applied'[l] >= applied[l] /\ applied'[l] > 0
    /\ Supported(applied')

(* `downgrade l@base`; only the kernel takes other lineages with it. *)
Unwind(b) ==
    /\ applied'[b] = 0
    /\ \A l \in Lineages \ {b} :
          IF b = "kernel" THEN applied'[l] <= applied[l] ELSE applied'[l] = applied[l]
    /\ Supported(applied')

Next ==
    /\ applied' \in Schemas
    /\ Upgrade \/ \E b \in Lineages : Unwind(b)

Spec == Init /\ [][Next]_applied
=============================================================================
