----------------------------- MODULE MCRepairLoop -----------------------------
(* An instance of RepairLoop for TLC. *)
EXTENDS RepairLoop
=============================================================================
