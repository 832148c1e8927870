------------------------------ MODULE MCRuntime ------------------------------
(* An instance of Runtime for TLC: three workers and room for two. *)
EXTENDS Runtime
=============================================================================
