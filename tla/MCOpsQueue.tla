----------------------------- MODULE MCOpsQueue -----------------------------
(* Small instances of OpsQueue for TLC. *)
EXTENDS OpsQueue
===============================================================================
