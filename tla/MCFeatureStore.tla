---------------------------- MODULE MCFeatureStore ----------------------------
(* Small instances of FeatureStore for TLC. *)
EXTENDS FeatureStore
===============================================================================
