---------------------------- MODULE MCModelTraining ----------------------------
(* Small instances of ModelTraining for TLC. *)
EXTENDS ModelTraining
===============================================================================
