---------------------------- MODULE MCContainerRun ----------------------------
(* Small instances of ContainerRun for TLC. *)
EXTENDS ContainerRun
===============================================================================
