----------------------------- MODULE MCWorkerPool -----------------------------
(* Small instances of WorkerPool for TLC. *)
EXTENDS WorkerPool, TLC

CONSTANTS t1, t2

OneEmpty == t1 :> 2 @@ t2 :> 0
===============================================================================
