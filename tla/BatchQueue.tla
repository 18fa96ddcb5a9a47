------------------------------ MODULE BatchQueue ------------------------------
(***************************************************************************)
(* What the processing queue of a dataset promises its caller              *)
(* (bugfinder/base/dataset.py: queue_operation, clear_queue, process).     *)
(*                                                                         *)
(* Operations are submitted one at a time and run as a batch: in the order *)
(* of submission, each one once, until all are done or one of them fails.  *)
(* A failure drops what was still pending and is reported.  A batch that   *)
(* is refused (empty, or holding something that is not an operation) runs  *)
(* nothing and loses nothing.  Nothing is said here of the sub-operations, *)
(* the summary file or the containers: OpsQueue implements this module.    *)
(***************************************************************************)
EXTENDS Sequences

CONSTANTS Op,       \* the operations a caller can submit
          NoOp,     \* "no operation is running"
          Accepted  \* those is_operation_valid accepts

VARIABLES pending,  \* operations submitted and not started
          current,  \* the operation being run, or NoOp
          status,   \* "stopped", "idle", "running" or "failed"
          done      \* <<operation, succeeded>> of every finished operation

vars == <<pending, current, status, done>>

(* The batch is started, or the program that owns the queue has ended.     *)
Init == /\ pending = <<>>
        /\ current = NoOp
        /\ status = "stopped"
        /\ done = <<>>

Start == /\ status = "stopped"
         /\ status' = "idle"
         /\ UNCHANGED <<pending, current, done>>

Submit(o) == /\ status = "idle"
             /\ pending' = Append(pending, o)
             /\ UNCHANGED <<current, status, done>>

Discard == /\ status = "idle"
           /\ pending' = <<>>
           /\ UNCHANGED <<current, status, done>>

Run == /\ status = "idle"
       /\ pending # <<>>
       /\ \A i \in DOMAIN pending : pending[i] \in Accepted
       /\ status' = "running"
       /\ UNCHANGED <<pending, current, done>>

Take == /\ status = "running"
        /\ current = NoOp
        /\ pending # <<>>
        /\ current' = Head(pending)
        /\ pending' = Tail(pending)
        /\ UNCHANGED <<status, done>>

Succeed == /\ status = "running"
           /\ current # NoOp
           /\ done' = Append(done, <<current, TRUE>>)
           /\ current' = NoOp
           /\ UNCHANGED <<pending, status>>

(* A failed operation: what was pending is dropped, the failure is kept    *)
(* until it has been reported.                                             *)
Fail == /\ status = "running"
        /\ current # NoOp
        /\ done' = Append(done, <<current, FALSE>>)
        /\ current' = NoOp
        /\ pending' = <<>>
        /\ status' \in {"failed", "idle"}

(* An operation that cannot be built: it is taken and never run, and the   *)
(* caller keeps the rest of the batch.                                     *)
Abort == /\ status = "running"
         /\ current = NoOp
         /\ pending # <<>>
         /\ pending' = Tail(pending)
         /\ status' = "idle"
         /\ UNCHANGED <<current, done>>

Complete == /\ status = "running"
            /\ current = NoOp
            /\ pending = <<>>
            /\ status' = "idle"
            /\ UNCHANGED <<pending, current, done>>

ReportFailure == /\ status = "failed"
                 /\ status' = "idle"
                 /\ UNCHANGED <<pending, current, done>>

(* The program stops, at any point: the queue only lives in memory.        *)
Stop == /\ status # "stopped"
        /\ pending' = <<>>
        /\ current' = NoOp
        /\ status' = "stopped"
        /\ UNCHANGED done

Next == \/ Start \/ (\E o \in Op : Submit(o)) \/ Discard \/ Run
        \/ Take \/ Succeed \/ Fail \/ Abort \/ Complete \/ ReportFailure
        \/ Stop

Spec == Init /\ [][Next]_vars
===============================================================================
