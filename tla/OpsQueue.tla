------------------------------- MODULE OpsQueue -------------------------------
(***************************************************************************)
(* The processing queue of one dataset directory and the summary file kept *)
(* beside it: CodeWeaknessClassificationDataset.process and append_summary *)
(* (bugfinder/base/dataset.py), with the two places where an operation     *)
(* calls process again while it is itself being processed:                 *)
(*   - Neo4J3Processing.fix_data_folder_rights puts the queue of the same  *)
(*     dataset aside, runs a RightFixer through it and puts it back;       *)
(*   - CopyDataset opens a second dataset object on the same directory and *)
(*     runs a RightFixer through that one.                                 *)
(*                                                                         *)
(* One process works on the directory; it can be stopped at any point      *)
(* (interrupt, kill, or the exit(1) of hops_n_flows.py, which the handler  *)
(* "except Exception" of process does not catch) and started again.        *)
(***************************************************************************)
EXTENDS Naturals, Sequences

CONSTANTS
  Op,           \* operation classes (with their arguments)
  NoOp,         \* no operation
  RightFixer,   \* the operation that changes the owner of the files
  Malformed,    \* refused by is_operation_valid
  Unbuildable,  \* accepted by it, but the constructor raises (abstract class)
  RightsFixing, \* Neo4J3 operations: they call fix_data_folder_rights
  Copying,      \* CopyDataset, the only class of category __NONE__
  Training,     \* classes of category "training"; one model name each
  Reindexing,   \* operations that call rebuild_index
  MaxRecords,   \* bound: no operation is queued when the summary could exceed it
  MaxRuns       \* bound on the operations run through the queue

ASSUME OpAssumption ==
  /\ NoOp \notin Op
  /\ RightFixer \in Op
  /\ \A S \in {Malformed, Unbuildable, RightsFixing, Copying, Training, Reindexing} :
       S \subseteq Op \ {RightFixer}
  /\ Copying \cap (Training \cup RightsFixing) = {}
  /\ Training \cap RightsFixing = {}
  /\ MaxRecords \in Nat
  /\ MaxRuns \in Nat

VARIABLES
  pc,       \* where the process is
  queue,    \* ops_queue of the dataset object process is running on
  op,       \* operation popped by the innermost process call, or NoOp
  caller,   \* what the interrupted process call holds while a nested one runs
  mem,      \* dataset.summary of that object
  file,     \* the summary file: "missing", "torn" (truncated) or "intact"
  disk,     \* what it held when it was last intact
  ret,      \* return code of the innermost process call, so far
  history,  \* ghost: records of the operations run through the dataset object
  ran       \* ghost: <<operation, succeeded>> of every queued operation

vars == <<pc, queue, op, caller, mem, file, disk, ret, history, ran>>

Record  == [op : Op, code : {"OK", "OPERATION_FAIL"}]
(* log: the records of the "processing", "feature_*" and "training" lists,   *)
(* in the order they were added; copied: the records a CopyDataset had added *)
(* through its own dataset object; stubs: model names whose entry was made   *)
(* (last_results None) without a session.                                    *)
Summary == [log : Seq(Record), copied : Nat, stubs : SUBSET Training]
Caller  == [kind : {"none", "neo4j", "copy"}, op : Op \cup {NoOp},
            queue : Seq(Op), summary : Summary]

EmptySummary == [log |-> <<>>, copied |-> 0, stubs |-> {}]
NoCaller     == [kind |-> "none", op |-> NoOp, queue |-> <<>>,
                 summary |-> EmptySummary]

NeedsRights == RightsFixing \cup Copying

Init == /\ pc = "closed"
        /\ queue = <<>>
        /\ op = NoOp
        /\ caller = NoCaller
        /\ mem = EmptySummary
        /\ file = "missing"
        /\ disk = EmptySummary
        /\ ret = "none"
        /\ history = <<>>
        /\ ran = <<>>
-------------------------------------------------------------------------------
(* Opening the dataset.  load_summary reads the file, or writes a new one;   *)
(* json.load raises on a file that a stop has left truncated.                *)

OpenExisting == /\ pc = "closed"
                /\ file = "intact"
                /\ pc' = "idle"
                /\ mem' = disk
                /\ UNCHANGED <<queue, op, caller, file, disk, ret, history, ran>>

OpenFresh == /\ pc = "closed"
             /\ file = "missing"
             /\ pc' = "save"
             /\ mem' = EmptySummary
             /\ file' = "torn"
             /\ UNCHANGED <<queue, op, caller, disk, ret, history, ran>>

(* The process ends, or is stopped: memory is lost, the files are not.       *)
Exit == /\ pc # "closed"
        /\ pc' = "closed"
        /\ queue' = <<>>
        /\ op' = NoOp
        /\ caller' = NoCaller
        /\ mem' = EmptySummary
        /\ ret' = "none"
        /\ UNCHANGED <<file, disk, history, ran>>

(* Each queued operation leaves at most two records: its own and that of the *)
(* rights fixer it calls.                                                    *)
QueueOperation(o) ==
  /\ pc = "idle"
  /\ Len(mem.log) + mem.copied + 2 * (Len(queue) + 1) <= MaxRecords
  /\ Len(ran) + Len(queue) < MaxRuns
  /\ queue' = Append(queue, o)
  /\ UNCHANGED <<pc, op, caller, mem, file, disk, ret, history, ran>>

ClearQueue == /\ pc = "idle"
              /\ queue' = <<>>
              /\ UNCHANGED <<pc, op, caller, mem, file, disk, ret, history, ran>>
-------------------------------------------------------------------------------
(* process() *)

ValidStack(q) == \A i \in DOMAIN q : q[i] \notin Malformed

ProcessRefused ==
  /\ pc = "idle"
  /\ \/ ~ValidStack(queue) /\ ret' = "INVALID_QUEUE"
     \/ queue = <<>> /\ ret' = "EMPTY_QUEUE"
  /\ UNCHANGED <<pc, queue, op, caller, mem, file, disk, history, ran>>

ProcessStart == /\ pc = "idle"
                /\ ValidStack(queue)
                /\ queue # <<>>
                /\ pc' = "loop"
                /\ ret' = "none"
                /\ UNCHANGED <<queue, op, caller, mem, file, disk, history, ran>>

(* Mutant: the rest of the queue is taken for the operation.                 *)
PopRest == /\ pc = "loop"
           /\ queue # <<>>
           /\ Head(queue) \notin Unbuildable
           /\ op' = Tail(queue)
           /\ queue' = Tail(queue)
           /\ pc' = "execute"
           /\ UNCHANGED <<caller, mem, file, disk, ret, history, ran>>

Pop == /\ pc = "loop"
       /\ queue # <<>>
       /\ Head(queue) \notin Unbuildable
       /\ op' = Head(queue)
       /\ queue' = Tail(queue)
       /\ pc' = "execute"
       /\ UNCHANGED <<caller, mem, file, disk, ret, history, ran>>

(* The first instantiation stands outside the try: its exception leaves      *)
(* process with the operation popped and the rest of the queue in place.     *)
PopRaises == /\ pc = "loop"
             /\ queue # <<>>
             /\ Head(queue) \in Unbuildable
             /\ queue' = Tail(queue)
             /\ pc' = "idle"
             /\ ret' = "RAISED"
             /\ UNCHANGED <<op, caller, mem, file, disk, history, ran>>

(* Mutant: the queue that is kept is the list that clear_queue empties.      *)
FixRightsInPlace == /\ pc = "execute"
                    /\ op \in RightsFixing
                    /\ caller' = [kind |-> "neo4j", op |-> op, queue |-> <<>>,
                                  summary |-> EmptySummary]
                    /\ queue' = <<RightFixer>>
                    /\ op' = NoOp
                    /\ pc' = "loop"
                    /\ ret' = "none"
                    /\ UNCHANGED <<mem, file, disk, history, ran>>

(* fix_data_folder_rights: the queue is kept in a local variable, and        *)
(* clear_queue gives the dataset a new list.                                 *)
FixRights == /\ pc = "execute"
             /\ op \in RightsFixing
             /\ caller' = [kind |-> "neo4j", op |-> op, queue |-> queue,
                           summary |-> EmptySummary]
             /\ queue' = <<RightFixer>>
             /\ op' = NoOp
             /\ pc' = "loop"
             /\ ret' = "none"
             /\ UNCHANGED <<mem, file, disk, history, ran>>

(* CopyDataset.execute: a second dataset object reads the summary file.      *)
CopyFixRights == /\ pc = "execute"
                 /\ op \in Copying
                 /\ caller' = [kind |-> "copy", op |-> op, queue |-> queue,
                               summary |-> mem]
                 /\ mem' = disk
                 /\ queue' = <<RightFixer>>
                 /\ op' = NoOp
                 /\ pc' = "loop"
                 /\ ret' = "none"
                 /\ UNCHANGED <<file, disk, history, ran>>

(* rebuild_index ends with load_summary: memory is replaced by the file.     *)
Reindex == /\ pc \in {"execute", "body"}
           /\ op \in Reindexing
           /\ mem' = disk
           /\ UNCHANGED <<pc, queue, op, caller, file, disk, ret, history, ran>>

(* append_summary of a record of the operation being run.                    *)
WithRecord(s, o, code) ==
  IF o \in Copying THEN s
  ELSE IF caller.kind = "copy" THEN [s EXCEPT !.copied = @ + 1]
  ELSE [s EXCEPT !.log = Append(@, [op |-> o, code |-> code]),
                 !.stubs = @ \ {o}]

NextHistory(o, code) ==
  IF o \in Copying \/ caller.kind = "copy" THEN history
  ELSE Append(history, [op |-> o, code |-> code])

NextRan(o, ok) == IF caller.kind = "none" THEN Append(ran, <<o, ok>>) ELSE ran

(* Mutant: an operation that records nothing returns before save_summary.    *)
AppendIfRecorded(code) ==
  /\ mem' = WithRecord(mem, op, code)
  /\ history' = NextHistory(op, code)
  /\ IF op \in Copying
     THEN file' = file /\ pc' = (IF code = "OK" THEN "loop" ELSE "return")
     ELSE file' = "torn" /\ pc' = "save"
  /\ ret' = code

(* The record is added in memory and save_summary truncates the file.        *)
AppendSummary(code) == /\ mem' = WithRecord(mem, op, code)
                       /\ history' = NextHistory(op, code)
                       /\ file' = "torn"
                       /\ pc' = "save"
                       /\ ret' = code

Succeed == /\ \/ pc = "execute" /\ op \notin NeedsRights
              \/ pc = "body"
           /\ AppendSummary("OK")
           /\ ran' = NextRan(op, TRUE)
           /\ op' = NoOp
           /\ UNCHANGED <<queue, caller, disk>>

Fail == /\ pc \in {"execute", "body"}
        /\ op \notin Training
        /\ queue' = <<>>
        /\ AppendSummary("OPERATION_FAIL")
        /\ ran' = NextRan(op, FALSE)
        /\ op' = NoOp
        /\ UNCHANGED <<caller, disk>>

(* A training that fails, or ends without "last_results" in its statistics   *)
(* (SequentialModel; a ClassifierModel that put the previous model back):    *)
(* append_summary makes the entry of the model if there is none, then raises *)
(* KeyError, in the handler too.  Nothing is saved and process is left.      *)
TrainingRaises ==
  /\ pc \in {"execute", "body"}
  /\ op \in Training
  /\ queue' = <<>>
  /\ mem' = IF \E i \in DOMAIN mem.log : mem.log[i].op = op THEN mem
            ELSE [mem EXCEPT !.stubs = @ \cup {op}]
  /\ ran' = Append(ran, <<op, FALSE>>)
  /\ op' = NoOp
  /\ pc' = "idle"
  /\ ret' = "RAISED"
  /\ UNCHANGED <<caller, file, disk, history>>

(* Mutant: the record of a failure is not saved.                             *)
SavedIfOK == /\ pc = "save"
             /\ disk' = IF ret = "OPERATION_FAIL" THEN disk ELSE mem
             /\ file' = "intact"
             /\ pc' = CASE ret = "none" -> "idle"
                        [] ret = "OK" -> "loop"
                        [] ret = "OPERATION_FAIL" -> "return"
             /\ UNCHANGED <<queue, op, caller, mem, ret, history, ran>>

(* The end of save_summary; OpenFresh and the handler leave by it as well.   *)
Saved == /\ pc = "save"
         /\ disk' = mem
         /\ file' = "intact"
         /\ pc' = CASE ret = "none" -> "idle"
                    [] ret = "OK" -> "loop"
                    [] ret = "OPERATION_FAIL" -> "return"
         /\ UNCHANGED <<queue, op, caller, mem, ret, history, ran>>

Returning == pc = "return" \/ (pc = "loop" /\ queue = <<>>)

ReturnToClient == /\ Returning
                  /\ caller.kind = "none"
                  /\ pc' = "idle"
                  /\ UNCHANGED <<queue, op, caller, mem, file, disk, ret, history, ran>>

(* Back in fix_data_folder_rights or CopyDataset.execute, which ignore the   *)
(* return code; the first puts its queue back, the second its own object.    *)
ReturnToOperation ==
  /\ Returning
  /\ caller.kind # "none"
  /\ queue' = caller.queue
  /\ op' = caller.op
  /\ mem' = IF caller.kind = "copy" THEN caller.summary ELSE mem
  /\ caller' = NoCaller
  /\ pc' = "body"
  /\ UNCHANGED <<file, disk, ret, history, ran>>
-------------------------------------------------------------------------------
Client  == OpenExisting \/ OpenFresh \/ Exit \/ ClearQueue
           \/ \E o \in Op : QueueOperation(o)
Process == \/ ProcessRefused \/ ProcessStart \/ Pop \/ PopRaises
           \/ FixRights \/ CopyFixRights \/ Reindex
           \/ Succeed \/ Fail \/ TrainingRaises
           \/ Saved \/ ReturnToClient \/ ReturnToOperation

Next == Client \/ Process

Spec == Init /\ [][Next]_vars
-------------------------------------------------------------------------------
TypeOK ==
  /\ pc \in {"closed", "idle", "loop", "execute", "body", "save", "return"}
  /\ queue \in Seq(Op)
  /\ op \in Op \cup {NoOp}
  /\ caller \in Caller
  /\ mem \in Summary
  /\ file \in {"missing", "torn", "intact"}
  /\ disk \in Summary
  /\ ret \in {"none", "OK", "EMPTY_QUEUE", "INVALID_QUEUE", "OPERATION_FAIL", "RAISED"}
  /\ history \in Seq(Record)
  /\ ran \in Seq(Op \X BOOLEAN)

(* What the file holds, whenever it is whole, is the record of every         *)
(* operation that went through this dataset object, each one once and in     *)
(* the order they ended, nested RightFixer runs included: no rebuild_index,  *)
(* no interrupted or failed batch and no restart loses or repeats one.       *)
DurableLog == file = "intact" => disk.log = history

(* A caller that has process() back reads in dataset.summary what the file   *)
(* holds; only an exception can leave it with a stub that was never saved.   *)
MemoryMatchesFile ==
  pc = "idle" => /\ mem.log = disk.log
                 /\ mem.copied = disk.copied
                 /\ disk.stubs \subseteq mem.stubs
                 /\ ret \in {"OK", "OPERATION_FAIL"} => mem = disk

(* The queue as its callers see it, whatever nested calls do with the        *)
(* ops_queue attribute, runs batches as BatchQueue says: in order, once,     *)
(* up to the first failure, and the nested failure is not one.               *)
Nested       == caller.kind # "none"
BatchPending == IF Nested THEN caller.queue ELSE queue
BatchCurrent == IF Nested THEN caller.op ELSE op
Opening      == pc = "save" /\ ret = "none"
FailNoted    == pc = "return" \/ (pc = "save" /\ ret = "OPERATION_FAIL")
BatchStatus  == IF pc = "closed" \/ Opening THEN "stopped"
                ELSE IF pc = "idle" THEN "idle"
                ELSE IF FailNoted /\ ~Nested THEN "failed"
                ELSE "running"
Batch == INSTANCE BatchQueue WITH
           Accepted <- Op \ Malformed, pending <- BatchPending,
           current <- BatchCurrent, status <- BatchStatus, done <- ran
QueueContract == Batch!Spec

(* "Clear the operation queue and exit" with OPERATION_FAIL                  *)
(* (dataset.py:299-308, tests/base/dataset/test_unit.py:232-238): a failed   *)
(* operation is reported by the return code of process.                      *)
FailureReturned ==
  [][Len(ran') > Len(ran) /\ ~ran'[Len(ran')][2] => ret' = "OPERATION_FAIL"]_vars
===============================================================================
