---------------------------- MODULE OpsQueueProofs ----------------------------
(***************************************************************************)
(* Proofs about OpsQueue, for every set of operations and every bound.     *)
(***************************************************************************)
EXTENDS OpsQueue, SequenceTheorems, TLAPS

(* What the saved summary owes to the shape of process: outside a save the   *)
(* file is whole, and memory always holds the full history.                  *)
FileInv ==
  /\ pc \notin {"closed", "save"} => file = "intact"
  /\ file = "missing" => pc = "closed" /\ history = <<>>
  /\ file = "intact" => disk.log = history
  /\ pc # "closed" => mem.log = history
  /\ caller.kind = "copy" => caller.summary.log = history
  /\ pc = "save" => ret \in {"none", "OK", "OPERATION_FAIL"}
  /\ pc = "closed" => ret = "none"

(* Which operation and which queue belong to which process call.             *)
FrameInv ==
  /\ pc \notin {"execute", "body"} => op = NoOp
  /\ pc \in {"execute", "body"} => op # NoOp
  /\ pc \in {"idle", "closed"} => caller.kind = "none"
  /\ pc = "save" /\ ret = "none" => caller.kind = "none"
  /\ pc = "closed" \/ (pc = "save" /\ ret = "none") => queue = <<>>
  /\ caller.kind # "none" => /\ caller.op # NoOp
                             /\ op \in {NoOp, RightFixer}
                             /\ queue \in {<<>>, <<RightFixer>>}

IInv == TypeOK /\ FileInv /\ FrameInv

USE DEF EmptySummary, NoCaller

LEMMA EmptyTyped == EmptySummary \in Summary /\ NoCaller \in Caller
  BY DEF Summary, Caller

LEMMA InitTypeOK == Init => TypeOK
  BY EmptyTyped DEF Init, TypeOK

(* A record added to a summary leaves a summary.                             *)
LEMMA WithRecordTyped ==
  ASSUME NEW s \in Summary, NEW o \in Op, NEW code \in {"OK", "OPERATION_FAIL"}
  PROVE  WithRecord(s, o, code) \in Summary
  <1> DEFINE r == [op |-> o, code |-> code]
  <1>1. CASE o \in Copying
    BY <1>1 DEF WithRecord
  <1>2. CASE o \notin Copying /\ caller.kind = "copy"
    <2>1. WithRecord(s, o, code) = [s EXCEPT !.copied = @ + 1]
      BY <1>2 DEF WithRecord
    <2>2. QED
      BY <2>1 DEF Summary
  <1>3. CASE o \notin Copying /\ caller.kind # "copy"
    <2>1. r \in Record
      BY DEF Record
    <2>2. s.log \in Seq(Record) /\ s.stubs \in SUBSET Training
      BY DEF Summary
    <2> DEFINE l == Append(s.log, r)
    <2>3. l \in Seq(Record)
      BY <2>1, <2>2
    <2>4. WithRecord(s, o, code) = [s EXCEPT !.log = l, !.stubs = @ \ {o}]
      BY <1>3 DEF WithRecord
    <2> HIDE DEF l
    <2>5. QED
      BY <2>2, <2>3, <2>4 DEF Summary
  <1>4. QED
    BY <1>1, <1>2, <1>3

LEMMA NextHistoryTyped ==
  ASSUME history \in Seq(Record), NEW o \in Op, NEW code \in {"OK", "OPERATION_FAIL"}
  PROVE  NextHistory(o, code) \in Seq(Record)
  <1>1. [op |-> o, code |-> code] \in Record
    BY DEF Record
  <1>2. QED
    BY <1>1 DEF NextHistory

(* ran is typed whatever becomes of the frame.                               *)
LEMMA NextRanTyped ==
  ASSUME ran \in Seq(Op \X BOOLEAN), NEW o \in Op, NEW ok \in BOOLEAN
  PROVE  NextRan(o, ok) \in Seq(Op \X BOOLEAN)
  BY DEF NextRan

(* RightFixer and the classes of the constants, as the steps below use them. *)
LEMMA OpFacts ==
  /\ NoOp \notin Op /\ RightFixer \in Op /\ RightFixer # NoOp
  /\ Copying \subseteq Op /\ Training \subseteq Op /\ RightsFixing \subseteq Op
  /\ RightFixer \notin Copying \cup Training \cup RightsFixing \cup Unbuildable
  /\ NoOp \notin Copying \cup Training \cup RightsFixing
  <1>1. /\ Training \in {Malformed, Unbuildable, RightsFixing, Copying, Training, Reindexing}
        /\ Copying \in {Malformed, Unbuildable, RightsFixing, Copying, Training, Reindexing}
        /\ RightsFixing \in {Malformed, Unbuildable, RightsFixing, Copying, Training, Reindexing}
        /\ Unbuildable \in {Malformed, Unbuildable, RightsFixing, Copying, Training, Reindexing}
    OBVIOUS
  <1>2. \A S \in {Malformed, Unbuildable, RightsFixing, Copying, Training, Reindexing} :
          S \subseteq Op \ {RightFixer}
    BY OpAssumption
  <1>3. /\ Training \subseteq Op \ {RightFixer} /\ Copying \subseteq Op \ {RightFixer}
        /\ RightsFixing \subseteq Op \ {RightFixer} /\ Unbuildable \subseteq Op \ {RightFixer}
    BY <1>1, <1>2
  <1>4. NoOp \notin Op /\ RightFixer \in Op
    BY OpAssumption
  <1>5. QED
    BY <1>3, <1>4

LEMMA QueueFacts ==
  ASSUME NEW q \in Seq(Op), q # <<>>
  PROVE  Head(q) \in Op /\ Tail(q) \in Seq(Op)
  OBVIOUS

(* Every step keeps the types.                                               *)
LEMMA NextTypeOK == IInv /\ [Next]_vars => TypeOK'
  <1> SUFFICES ASSUME IInv, [Next]_vars PROVE TypeOK'
    OBVIOUS
  <1> USE OpFacts, EmptyTyped
  <1>a. TypeOK /\ <<>> \in Seq(Op) /\ <<RightFixer>> \in Seq(Op)
    BY DEF IInv
  <1>b. /\ pc \in {"execute", "body"} => op \in Op
        /\ pc = "save" => ret \in {"none", "OK", "OPERATION_FAIL"}
    BY DEF IInv, TypeOK, FrameInv, FileInv
  <1> HIDE DEF EmptySummary, NoCaller
  <1>1. CASE OpenExisting
    BY <1>1, <1>a DEF OpenExisting, TypeOK
  <1>2. CASE OpenFresh
    BY <1>2, <1>a DEF OpenFresh, TypeOK
  <1>3. CASE Exit
    BY <1>3, <1>a DEF Exit, TypeOK
  <1>4. CASE ClearQueue
    BY <1>4, <1>a DEF ClearQueue, TypeOK
  <1>5. ASSUME NEW o \in Op, QueueOperation(o) PROVE TypeOK'
    BY <1>5, <1>a DEF QueueOperation, TypeOK
  <1>6. CASE ProcessRefused
    BY <1>6, <1>a DEF ProcessRefused, TypeOK
  <1>7. CASE ProcessStart
    BY <1>7, <1>a DEF ProcessStart, TypeOK
  <1>8. CASE Pop
    <2>1. op' \in Op /\ queue' \in Seq(Op)
      BY <1>8, <1>a, QueueFacts DEF Pop, TypeOK
    <2>2. QED
      BY <1>8, <1>a, <2>1 DEF Pop, TypeOK
  <1>9. CASE PopRaises
    <2>1. queue' \in Seq(Op)
      BY <1>9, <1>a, QueueFacts DEF PopRaises, TypeOK
    <2>2. QED
      BY <1>9, <1>a, <2>1 DEF PopRaises, TypeOK
  <1>10. CASE FixRights
    <2>1. caller' \in Caller
      BY <1>10, <1>a DEF FixRights, TypeOK, Caller
    <2>2. QED
      BY <1>10, <1>a, <2>1 DEF FixRights, TypeOK
  <1>11. CASE CopyFixRights
    <2>1. caller' \in Caller
      BY <1>11, <1>a DEF CopyFixRights, TypeOK, Caller
    <2>2. QED
      BY <1>11, <1>a, <2>1 DEF CopyFixRights, TypeOK
  <1>12. CASE Reindex
    BY <1>12, <1>a DEF Reindex, TypeOK
  <1>13. CASE Succeed
    <2>1. op \in Op
      BY <1>13, <1>b DEF Succeed
    <2>2. /\ mem' \in Summary
          /\ history' \in Seq(Record)
          /\ ran' \in Seq(Op \X BOOLEAN)
      BY <1>13, <1>a, <2>1, WithRecordTyped, NextHistoryTyped, NextRanTyped
         DEF Succeed, AppendSummary, TypeOK
    <2>3. QED
      BY <1>13, <1>a, <2>2 DEF Succeed, AppendSummary, TypeOK
  <1>14. CASE Fail
    <2>1. op \in Op
      BY <1>14, <1>b DEF Fail
    <2>2. /\ mem' \in Summary
          /\ history' \in Seq(Record)
          /\ ran' \in Seq(Op \X BOOLEAN)
      BY <1>14, <1>a, <2>1, WithRecordTyped, NextHistoryTyped, NextRanTyped
         DEF Fail, AppendSummary, TypeOK
    <2>3. QED
      BY <1>14, <1>a, <2>2 DEF Fail, AppendSummary, TypeOK
  <1>15. CASE TrainingRaises
    <2>1. op \in Op /\ op \in Training
      BY <1>15, <1>b DEF TrainingRaises
    <2>2. [mem EXCEPT !.stubs = @ \cup {op}] \in Summary
      BY <2>1, <1>a DEF TypeOK, Summary
    <2>3. mem' \in Summary
      BY <2>2, <1>15, <1>a DEF TrainingRaises, TypeOK
    <2>4. ran' \in Seq(Op \X BOOLEAN)
      <3>1. <<op, FALSE>> \in Op \X BOOLEAN /\ ran \in Seq(Op \X BOOLEAN)
        BY <2>1, <1>a DEF TypeOK
      <3>2. ran' = Append(ran, <<op, FALSE>>)
        BY <1>15 DEF TrainingRaises
      <3>3. QED
        BY <3>1, <3>2
    <2>5. QED
      BY <1>15, <1>a, <2>3, <2>4 DEF TrainingRaises, TypeOK
  <1>16. CASE Saved
    <2>1. pc' \in {"idle", "loop", "return"}
      BY <1>16, <1>b DEF Saved
    <2>2. QED
      BY <1>16, <1>a, <2>1 DEF Saved, TypeOK
  <1>17. CASE ReturnToClient
    BY <1>17, <1>a DEF ReturnToClient, TypeOK
  <1>18. CASE ReturnToOperation
    <2>1. /\ caller.queue \in Seq(Op)
          /\ caller.op \in Op \cup {NoOp}
          /\ caller.summary \in Summary
      BY <1>a DEF TypeOK, Caller
    <2>2. QED
      BY <1>18, <1>a, <2>1 DEF ReturnToOperation, TypeOK
  <1>19. CASE UNCHANGED vars
    BY <1>19, <1>a DEF vars, TypeOK
  <1>20. QED
    BY <1>1, <1>2, <1>3, <1>4, <1>5, <1>6, <1>7, <1>8, <1>9, <1>10, <1>11, <1>12,
       <1>13, <1>14, <1>15, <1>16, <1>17, <1>18, <1>19 DEF Next, Client, Process

(* A record goes to the summary exactly when it goes to the history.         *)
LEMMA RecordInHistory ==
  ASSUME NEW s \in Summary, s.log = history, NEW o \in Op, NEW code
  PROVE  WithRecord(s, o, code).log = NextHistory(o, code)
  BY DEF WithRecord, NextHistory, Summary

LEMMA NextFileInv == IInv /\ [Next]_vars => FileInv'
  <1> SUFFICES ASSUME IInv, [Next]_vars PROVE FileInv'
    OBVIOUS
  <1> USE OpFacts, EmptyTyped
  <1>a. TypeOK /\ FileInv
    BY DEF IInv
  <1>b. pc \in {"execute", "body"} => op \in Op
    BY DEF IInv, TypeOK, FrameInv
  <1>1. CASE OpenExisting
    BY <1>1, <1>a DEF OpenExisting, FileInv
  <1>2. CASE OpenFresh
    <2>1. caller.kind = "none"
      BY <1>2 DEF OpenFresh, IInv, FrameInv
    <2>2. QED
      BY <1>2, <1>a, <2>1 DEF OpenFresh, FileInv
  <1>3. CASE Exit
    BY <1>3, <1>a DEF Exit, FileInv
  <1>4. CASE ClearQueue
    BY <1>4, <1>a DEF ClearQueue, FileInv
  <1>5. ASSUME NEW o \in Op, QueueOperation(o) PROVE FileInv'
    BY <1>5, <1>a DEF QueueOperation, FileInv
  <1>6. CASE ProcessRefused
    BY <1>6, <1>a DEF ProcessRefused, FileInv
  <1>7. CASE ProcessStart
    BY <1>7, <1>a DEF ProcessStart, FileInv
  <1>8. CASE Pop
    BY <1>8, <1>a DEF Pop, FileInv
  <1>9. CASE PopRaises
    BY <1>9, <1>a DEF PopRaises, FileInv
  <1>10. CASE FixRights
    BY <1>10, <1>a DEF FixRights, FileInv
  <1>11. CASE CopyFixRights
    BY <1>11, <1>a DEF CopyFixRights, FileInv
  <1>12. CASE Reindex
    BY <1>12, <1>a DEF Reindex, FileInv
  <1>13. CASE Succeed
    <2>1. op \in Op /\ mem.log = history
      BY <1>13, <1>a, <1>b DEF Succeed, FileInv
    <2>2. mem'.log = history'
      BY <1>13, <1>a, <2>1, RecordInHistory DEF Succeed, AppendSummary, TypeOK
    <2>3. caller.kind = "copy" => history' = history
      BY <1>13 DEF Succeed, AppendSummary, NextHistory
    <2>4. QED
      BY <1>13, <1>a, <2>2, <2>3 DEF Succeed, AppendSummary, FileInv
  <1>14. CASE Fail
    <2>1. op \in Op /\ mem.log = history
      BY <1>14, <1>a, <1>b DEF Fail, FileInv
    <2>2. mem'.log = history'
      BY <1>14, <1>a, <2>1, RecordInHistory DEF Fail, AppendSummary, TypeOK
    <2>3. caller.kind = "copy" => history' = history
      BY <1>14 DEF Fail, AppendSummary, NextHistory
    <2>4. QED
      BY <1>14, <1>a, <2>2, <2>3 DEF Fail, AppendSummary, FileInv
  <1>15. CASE TrainingRaises
    <2>1. mem'.log = mem.log
      BY <1>15, <1>a DEF TrainingRaises, TypeOK, Summary
    <2>2. QED
      BY <1>15, <1>a, <2>1 DEF TrainingRaises, FileInv
  <1>16. CASE Saved
    <2>1. pc' \in {"idle", "loop", "return"}
      BY <1>16, <1>a DEF Saved, FileInv
    <2>2. QED
      BY <1>16, <1>a, <2>1 DEF Saved, FileInv
  <1>17. CASE ReturnToClient
    BY <1>17, <1>a DEF ReturnToClient, Returning, FileInv
  <1>18. CASE ReturnToOperation
    BY <1>18, <1>a DEF ReturnToOperation, Returning, FileInv
  <1>19. CASE UNCHANGED vars
    BY <1>19, <1>a DEF vars, FileInv
  <1>20. QED
    BY <1>1, <1>2, <1>3, <1>4, <1>5, <1>6, <1>7, <1>8, <1>9, <1>10, <1>11, <1>12,
       <1>13, <1>14, <1>15, <1>16, <1>17, <1>18, <1>19 DEF Next, Client, Process

LEMMA NextFrameInv == IInv /\ [Next]_vars => FrameInv'
  <1> SUFFICES ASSUME IInv, [Next]_vars PROVE FrameInv'
    OBVIOUS
  <1> USE OpFacts
  <1>a. TypeOK /\ FileInv /\ FrameInv
    BY DEF IInv
  <1>1. CASE OpenExisting
    BY <1>1, <1>a DEF OpenExisting, FrameInv
  <1>2. CASE OpenFresh
    BY <1>2, <1>a DEF OpenFresh, FrameInv
  <1>3. CASE Exit
    BY <1>3, <1>a DEF Exit, FrameInv
  <1>4. CASE ClearQueue
    BY <1>4, <1>a DEF ClearQueue, FrameInv
  <1>5. ASSUME NEW o \in Op, QueueOperation(o) PROVE FrameInv'
    BY <1>5, <1>a DEF QueueOperation, FrameInv
  <1>6. CASE ProcessRefused
    BY <1>6, <1>a DEF ProcessRefused, FrameInv
  <1>7. CASE ProcessStart
    BY <1>7, <1>a DEF ProcessStart, FrameInv
  <1>8. CASE Pop
    <2>1. op' = Head(queue) /\ op' \in Op /\ pc' = "execute"
      BY <1>8, <1>a, QueueFacts DEF Pop, TypeOK
    <2>2. caller.kind # "none" => queue = <<RightFixer>>
      BY <1>8, <1>a DEF Pop, FrameInv
    <2>3. caller.kind # "none" => op' = RightFixer /\ queue' = <<>>
      BY <1>8, <2>2 DEF Pop
    <2>4. QED
      BY <1>8, <1>a, <2>1, <2>3 DEF Pop, FrameInv
  <1>9. CASE PopRaises
    <2>1. caller.kind # "none" => queue = <<RightFixer>>
      BY <1>9, <1>a DEF PopRaises, FrameInv
    <2>2. caller.kind = "none"
      BY <1>9, <2>1 DEF PopRaises
    <2>3. QED
      BY <1>9, <1>a, <2>2 DEF PopRaises, FrameInv
  <1>10. CASE FixRights
    BY <1>10, <1>a DEF FixRights, FrameInv
  <1>11. CASE CopyFixRights
    BY <1>11, <1>a DEF CopyFixRights, FrameInv
  <1>12. CASE Reindex
    BY <1>12, <1>a DEF Reindex, FrameInv
  <1>13. CASE Succeed
    BY <1>13, <1>a DEF Succeed, AppendSummary, FrameInv
  <1>14. CASE Fail
    BY <1>14, <1>a DEF Fail, AppendSummary, FrameInv
  <1>15. CASE TrainingRaises
    BY <1>15, <1>a DEF TrainingRaises, FrameInv
  <1>16. CASE Saved
    <2>1. pc' \in {"idle", "loop", "return"}
      BY <1>16, <1>a DEF Saved, FileInv
    <2>2. pc' = "idle" => ret = "none"
      BY <1>16, <1>a DEF Saved, FileInv
    <2>3. QED
      BY <1>16, <1>a, <2>1, <2>2 DEF Saved, FrameInv
  <1>17. CASE ReturnToClient
    BY <1>17, <1>a DEF ReturnToClient, Returning, FrameInv
  <1>18. CASE ReturnToOperation
    BY <1>18, <1>a DEF ReturnToOperation, Returning, FrameInv
  <1>19. CASE UNCHANGED vars
    BY <1>19, <1>a DEF vars, FrameInv
  <1>20. QED
    BY <1>1, <1>2, <1>3, <1>4, <1>5, <1>6, <1>7, <1>8, <1>9, <1>10, <1>11, <1>12,
       <1>13, <1>14, <1>15, <1>16, <1>17, <1>18, <1>19 DEF Next, Client, Process

(* The inductive invariant holds throughout.                                 *)
THEOREM Inductive == Spec => []IInv
  <1>1. Init => IInv
    BY InitTypeOK DEF Init, IInv, FileInv, FrameInv
  <1>2. IInv /\ [Next]_vars => IInv'
    BY NextTypeOK, NextFileInv, NextFrameInv DEF IInv
  <1>3. QED
    BY <1>1, <1>2, PTL DEF Spec

(* dataset.py keeps its queue, frames and summaries well formed.             *)
THEOREM TypeCorrect == Spec => []TypeOK
  <1>1. IInv => TypeOK
    BY DEF IInv
  <1>2. QED
    BY <1>1, Inductive, PTL

(* Whatever the operations, their number and their order, a whole summary    *)
(* file holds the record of each operation that went through the dataset.    *)
THEOREM SummaryDurable == Spec => []DurableLog
  <1>1. IInv => DurableLog
    BY DEF IInv, FileInv, DurableLog
  <1>2. QED
    BY <1>1, Inductive, PTL

(* Each step of process is a step of BatchQueue, or none: the nested runs,   *)
(* the saves and the index rebuilds do not show.                             *)
LEMMA BatchStep == IInv /\ [Next]_vars => [Batch!Next]_(Batch!vars)
  <1> SUFFICES ASSUME IInv, [Next]_vars PROVE Batch!Next \/ UNCHANGED Batch!vars
    OBVIOUS
  <1> USE OpFacts DEF Nested, BatchPending, BatchCurrent, BatchStatus, Opening,
                      FailNoted, Batch!vars
  <1>a. TypeOK /\ FileInv /\ FrameInv
    BY DEF IInv
  <1>1. CASE OpenExisting
    <2>1. Batch!Start
      BY <1>1, <1>a DEF OpenExisting, FileInv, FrameInv, Batch!Start
    <2>2. QED
      BY <2>1 DEF Batch!Next
  <1>2. CASE OpenFresh
    BY <1>2, <1>a DEF OpenFresh, FileInv
  <1>3. CASE Exit
    <2>1. CASE Opening
      BY <1>3, <1>a, <2>1 DEF Exit, FrameInv
    <2>2. CASE ~Opening
      <3>1. Batch!Stop
        BY <1>3, <1>a, <2>2 DEF Exit, Batch!Stop
      <3>2. QED
        BY <3>1 DEF Batch!Next
    <2>3. QED
      BY <2>1, <2>2
  <1>4. CASE ClearQueue
    <2>1. Batch!Discard
      BY <1>4, <1>a DEF ClearQueue, FrameInv, Batch!Discard
    <2>2. QED
      BY <2>1 DEF Batch!Next
  <1>5. ASSUME NEW o \in Op, QueueOperation(o) PROVE Batch!Next
    <2>1. Batch!Submit(o)
      BY <1>5, <1>a DEF QueueOperation, FrameInv, Batch!Submit
    <2>2. QED
      BY <2>1 DEF Batch!Next
  <1>6. CASE ProcessRefused
    BY <1>6, <1>a DEF ProcessRefused, FrameInv
  <1>7. CASE ProcessStart
    <2>1. \A i \in DOMAIN queue : queue[i] \in Op \ Malformed
      BY <1>7, <1>a DEF ProcessStart, ValidStack, TypeOK
    <2>2. Batch!Run
      BY <1>7, <1>a, <2>1 DEF ProcessStart, FrameInv, Batch!Run
    <2>3. QED
      BY <2>2 DEF Batch!Next
  <1>8. CASE Pop
    <2>1. CASE Nested
      BY <1>8, <1>a, <2>1 DEF Pop
    <2>2. CASE ~Nested
      <3>1. Batch!Take
        BY <1>8, <1>a, <2>2 DEF Pop, FrameInv, Batch!Take
      <3>2. QED
        BY <3>1 DEF Batch!Next
    <2>3. QED
      BY <2>1, <2>2
  <1>9. CASE PopRaises
    <2>1. Nested => queue = <<RightFixer>>
      BY <1>9, <1>a DEF PopRaises, FrameInv
    <2>2. ~Nested
      BY <1>9, <2>1 DEF PopRaises
    <2>3. Batch!Abort
      BY <1>9, <1>a, <2>2 DEF PopRaises, FrameInv, Batch!Abort
    <2>4. QED
      BY <2>3 DEF Batch!Next
  <1>10. CASE FixRights
    <2>1. ~Nested
      BY <1>10, <1>a DEF FixRights, FrameInv
    <2>2. QED
      BY <1>10, <1>a, <2>1 DEF FixRights, FrameInv
  <1>11. CASE CopyFixRights
    <2>1. ~Nested
      BY <1>11, <1>a DEF CopyFixRights, FrameInv
    <2>2. QED
      BY <1>11, <1>a, <2>1 DEF CopyFixRights, FrameInv
  <1>12. CASE Reindex
    BY <1>12, <1>a DEF Reindex
  <1>13. CASE Succeed
    <2>1. CASE Nested
      BY <1>13, <1>a, <2>1 DEF Succeed, AppendSummary, NextRan
    <2>2. CASE ~Nested
      <3>1. Batch!Succeed
        BY <1>13, <1>a, <2>2
           DEF Succeed, AppendSummary, NextRan, FrameInv, Batch!Succeed
      <3>2. QED
        BY <3>1 DEF Batch!Next
    <2>3. QED
      BY <2>1, <2>2
  <1>14. CASE Fail
    <2>1. CASE Nested
      BY <1>14, <1>a, <2>1 DEF Fail, AppendSummary, NextRan
    <2>2. CASE ~Nested
      <3>1. Batch!Fail
        BY <1>14, <1>a, <2>2
           DEF Fail, AppendSummary, NextRan, FrameInv, Batch!Fail
      <3>2. QED
        BY <3>1 DEF Batch!Next
    <2>3. QED
      BY <2>1, <2>2
  <1>15. CASE TrainingRaises
    <2>1. ~Nested
      BY <1>15, <1>a DEF TrainingRaises, FrameInv
    <2>2. Batch!Fail
      BY <1>15, <1>a, <2>1 DEF TrainingRaises, FrameInv, Batch!Fail
    <2>3. QED
      BY <2>2 DEF Batch!Next
  <1>16. CASE Saved
    <2>1. CASE ret = "none"
      <3>1. Batch!Start
        BY <1>16, <1>a, <2>1 DEF Saved, FrameInv, Batch!Start
      <3>2. QED
        BY <3>1 DEF Batch!Next
    <2>2. CASE ret = "OK"
      BY <1>16, <1>a, <2>2 DEF Saved
    <2>3. CASE ret = "OPERATION_FAIL"
      BY <1>16, <1>a, <2>3 DEF Saved
    <2>4. QED
      BY <1>16, <1>a, <2>1, <2>2, <2>3 DEF Saved, FileInv
  <1>17. CASE ReturnToClient
    <2>1. CASE pc = "return"
      <3>1. Batch!ReportFailure
        BY <1>17, <1>a, <2>1 DEF ReturnToClient, FrameInv, Batch!ReportFailure
      <3>2. QED
        BY <3>1 DEF Batch!Next
    <2>2. CASE pc = "loop" /\ queue = <<>>
      <3>1. Batch!Complete
        BY <1>17, <1>a, <2>2 DEF ReturnToClient, FrameInv, Batch!Complete
      <3>2. QED
        BY <3>1 DEF Batch!Next
    <2>3. QED
      BY <1>17, <2>1, <2>2 DEF ReturnToClient, Returning
  <1>18. CASE ReturnToOperation
    BY <1>18, <1>a, EmptyTyped DEF ReturnToOperation, Returning, FrameInv
  <1>19. CASE UNCHANGED vars
    BY <1>19 DEF vars
  <1>20. QED
    BY <1>1, <1>2, <1>3, <1>4, <1>5, <1>6, <1>7, <1>8, <1>9, <1>10, <1>11, <1>12,
       <1>13, <1>14, <1>15, <1>16, <1>17, <1>18, <1>19 DEF Next, Client, Process

(* process, with its nested runs and its summary file, implements the batch  *)
(* queue that the callers rely on.                                           *)
THEOREM QueueImplementsBatch == Spec => QueueContract
  <1>1. Init => Batch!Init
    BY DEF Init, Batch!Init, Nested, BatchPending, BatchCurrent, BatchStatus
  <1>2. QED
    BY <1>1, Inductive, BatchStep, PTL DEF Spec, QueueContract, Batch!Spec
-------------------------------------------------------------------------------
(* How far memory and file may differ: outside a save, in stubs that memory  *)
(* has more of, and in the records of a nested copy, until the operation     *)
(* that copies has its own summary saved.                                    *)
MatchInv ==
  /\ pc \notin {"closed", "save"} =>
       /\ disk.stubs \subseteq mem.stubs
       /\ mem.copied = disk.copied \/ (pc = "body" /\ op \in Copying)
  /\ pc \in {"idle", "loop", "return"} /\ ret \in {"OK", "OPERATION_FAIL"} => mem = disk
  /\ caller.kind = "copy" => /\ caller.op \in Copying
                             /\ mem.stubs \cup disk.stubs \subseteq caller.summary.stubs

LEMMA ClassFacts ==
  Copying \cap Training = {} /\ RightFixer \notin Reindexing
  <1>1. Reindexing \in {Malformed, Unbuildable, RightsFixing, Copying, Training, Reindexing}
    OBVIOUS
  <1>2. QED
    BY <1>1, OpAssumption

(* Every step keeps what is said of memory and file.                         *)
LEMMA NextMatchInv == IInv /\ MatchInv /\ [Next]_vars => MatchInv'
  <1> SUFFICES ASSUME IInv, MatchInv, [Next]_vars PROVE MatchInv'
    OBVIOUS
  <1> USE OpFacts, ClassFacts DEF MatchInv
  <1>a. /\ TypeOK /\ FrameInv
        /\ caller.kind \in {"none", "neo4j", "copy"}
        /\ pc = "closed" => ret = "none"
        /\ pc = "save" => ret \in {"none", "OK", "OPERATION_FAIL"}
    BY DEF IInv, FileInv, TypeOK, Caller
  <1>b. \A o : /\ WithRecord(mem, o, "OK").stubs \subseteq mem.stubs
               /\ WithRecord(mem, o, "OPERATION_FAIL").stubs \subseteq mem.stubs
    BY <1>a DEF WithRecord, TypeOK, Summary
  <1> HIDE DEF EmptySummary, NoCaller
  <1>1. CASE OpenExisting
    BY <1>1, <1>a DEF OpenExisting
  <1>2. CASE OpenFresh
    BY <1>2, <1>a DEF OpenFresh, FrameInv
  <1>3. CASE Exit
    BY <1>3 DEF Exit, NoCaller
  <1>4. CASE ClearQueue
    BY <1>4, <1>a DEF ClearQueue
  <1>5. ASSUME NEW o \in Op, QueueOperation(o) PROVE MatchInv'
    BY <1>5 DEF QueueOperation
  <1>6. CASE ProcessRefused
    BY <1>6, <1>a DEF ProcessRefused
  <1>7. CASE ProcessStart
    BY <1>7, <1>a DEF ProcessStart
  <1>8. CASE Pop
    BY <1>8, <1>a DEF Pop
  <1>9. CASE PopRaises
    BY <1>9, <1>a DEF PopRaises
  <1>10. CASE FixRights
    BY <1>10, <1>a DEF FixRights
  <1>11. CASE CopyFixRights
    BY <1>11, <1>a DEF CopyFixRights
  <1>12. CASE Reindex
    <2>1. caller.kind # "copy"
      BY <1>12, <1>a DEF Reindex, FrameInv
    <2>2. QED
      BY <1>12, <2>1 DEF Reindex
  <1>13. CASE Succeed
    BY <1>13, <1>a, <1>b DEF Succeed, AppendSummary
  <1>14. CASE Fail
    BY <1>14, <1>a, <1>b DEF Fail, AppendSummary
  <1>15. CASE TrainingRaises
    <2>1. op \in Training /\ op \notin Copying /\ caller.kind # "copy"
      BY <1>15, <1>a DEF TrainingRaises, FrameInv
    <2>2. mem.stubs \subseteq mem'.stubs /\ mem'.copied = mem.copied
      BY <1>15, <1>a DEF TrainingRaises, TypeOK, Summary
    <2>3. QED
      BY <1>15, <2>1, <2>2 DEF TrainingRaises
  <1>16. CASE Saved
    BY <1>16, <1>a DEF Saved
  <1>17. CASE ReturnToClient
    BY <1>17, <1>a DEF ReturnToClient, Returning
  <1>18. CASE ReturnToOperation
    <2>1. caller'.kind = "none" /\ pc' = "body"
      BY <1>18 DEF ReturnToOperation, NoCaller
    <2>2. QED
      BY <1>18, <1>a, <2>1 DEF ReturnToOperation, Returning
  <1>19. CASE UNCHANGED vars
    BY <1>19 DEF vars
  <1>20. QED
    BY <1>1, <1>2, <1>3, <1>4, <1>5, <1>6, <1>7, <1>8, <1>9, <1>10, <1>11, <1>12,
       <1>13, <1>14, <1>15, <1>16, <1>17, <1>18, <1>19 DEF Next, Client, Process

(* Who has process back reads in memory what is in the file, whatever was    *)
(* nested, re-read from the file (rebuild_index) or left by an exception.    *)
THEOREM SummaryMatches == Spec => []MemoryMatchesFile
  <1>1. Init => MatchInv
    BY DEF Init, MatchInv
  <1>2. IInv /\ MatchInv => MemoryMatchesFile
    BY DEF IInv, FileInv, FrameInv, MatchInv, MemoryMatchesFile
  <1>3. QED
    BY <1>1, <1>2, NextMatchInv, Inductive, PTL DEF Spec
===============================================================================
