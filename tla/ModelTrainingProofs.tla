-------------------------- MODULE ModelTrainingProofs --------------------------
(* Proofs of the properties of ModelTraining, for any set of metrics, any    *)
(* range of their values and any number of sessions.                         *)
EXTENDS ModelTraining, TLAPS

Before == {"init", "baseline", "unbackup", "backup"}
During == {"train", "evaluate", "decide", "restore"}
After  == {"cleanup", "append"}

(* A session that must be able to put the model back.                        *)
Keeps == args.keep /\ last # None

ResetInv == /\ args.reset => last = None
            /\ pc \in {"reset", "baseline"} => (pc = "reset") = args.reset
            /\ pc = "baseline" => last = None /\ dir # None
            /\ sessions = 0 => pc = "idle" /\ ~args.keep

(* Where the model that the session started from is.                         *)
StartInv == /\ pc \in Before /\ ~args.reset => dir = start
            /\ pc = "backup" => Keeps
            /\ pc \in During /\ Keeps => bkp = start
            /\ pc \in Before \cup {"reset", "train", "evaluate", "restore"} => result = None
            /\ pc = "evaluate" => dir \in Score
            /\ pc = "restore" => Keeps
            /\ pc = "decide" => result = dir /\ result # None
            /\ pc \in After \cup {"idle"} /\ Keeps =>
                 \/ result = None /\ pc \in After /\ dir = start
                 \/ pc = "idle" /\ start \in {dir, bkp}
                 \/ result # None /\ dir = result
                                  /\ HasBetterMetrics(args.focus, result, last)
            /\ pc \in After => \/ result # None /\ dir = result
                               \/ result = None /\ Keeps

(* What the summary says while no session is left unfinished.                *)
RecordInv == ~dirty => /\ pc = "idle" => dir = summary
                       /\ pc # "idle" => start = summary
                       /\ pc # "idle" /\ ~args.reset => last = summary
                       /\ pc = "baseline" => FALSE

IInv == TypeOK /\ ResetInv /\ StartInv /\ RecordInv

USE DEF Before, During, After, Keeps

LEMMA InitIInv == Init => IInv
<1> SUFFICES ASSUME Init PROVE IInv
  OBVIOUS
<1>1. TypeOK
  <2>1. args \in Args
    BY DEF Init, Args
  <2>2. pc = "idle" /\ dirty = FALSE /\ sessions = 0
    BY DEF Init
  <2>3. 0 \in 0..MaxSessions
    BY TrainingAssumption
  <2>4. /\ last = None /\ result = None /\ dir = None
        /\ bkp = None /\ summary = None /\ start = None
    BY DEF Init
  <2> QED
    BY <2>1, <2>2, <2>3, <2>4 DEF TypeOK
<1>2. ResetInv
  BY DEF Init, ResetInv
<1>3. StartInv
  BY DEF Init, StartInv
<1>4. RecordInv
  BY DEF Init, RecordInv
<1> QED
  BY <1>1, <1>2, <1>3, <1>4 DEF IInv

LEMMA StartStep == IInv /\ Start => IInv'
<1> SUFFICES ASSUME IInv, Start PROVE IInv'
  OBVIOUS
<1> USE DEF IInv
<1>1. TypeOK'
  BY TrainingAssumption DEF TypeOK, Start
<1>2. ResetInv'
  BY TrainingAssumption DEF ResetInv, TypeOK, Args, Start
<1>3. StartInv'
  BY TrainingAssumption DEF StartInv, ResetInv, TypeOK, Start
<1>4. RecordInv'
  BY DEF RecordInv, StartInv, ResetInv, TypeOK, Start
<1> QED
  BY <1>1, <1>2, <1>3, <1>4

LEMMA ResetStep == IInv /\ Reset => IInv'
<1> SUFFICES ASSUME IInv, Reset PROVE IInv'
  OBVIOUS
<1> USE DEF IInv
<1>1. TypeOK'
  BY TrainingAssumption DEF TypeOK, Reset
<1>2. ResetInv'
  BY DEF ResetInv, TypeOK, Reset
<1>3. StartInv'
  BY TrainingAssumption DEF StartInv, ResetInv, TypeOK, Reset
<1>4. RecordInv'
  BY DEF RecordInv, StartInv, ResetInv, TypeOK, Reset
<1> QED
  BY <1>1, <1>2, <1>3, <1>4

LEMMA InitModelStep == IInv /\ InitModel => IInv'
<1> SUFFICES ASSUME IInv, InitModel PROVE IInv'
  OBVIOUS
<1> USE DEF IInv
<1>1. TypeOK'
  BY TrainingAssumption DEF TypeOK, InitModel
<1>2. ResetInv'
  BY DEF ResetInv, TypeOK, Args, InitModel
<1>3. StartInv'
  BY TrainingAssumption DEF StartInv, ResetInv, TypeOK, InitModel
<1>4. RecordInv'
  BY DEF RecordInv, StartInv, ResetInv, TypeOK, InitModel
<1> QED
  BY <1>1, <1>2, <1>3, <1>4

LEMMA BaselineStep == IInv /\ Baseline => IInv'
<1> SUFFICES ASSUME IInv, Baseline PROVE IInv'
  OBVIOUS
<1> USE DEF IInv
<1>1. TypeOK'
  BY TrainingAssumption DEF TypeOK, Baseline
<1>2. ResetInv'
  BY DEF ResetInv, TypeOK, Baseline
<1>3. StartInv'
  BY TrainingAssumption DEF StartInv, ResetInv, TypeOK, Baseline
<1>4. RecordInv'
  BY DEF RecordInv, StartInv, ResetInv, TypeOK, Baseline
<1> QED
  BY <1>1, <1>2, <1>3, <1>4

LEMMA RemoveOldBackupStep == IInv /\ RemoveOldBackup => IInv'
<1> SUFFICES ASSUME IInv, RemoveOldBackup PROVE IInv'
  OBVIOUS
<1> USE DEF IInv
<1>1. TypeOK'
  BY TrainingAssumption DEF TypeOK, RemoveOldBackup
<1>2. ResetInv'
  BY DEF ResetInv, TypeOK, RemoveOldBackup
<1>3. StartInv'
  BY TrainingAssumption DEF StartInv, ResetInv, TypeOK, RemoveOldBackup
<1>4. RecordInv'
  BY DEF RecordInv, StartInv, ResetInv, TypeOK, RemoveOldBackup
<1> QED
  BY <1>1, <1>2, <1>3, <1>4

LEMMA BackupStep == IInv /\ Backup => IInv'
<1> SUFFICES ASSUME IInv, Backup PROVE IInv'
  OBVIOUS
<1> USE DEF IInv
<1>1. TypeOK'
  BY TrainingAssumption DEF TypeOK, Backup
<1>2. ResetInv'
  BY DEF ResetInv, TypeOK, Backup
<1>3. StartInv'
  BY TrainingAssumption DEF StartInv, ResetInv, TypeOK, Backup
<1>4. RecordInv'
  BY DEF RecordInv, StartInv, ResetInv, TypeOK, Backup
<1> QED
  BY <1>1, <1>2, <1>3, <1>4

LEMMA TrainEpochStep == IInv /\ TrainEpoch => IInv'
<1> SUFFICES ASSUME IInv, TrainEpoch PROVE IInv'
  OBVIOUS
<1> USE DEF IInv
<1>1. TypeOK'
  BY TrainingAssumption DEF TypeOK, TrainEpoch
<1>2. ResetInv'
  BY DEF ResetInv, TypeOK, TrainEpoch
<1>3. StartInv'
  BY TrainingAssumption DEF StartInv, ResetInv, TypeOK, TrainEpoch
<1>4. RecordInv'
  BY DEF RecordInv, StartInv, ResetInv, TypeOK, TrainEpoch
<1> QED
  BY <1>1, <1>2, <1>3, <1>4

LEMMA EvaluateStep == IInv /\ Evaluate => IInv'
<1> SUFFICES ASSUME IInv, Evaluate PROVE IInv'
  OBVIOUS
<1> USE DEF IInv
<1>1. TypeOK'
  BY DEF StartInv, TypeOK, Evaluate
<1>2. ResetInv'
  BY DEF ResetInv, TypeOK, Evaluate
<1>3. StartInv'
  BY TrainingAssumption DEF StartInv, ResetInv, TypeOK, Evaluate
<1>4. RecordInv'
  BY DEF RecordInv, StartInv, ResetInv, TypeOK, Evaluate
<1> QED
  BY <1>1, <1>2, <1>3, <1>4

LEMMA AcceptStep == IInv /\ Accept => IInv'
<1> SUFFICES ASSUME IInv, Accept PROVE IInv'
  OBVIOUS
<1> USE DEF IInv
<1>1. TypeOK'
  BY TrainingAssumption DEF TypeOK, Accept, NewModelStays
<1>2. ResetInv'
  BY DEF ResetInv, TypeOK, Accept, NewModelStays
<1>3. StartInv'
  BY TrainingAssumption DEF StartInv, ResetInv, TypeOK, Accept, NewModelStays
<1>4. RecordInv'
  BY DEF RecordInv, StartInv, ResetInv, TypeOK, Accept, NewModelStays
<1> QED
  BY <1>1, <1>2, <1>3, <1>4

LEMMA DiscardStep == IInv /\ Discard => IInv'
<1> SUFFICES ASSUME IInv, Discard PROVE IInv'
  OBVIOUS
<1> USE DEF IInv
<1>1. TypeOK'
  BY TrainingAssumption DEF TypeOK, Discard, NewModelStays
<1>2. ResetInv'
  BY DEF ResetInv, TypeOK, Discard, NewModelStays
<1>3. StartInv'
  BY TrainingAssumption DEF StartInv, ResetInv, TypeOK, Discard, NewModelStays,
                            HasBetterMetrics
<1>4. RecordInv'
  BY DEF RecordInv, StartInv, ResetInv, TypeOK, Discard, NewModelStays
<1> QED
  BY <1>1, <1>2, <1>3, <1>4

LEMMA RestoreStep == IInv /\ Restore => IInv'
<1> SUFFICES ASSUME IInv, Restore PROVE IInv'
  OBVIOUS
<1> USE DEF IInv
<1>1. TypeOK'
  BY TrainingAssumption DEF TypeOK, Restore
<1>2. ResetInv'
  BY DEF ResetInv, TypeOK, Restore
<1>3. StartInv'
  BY TrainingAssumption DEF StartInv, ResetInv, TypeOK, Restore
<1>4. RecordInv'
  BY DEF RecordInv, StartInv, ResetInv, TypeOK, Restore
<1> QED
  BY <1>1, <1>2, <1>3, <1>4

LEMMA CleanupStep == IInv /\ Cleanup => IInv'
<1> SUFFICES ASSUME IInv, Cleanup PROVE IInv'
  OBVIOUS
<1> USE DEF IInv
<1>1. TypeOK'
  BY TrainingAssumption DEF TypeOK, Cleanup
<1>2. ResetInv'
  BY DEF ResetInv, TypeOK, Cleanup
<1>3. StartInv'
  BY TrainingAssumption DEF StartInv, ResetInv, TypeOK, Cleanup
<1>4. RecordInv'
  BY DEF RecordInv, StartInv, ResetInv, TypeOK, Cleanup
<1> QED
  BY <1>1, <1>2, <1>3, <1>4

LEMMA AppendSummaryStep == IInv /\ AppendSummary => IInv'
<1> SUFFICES ASSUME IInv, AppendSummary PROVE IInv'
  OBVIOUS
<1> USE DEF IInv
<1>1. TypeOK'
  BY TrainingAssumption DEF TypeOK, AppendSummary
<1>2. ResetInv'
  BY DEF ResetInv, TypeOK, AppendSummary
<1>3. StartInv'
  BY TrainingAssumption DEF StartInv, ResetInv, TypeOK, AppendSummary
<1>4. RecordInv'
  BY DEF RecordInv, StartInv, ResetInv, TypeOK, AppendSummary
<1> QED
  BY <1>1, <1>2, <1>3, <1>4

LEMMA InterruptedStep == IInv /\ Interrupted => IInv'
<1> SUFFICES ASSUME IInv, Interrupted PROVE IInv'
  OBVIOUS
<1> USE DEF IInv
<1>1. TypeOK'
  BY TrainingAssumption DEF TypeOK, Interrupted, CutDir, CutBkp
<1>2. ResetInv'
  BY DEF ResetInv, TypeOK, Interrupted, CutDir, CutBkp
<1>3. StartInv'
  BY TrainingAssumption DEF StartInv, ResetInv, TypeOK, Interrupted, CutDir, CutBkp
<1>4. RecordInv'
  BY DEF RecordInv, StartInv, ResetInv, TypeOK, Interrupted, CutDir, CutBkp
<1> QED
  BY <1>1, <1>2, <1>3, <1>4

THEOREM Inductive == IInv /\ [Next]_vars => IInv'
<1> SUFFICES ASSUME IInv, [Next]_vars PROVE IInv'
  OBVIOUS
<1>1. CASE UNCHANGED vars
  BY <1>1 DEF IInv, TypeOK, ResetInv, StartInv, RecordInv, vars
<1>2. CASE Next
  BY <1>2, StartStep, ResetStep, InitModelStep, BaselineStep, RemoveOldBackupStep,
     BackupStep, TrainEpochStep, EvaluateStep, AcceptStep, DiscardStep, RestoreStep,
     CleanupStep, AppendSummaryStep, InterruptedStep DEF Next
<1> QED
  BY <1>1, <1>2

(* The values that a training session keeps have the types that TypeOK says. *)
THEOREM TypeCorrect == Spec => []TypeOK
<1>1. IInv => TypeOK
  BY DEF IInv
<1> QED
  BY <1>1, InitIInv, Inductive, PTL DEF Spec

(* BaselineRecoverable holds of every state: however many sessions there     *)
(* were and wherever they stopped, the model that a session must not lose is *)
(* in one of the two directories, unless a better one has its place.         *)
THEOREM BaselineIsRecoverable == Spec => []BaselineRecoverable
<1>1. IInv => BaselineRecoverable
  <2> SUFFICES ASSUME IInv, args.keep, last # None
               PROVE  start \in {dir, bkp} \/
                        (result # None /\ HasBetterMetrics(args.focus, result, last)
                                       /\ dir = result)
    BY DEF BaselineRecoverable
  <2>1. ~args.reset /\ pc # "reset"
    BY DEF IInv, ResetInv
  <2>2. CASE pc \in Before
    BY <2>1, <2>2 DEF IInv, StartInv
  <2>3. CASE pc \in During
    BY <2>3 DEF IInv, StartInv
  <2>4. CASE pc \in After \cup {"idle"}
    BY <2>4 DEF IInv, StartInv
  <2> QED
    BY <2>1, <2>2, <2>3, <2>4 DEF IInv, TypeOK
<1> QED
  BY <1>1, InitIInv, Inductive, PTL DEF Spec

(* SummaryDescribesModel holds of every state: as long as no session was cut *)
(* short after it touched the model, the recorded results are those of the   *)
(* model in the directory, whatever was trained, rejected, reset or failed.  *)
THEOREM SummaryIsOfModel == Spec => []SummaryDescribesModel
<1>1. IInv => SummaryDescribesModel
  BY DEF IInv, RecordInv, SummaryDescribesModel
<1> QED
  BY <1>1, InitIInv, Inductive, PTL DEF Spec

(* KeptWithoutFailure holds of every state: "keep the best performing model" *)
(* is what a session does when none before it was cut short.                 *)
THEOREM BestIsKeptWithoutFailure == Spec => []KeptWithoutFailure
<1>1. IInv => KeptWithoutFailure
  <2> SUFFICES ASSUME IInv, pc = "append", Keeps, ~dirty
               PROVE  dir \in Score /\ HasBetterMetrics(args.focus, dir, last)
    BY DEF KeptWithoutFailure
  <2>1. CASE result # None /\ dir = result
                           /\ HasBetterMetrics(args.focus, result, last)
    BY <2>1 DEF IInv, TypeOK
  <2>2. CASE dir = start
    <3>1. dir = last /\ last \in Score
      BY <2>2 DEF IInv, TypeOK, ResetInv, RecordInv
    <3>2. args.focus \subseteq Keys
      BY DEF IInv, TypeOK, Args
    <3>3. \A k \in args.focus : last[k] \in Nat
      BY <3>1, <3>2, TrainingAssumption DEF Score
    <3> QED
      BY <3>1, <3>3 DEF HasBetterMetrics
  <2> QED
    BY <2>1, <2>2 DEF IInv, StartInv
<1> QED
  BY <1>1, InitIInv, Inductive, PTL DEF Spec
===============================================================================
