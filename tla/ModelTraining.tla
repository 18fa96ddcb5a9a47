---------------------------- MODULE ModelTraining ----------------------------
(***************************************************************************)
(* The training sessions of one named model: ClassifierModel.execute       *)
(* (bugfinder/models/__init__.py), with what append_summary keeps of a     *)
(* session (bugfinder/base/dataset.py): the directory of the model, its    *)
(* backup beside it and the results recorded in the summary.               *)
(*                                                                         *)
(* A model is known by its metrics on the testing data, which are the same *)
(* in every session.  A session can raise, or be stopped, at any step and  *)
(* in the middle of an rmtree, a copytree or an epoch; another follows.    *)
(***************************************************************************)
EXTENDS Naturals

CONSTANTS
  Keys,        \* names of the metrics: "f1-score", "precision", "recall"
  MaxScore,    \* bound on the value of a metric
  None,        \* Python's None; no such directory
  Broken,      \* a directory that holds no model that can be loaded
  MaxSessions  \* bound on the sessions

Score == [Keys -> 0..MaxScore]

ASSUME TrainingAssumption == /\ MaxScore \in Nat
                             /\ MaxSessions \in Nat
                             /\ None \notin Score
                             /\ Broken \notin Score \cup {None}

VARIABLES
  pc,       \* step of the session
  args,     \* keep_best_model, reset and result_focus
  last,     \* last_results of the session
  result,   \* processing_stats: the results, until a previous model is put back
  dir,      \* model_dir
  bkp,      \* model_dir_bkp
  summary,  \* summary["training"][name]["last_results"]
  start,    \* ghost: model_dir when the session started
  dirty,    \* ghost: a session that had touched model_dir did not end
  sessions  \* number of sessions started

vars == <<pc, args, last, result, dir, bkp, summary, start, dirty, sessions>>

Args == [keep : BOOLEAN, reset : BOOLEAN, focus : SUBSET Keys]

Init == /\ pc = "idle"
        /\ args = [keep |-> FALSE, reset |-> FALSE, focus |-> {}]
        /\ last = None
        /\ result = None
        /\ dir = None
        /\ bkp = None
        /\ summary = None
        /\ start = None
        /\ dirty = FALSE
        /\ sessions = 0
-------------------------------------------------------------------------------
(* has_better_metrics (utils/statistics.py)                                  *)
HasBetterMetrics(focus, current, previous) ==
  previous # None => \A k \in focus : ~(previous[k] > current[k])

Start == /\ pc = "idle"
         /\ sessions < MaxSessions
         /\ sessions' = sessions + 1
         /\ args' \in Args
         /\ last' = IF args'.reset THEN None ELSE summary
         /\ result' = None
         /\ start' = dir
         /\ pc' = IF args'.reset /\ dir # None THEN "reset" ELSE "init"
         /\ UNCHANGED <<dir, bkp, summary, dirty>>

Reset == /\ pc = "reset"
         /\ dir' = None
         /\ pc' = "init"
         /\ UNCHANGED <<args, last, result, bkp, summary, start, dirty, sessions>>

(* "Summary tampered with": there is a model, and nothing is known of it.    *)
InitModel == /\ pc = "init"
             /\ pc' = IF last = None /\ ~args.reset /\ dir # None
                      THEN "baseline" ELSE "unbackup"
             /\ UNCHANGED <<args, last, result, dir, bkp, summary, start, dirty, sessions>>

(* Mutant: an evaluation that takes a directory without a model.             *)
BaselineOfBroken == /\ pc = "baseline"
                    /\ last' = dir
                    /\ pc' = "unbackup"
                    /\ UNCHANGED <<args, result, dir, bkp, summary, start, dirty, sessions>>

Baseline == /\ pc = "baseline"
            /\ dir \in Score
            /\ last' = dir
            /\ pc' = "unbackup"
            /\ UNCHANGED <<args, result, dir, bkp, summary, start, dirty, sessions>>

(* Mutant: a backup only for results found in the summary.                   *)
BackupOnlyIfRecorded ==
  /\ pc = "unbackup"
  /\ bkp' = None
  /\ pc' = IF summary # None /\ args.keep THEN "backup" ELSE "train"
  /\ UNCHANGED <<args, last, result, dir, summary, start, dirty, sessions>>

(* A backup that an earlier session left is removed, whatever it holds.      *)
RemoveOldBackup == /\ pc = "unbackup"
                   /\ bkp' = None
                   /\ pc' = IF last # None /\ args.keep THEN "backup" ELSE "train"
                   /\ UNCHANGED <<args, last, result, dir, summary, start, dirty, sessions>>

Backup == /\ pc = "backup"
          /\ dir # None
          /\ bkp' = dir
          /\ pc' = "train"
          /\ UNCHANGED <<args, last, result, dir, summary, start, dirty, sessions>>

(* One epoch goes on from the checkpoint found in model_dir.                 *)
TrainEpoch == /\ pc = "train"
              /\ dir' \in Score
              /\ pc' \in {"train", "evaluate"}
              /\ UNCHANGED <<args, last, result, bkp, summary, start, dirty, sessions>>

Evaluate == /\ pc = "evaluate"
            /\ result' = dir
            /\ pc' = "decide"
            /\ UNCHANGED <<args, last, dir, bkp, summary, start, dirty, sessions>>

(* Mutant: better in one of the metrics is better.                           *)
BetterInOne == args.keep /\ last # None => \E k \in args.focus : result[k] > last[k]

NewModelStays == ~args.keep \/ HasBetterMetrics(args.focus, result, last)

Accept == /\ pc = "decide"
          /\ NewModelStays
          /\ pc' = "cleanup"
          /\ UNCHANGED <<args, last, result, dir, bkp, summary, start, dirty, sessions>>

(* Mutant: the results of the discarded model stay in the statistics.        *)
DiscardButRecord ==
  /\ pc = "decide"
  /\ ~NewModelStays
  /\ dir' = Broken
  /\ pc' = "restore"
  /\ UNCHANGED <<args, last, result, bkp, summary, start, dirty, sessions>>

(* "Replacing model with previous one...": rmtree, then copytree.            *)
Discard == /\ pc = "decide"
           /\ ~NewModelStays
           /\ result' = None
           /\ dir' = Broken
           /\ pc' = "restore"
           /\ UNCHANGED <<args, last, bkp, summary, start, dirty, sessions>>

Restore == /\ pc = "restore"
           /\ dir' = bkp
           /\ pc' = "cleanup"
           /\ UNCHANGED <<args, last, result, bkp, summary, start, dirty, sessions>>

Cleanup == /\ pc = "cleanup"
           /\ bkp' = None
           /\ pc' = "append"
           /\ UNCHANGED <<args, last, result, dir, summary, start, dirty, sessions>>

(* append_summary; without "last_results" in the statistics it raises        *)
(* KeyError and records nothing.                                             *)
AppendSummary == /\ pc = "append"
                 /\ summary' = IF result = None THEN summary ELSE result
                 /\ dirty' = (dirty /\ result = None)
                 /\ pc' = "idle"
                 /\ UNCHANGED <<args, last, result, dir, bkp, start, sessions>>

(* An exception, or the end of the process, in the middle of a step.         *)
CutDir == CASE pc = "reset"   -> {dir, Broken}
            [] pc = "train"   -> Score \cup {dir, Broken}
            [] pc = "decide"  -> IF NewModelStays THEN {dir} ELSE {dir, Broken}
            [] pc = "restore" -> {None, Broken}
            [] OTHER          -> {dir}
CutBkp == CASE pc \in {"unbackup", "cleanup"} -> {bkp, Broken}
            [] pc = "backup"                  -> {None, Broken}
            [] OTHER                          -> {bkp}

Interrupted ==
  /\ pc # "idle"
  /\ dir' \in CutDir
  /\ bkp' \in (IF bkp = None /\ pc # "backup" THEN {None} ELSE CutBkp)
  /\ dirty' = \/ dirty
              \/ args.reset
              \/ pc \in {"train", "evaluate", "decide", "restore"}
              \/ pc \in {"cleanup", "append"} /\ result # None
  /\ pc' = "idle"
  /\ UNCHANGED <<args, last, result, summary, start, sessions>>

Next == \/ Start \/ Reset \/ InitModel \/ Baseline \/ RemoveOldBackup \/ Backup
        \/ TrainEpoch \/ Evaluate \/ Accept \/ Discard \/ Restore \/ Cleanup
        \/ AppendSummary \/ Interrupted

Spec == Init /\ [][Next]_vars
-------------------------------------------------------------------------------
TypeOK == /\ pc \in {"idle", "reset", "init", "baseline", "unbackup", "backup", "train",
                     "evaluate", "decide", "restore", "cleanup", "append"}
          /\ args \in Args
          /\ last \in Score \cup {None}
          /\ result \in Score \cup {None}
          /\ dir \in Score \cup {None, Broken}
          /\ bkp \in Score \cup {None, Broken}
          /\ summary \in Score \cup {None}
          /\ start \in Score \cup {None, Broken}
          /\ dirty \in BOOLEAN
          /\ sessions \in 0..MaxSessions

(* "Backup the existing model if needs be" (models/__init__.py:134): from    *)
(* its first step to its last, and so wherever it is stopped, a session that *)
(* keeps the best model has the model it started from, or a better one, in   *)
(* the directory of the model or in its backup.                              *)
BaselineRecoverable ==
  args.keep /\ last # None /\ sessions > 0 =>
    \/ start \in {dir, bkp}
    \/ result # None /\ HasBetterMetrics(args.focus, result, last)
                     /\ dir = result

(* The results in the summary are those of the model in the directory after  *)
(* any sequence of sessions (trained on, reset, put back) and of failures    *)
(* that came before model_dir was touched or after it was put back.          *)
SummaryDescribesModel == pc = "idle" /\ ~dirty => dir = summary

(* "keep the best performing model" (scripts/run_model_training.py:98): a    *)
(* session that was asked to, and ran to its end, leaves a model that is no  *)
(* worse than the recorded one, if no earlier session was cut short.         *)
KeptWithoutFailure ==
  pc = "append" /\ args.keep /\ last # None /\ ~dirty =>
    dir \in Score /\ HasBetterMetrics(args.focus, dir, last)

(* The same, whatever happened to the sessions before this one.              *)
BestModelKept ==
  pc = "append" /\ args.keep /\ last # None =>
    dir \in Score /\ HasBetterMetrics(args.focus, dir, last)
===============================================================================
