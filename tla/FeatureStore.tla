----------------------------- MODULE FeatureStore -----------------------------
(***************************************************************************)
(* The features of a dataset: features/features.csv, its numbered versions *)
(* features.<n>.csv and the copy a dataset object holds in memory.         *)
(*   bugfinder/base/dataset.py            _index_features, rebuild_index   *)
(*   bugfinder/features/extraction        write_extraction_outputs         *)
(*   bugfinder/features/reduction         AbstractFeatureSelector.execute  *)
(*   bugfinder/models                     ClassifierModel.execute          *)
(* One process works on the directory; operations follow each other, may   *)
(* fail, and the process may be stopped while a file is being written.     *)
(***************************************************************************)
EXTENDS Naturals, Sequences

CONSTANTS MaxFiles,    \* bound on the feature files written
          MaxVersions  \* bound on the versions kept

ASSUME FeatureAssumption == MaxFiles \in Nat /\ MaxVersions \in Nat

VARIABLES
  current,   \* features.csv
  versions,  \* features.1.csv, features.2.csv, ...
  stray,     \* the directory holds a file that is no version of the features
  open,      \* a dataset object exists
  features,  \* dataset.features
  version,   \* dataset.feats_version
  pc,        \* operation under way
  written,   \* ghost: number of feature files completely written
  trained    \* ghost: what the last training was fed with

vars == <<current, versions, stray, open, features, version, pc, written, trained>>

(* "broken": empty, read_csv raises.  "partial": cut short, read_csv takes   *)
(* it.  "thin": no more than the result and name columns, so that            *)
(* _validate_features raises.  "extracted" and "reduced": complete, told     *)
(* apart by id.                                                              *)
Complete == {"extracted", "reduced"}
File    == [state : {"absent", "broken", "partial", "thin"} \cup Complete, id : Nat]
NoFile  == [state |-> "absent", id |-> 0]
Broken  == [state |-> "broken", id |-> 0]
Partial == [state |-> "partial", id |-> 0]

Init == /\ current = NoFile
        /\ versions = <<>>
        /\ stray = FALSE
        /\ open = FALSE
        /\ features = NoFile
        /\ version = 1
        /\ pc = "idle"
        /\ written = 0
        /\ trained = "nothing"
-------------------------------------------------------------------------------
(* _index_features, given the versions in the directory: it returns early    *)
(* without features.csv, and raises on a file it cannot read, on one without *)
(* features, and on a file name without a version number.                    *)
Valid     == current.state \in {"partial"} \cup Complete
Indexable == current.state = "absent" \/ (Valid /\ ~stray)
IndexedFeatures == IF Valid \/ current.state = "thin" THEN current ELSE features

(* Mutants: the highest version itself; a version that is never looked up.   *)
HighestVersion(vs) == IF Valid /\ ~stray THEN Len(vs) ELSE version
FirstVersion(vs) == IF Valid /\ ~stray THEN 1 ELSE version

IndexedVersion(vs) == IF Valid /\ ~stray THEN Len(vs) + 1 ELSE version

Open == /\ ~open
        /\ Indexable
        /\ open' = TRUE
        /\ features' = current
        /\ version' = IF current.state = "absent" THEN 1 ELSE Len(versions) + 1
        /\ UNCHANGED <<current, versions, stray, pc, written, trained>>

(* The process ends or is stopped, in the middle of a write perhaps.         *)
CutShort(writing, f) == {f} \cup (IF writing THEN {Partial} ELSE {})
Close == /\ open
         /\ current' \in CutShort(pc \in {"extract", "write"}, current)
         /\ IF pc = "backup"
            THEN \E f \in CutShort(TRUE, Broken) :
                   versions' = [versions EXCEPT ![version] = f]
            ELSE UNCHANGED versions
         /\ open' = FALSE
         /\ pc' = "idle"
         /\ features' = NoFile
         /\ version' = 1
         /\ UNCHANGED <<stray, written, trained>>

(* A file operation on the source code ends with rebuild_index.              *)
Reindex == /\ open
           /\ pc = "idle"
           /\ features' = IndexedFeatures
           /\ version' = IndexedVersion(versions)
           /\ UNCHANGED <<current, versions, stray, open, pc, written, trained>>

(* write_extraction_outputs opens features.csv for writing before it looks   *)
(* at the labels: no version is kept of what was there.                      *)
ExtractBegin == /\ open
                /\ pc = "idle"
                /\ written < MaxFiles
                /\ current' = Broken
                /\ pc' = "extract"
                /\ UNCHANGED <<versions, stray, open, features, version, written, trained>>

(* No entry point, or labels that do not fit: it raises there.               *)
ExtractFail == /\ pc = "extract"
               /\ pc' = "idle"
               /\ UNCHANGED <<current, versions, stray, open, features, version,
                              written, trained>>

(* Without a feature map there are no labels: a file without features.       *)
ExtractEnd == /\ pc = "extract"
              /\ \E s \in {"thin", "extracted"} :
                   current' = [state |-> s, id |-> written + 1]
              /\ written' = written + 1
              /\ pc' = "idle"
              /\ UNCHANGED <<versions, stray, open, features, version, trained>>

(* The interprocedural extractor puts its JSON files in the same directory.  *)
ExtractInterproc == /\ open
                    /\ pc = "idle"
                    /\ stray' = TRUE
                    /\ UNCHANGED <<current, versions, open, features, version, pc,
                                   written, trained>>

WithVersion(vs, n, f) ==
  IF n \in DOMAIN vs THEN [vs EXCEPT ![n] = f] ELSE Append(vs, f)

(* A reduction that is not a dry run first copies features.csv under the     *)
(* current version number ...                                                *)
ReduceBackup == /\ open
                /\ pc = "idle"
                /\ current.state # "absent"
                /\ written < MaxFiles
                /\ Len(versions) < MaxVersions
                /\ versions' = WithVersion(versions, version, Broken)
                /\ pc' = "backup"
                /\ UNCHANGED <<current, stray, open, features, version, written, trained>>

(* Mutant: the index is not rebuilt after the backup.                        *)
ReduceWithoutIndex == /\ pc = "backup"
                      /\ versions' = WithVersion(versions, version, current)
                      /\ pc' = IF Indexable THEN "reduce" ELSE "idle"
                      /\ UNCHANGED <<current, stray, open, features, version,
                                     written, trained>>

(* ... and rebuilds the index, which may raise.                              *)
ReduceIndex == /\ pc = "backup"
               /\ versions' = WithVersion(versions, version, current)
               /\ features' = IndexedFeatures
               /\ version' = IndexedVersion(versions')
               /\ pc' = IF Indexable THEN "reduce" ELSE "idle"
               /\ UNCHANGED <<current, stray, open, written, trained>>

ReduceFail == /\ pc \in {"reduce", "write"}
              /\ current' \in CutShort(pc = "write", current)
              /\ pc' = "idle"
              /\ UNCHANGED <<versions, stray, open, features, version, written, trained>>

(* to_csv truncates the file, then writes it.  dataset.features stays.       *)
ReduceWriteBegin == /\ pc = "reduce"
                    /\ current' = Broken
                    /\ pc' = "write"
                    /\ UNCHANGED <<versions, stray, open, features, version,
                                   written, trained>>

ReduceWriteEnd == /\ pc = "write"
                  /\ current' = [state |-> "reduced", id |-> written + 1]
                  /\ written' = written + 1
                  /\ pc' = "idle"
                  /\ UNCHANGED <<versions, stray, open, features, version, trained>>

(* A training splits dataset.features, it does not read the file.            *)
Train == /\ open
         /\ pc = "idle"
         /\ features.state \in {"partial"} \cup Complete
         /\ trained' = CASE features = current -> "current"
                         [] features # current /\ current.state = "reduced" -> "unselected"
                         [] OTHER -> "outdated"
         /\ UNCHANGED <<current, versions, stray, open, features, version, pc, written>>

Next == \/ Open \/ Close \/ Reindex \/ Train
        \/ ExtractBegin \/ ExtractFail \/ ExtractEnd \/ ExtractInterproc
        \/ ReduceBackup \/ ReduceIndex \/ ReduceFail \/ ReduceWriteBegin \/ ReduceWriteEnd

Spec == Init /\ [][Next]_vars
-------------------------------------------------------------------------------
TypeOK == /\ current \in File
          /\ versions \in Seq(File)
          /\ stray \in BOOLEAN
          /\ open \in BOOLEAN
          /\ features \in File
          /\ version \in Nat \ {0}
          /\ pc \in {"idle", "extract", "backup", "reduce", "write"}
          /\ written \in Nat
          /\ trained \in {"nothing", "current", "unselected", "outdated"}

(* "Create a backup of the feature if running the selection"                 *)
(* (reduction/__init__.py:29): while a reduction computes and writes, a      *)
(* stop included, what it reduces is in the last version, and it is what     *)
(* dataset.features holds even if that was loaded before an extraction.      *)
ReductionHasBackup ==
  pc \in {"reduce", "write"} => /\ versions # <<>>
                                /\ version = Len(versions) + 1
                                /\ features = versions[Len(versions)]
                                /\ pc = "reduce" => features = current

(* Versions are numbered in the order the features were made, whatever the   *)
(* failures, retries and restarts in between, and features.csv is the last.  *)
VersionsInOrder ==
  \A j \in 1..Len(versions) : versions[j].state \in Complete =>
    /\ current.state \in Complete => versions[j].id <= current.id
    /\ \A i \in 1..(j - 1) :
         versions[i].state \in Complete => versions[i].id <= versions[j].id

(* Only an extraction destroys features: any other step, whether it          *)
(* completes or is interrupted, leaves each complete feature file that was   *)
(* there in features.csv or in a version (as long as nothing but feature     *)
(* files is in the directory, see the stray hazard).                         *)
Kept == {f.id : f \in {g \in {current} \cup {versions[i] : i \in DOMAIN versions} :
                         g.state \in Complete}}
FeaturesKept == [][ExtractBegin \/ stray \/ Kept \subseteq Kept']_vars

(* "Run feature selection to fasten training." (docs/_static/scripts/        *)
(* sample.py): a training that follows a selection is fed with its result.   *)
TrainsOnSelection == trained # "unselected"
===============================================================================
