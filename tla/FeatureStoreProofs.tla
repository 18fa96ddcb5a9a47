-------------------------- MODULE FeatureStoreProofs --------------------------
(* Proofs of the properties of FeatureStore, for any number of feature files *)
(* and of versions.                                                          *)
EXTENDS FeatureStore, SequenceTheorems, TLAPS

(* The version number of an open dataset is that of the next version, or of  *)
(* the last one if the backup that made it was followed by an exception.     *)
NumberInv == /\ pc # "idle" => open
             /\ open => version \in {Len(versions), Len(versions) + 1}
             /\ pc = "backup" => version = Len(versions)

(* What the files hold while an operation is under way.                      *)
FileInv == /\ current.state = "absent" => versions = <<>>
           /\ pc # "idle" => current.state # "absent"
           /\ pc \in {"extract", "write"} => current.state \notin Complete
           /\ pc = "backup" => versions[version].state \notin Complete

(* Files are numbered as they are written.                                   *)
WrittenInv == /\ current.state \in Complete => current.id <= written
              /\ \A i \in 1..Len(versions) :
                   versions[i].state \in Complete => versions[i].id <= written

(* Without other files in the directory, a backup overwrites nothing but a   *)
(* version that was not worth keeping.                                       *)
OverwriteInv == ~stray /\ open /\ version = Len(versions) =>
                  versions[version].state \notin Complete

IInv == /\ TypeOK /\ NumberInv /\ FileInv /\ WrittenInv /\ OverwriteInv
        /\ VersionsInOrder /\ ReductionHasBackup
-------------------------------------------------------------------------------
LEMMA Files == NoFile \in File /\ Broken \in File /\ Partial \in File
BY DEF NoFile, Broken, Partial, File

(* A version is added at the end, or replaces the last one.                  *)
LEMMA WithVersionProperties ==
  ASSUME NEW vs \in Seq(File), NEW n \in {Len(vs), Len(vs) + 1}, n # 0,
         NEW f \in File
  PROVE  /\ WithVersion(vs, n, f) \in Seq(File)
         /\ Len(WithVersion(vs, n, f)) = n
         /\ WithVersion(vs, n, f)[n] = f
         /\ \A i \in 1..(n - 1) : WithVersion(vs, n, f)[i] = vs[i]
<1>1. DOMAIN vs = 1..Len(vs)
  BY LenProperties
<1>0. Len(vs) \in Nat
  BY LenProperties
<1> DEFINE v == WithVersion(vs, n, f)
<1>2. CASE n = Len(vs)
  <2>1. n \in 1..Len(vs)
    BY <1>0, <1>2
  <2>2. v = [vs EXCEPT ![n] = f]
    BY <1>1, <2>1, Zenon DEF WithVersion
  <2>3. /\ [vs EXCEPT ![n] = f] \in Seq(File)
        /\ Len([vs EXCEPT ![n] = f]) = Len(vs)
        /\ \A j \in 1..Len(vs) :
             [vs EXCEPT ![n] = f][j] = IF j = n THEN f ELSE vs[j]
    BY <2>1, ExceptSeq
  <2>4. /\ v \in Seq(File)
        /\ Len(v) = Len(vs)
        /\ \A j \in 1..Len(vs) : v[j] = IF j = n THEN f ELSE vs[j]
    BY <2>2, <2>3, Zenon
  <2> HIDE DEF v
  <2>5. \A i \in 1..(Len(vs) - 1) : i \in 1..Len(vs) /\ i # Len(vs)
    BY <1>0
  <2> QED
    BY <1>2, <2>1, <2>4, <2>5, Zenon DEF v
<1>3. CASE n = Len(vs) + 1
  <2>1. n \notin 1..Len(vs) /\ 1..(n - 1) = 1..Len(vs)
    BY <1>0, <1>3
  <2>2. v = Append(vs, f)
    BY <1>1, <2>1, Zenon DEF WithVersion
  <2>3. /\ Append(vs, f) \in Seq(File)
        /\ Len(Append(vs, f)) = Len(vs) + 1
        /\ \A i \in 1..Len(vs) : Append(vs, f)[i] = vs[i]
        /\ Append(vs, f)[Len(vs) + 1] = f
    BY AppendProperties
  <2> QED
    BY <1>3, <2>1, <2>2, <2>3, Zenon
<1> QED
  BY <1>2, <1>3

LEMMA InitIInv == Init => IInv
<1> SUFFICES ASSUME Init PROVE IInv
  OBVIOUS
<1>1. versions \in Seq(File) /\ Len(versions) = 0 /\ versions = <<>>
  BY EmptySeq DEF Init
<1>2. current \in File /\ features \in File /\ current.state = "absent"
  BY Files DEF Init, NoFile
<1>3. TypeOK
  <2>1. version \in Nat \ {0} /\ written \in Nat
    BY DEF Init
  <2> QED
    BY <1>1, <1>2, <2>1, Zenon DEF Init, TypeOK
<1>4. NumberInv /\ FileInv /\ WrittenInv /\ OverwriteInv
  BY <1>1, <1>2 DEF Init, NumberInv, FileInv, WrittenInv, OverwriteInv, Complete
<1>5. VersionsInOrder /\ ReductionHasBackup
  BY <1>1 DEF Init, VersionsInOrder, ReductionHasBackup
<1> QED
  BY <1>3, <1>4, <1>5 DEF IInv

(* The steps that leave the versions as they are.                            *)
LEMMA OpenStep == IInv /\ Open => IInv'
<1> SUFFICES ASSUME IInv, Open PROVE IInv'
  OBVIOUS
<1>1. Len(versions) \in Nat
  BY LenProperties DEF IInv, TypeOK
<1>2. TypeOK'
  BY <1>1 DEF IInv, TypeOK, Open
<1>3. current.state = "absent" => Len(versions) = 0
  BY EmptySeq DEF IInv, FileInv
<1>4. (NumberInv /\ OverwriteInv)'
  BY <1>1, <1>3 DEF IInv, TypeOK, NumberInv, OverwriteInv, Open
<1>5. (FileInv /\ WrittenInv /\ VersionsInOrder /\ ReductionHasBackup)'
  BY DEF IInv, FileInv, NumberInv, WrittenInv, VersionsInOrder, ReductionHasBackup, Open
<1> QED
  BY <1>2, <1>4, <1>5 DEF IInv

LEMMA ReindexStep == IInv /\ Reindex => IInv'
<1> SUFFICES ASSUME IInv, Reindex PROVE IInv'
  OBVIOUS
<1>1. Len(versions) \in Nat
  BY LenProperties DEF IInv, TypeOK
<1>2. TypeOK'
  BY <1>1 DEF IInv, TypeOK, Reindex, IndexedFeatures, IndexedVersion
<1>3. (NumberInv /\ OverwriteInv)'
  BY <1>1 DEF IInv, TypeOK, NumberInv, OverwriteInv, Reindex, IndexedVersion
<1>4. (FileInv /\ WrittenInv /\ VersionsInOrder /\ ReductionHasBackup)'
  BY DEF IInv, FileInv, NumberInv, WrittenInv, VersionsInOrder, ReductionHasBackup, Reindex
<1> QED
  BY <1>2, <1>3, <1>4 DEF IInv

LEMMA ExtractStep ==
  IInv /\ (ExtractBegin \/ ExtractFail \/ ExtractEnd \/ ExtractInterproc) => IInv'
<1> SUFFICES ASSUME IInv PROVE
      (ExtractBegin \/ ExtractFail \/ ExtractEnd \/ ExtractInterproc) => IInv'
  OBVIOUS
<1>1. ASSUME ExtractBegin PROVE IInv'
  <2>1. TypeOK' /\ current'.state = "broken"
    BY <1>1, Files DEF IInv, TypeOK, ExtractBegin, Broken
  <2>2. (NumberInv /\ FileInv /\ WrittenInv /\ OverwriteInv)'
    BY <1>1, <2>1 DEF IInv, NumberInv, FileInv, WrittenInv, OverwriteInv, ExtractBegin,
                      Complete
  <2>3. (VersionsInOrder /\ ReductionHasBackup)'
    BY <1>1, <2>1 DEF IInv, VersionsInOrder, ReductionHasBackup, ExtractBegin, Complete
  <2> QED
    BY <2>1, <2>2, <2>3 DEF IInv
<1>2. ASSUME ExtractFail PROVE IInv'
  BY <1>2 DEF ExtractFail, IInv, TypeOK, NumberInv, FileInv, WrittenInv, OverwriteInv,
              VersionsInOrder, ReductionHasBackup
<1>3. ASSUME ExtractEnd PROVE IInv'
  <2>1. PICK s \in {"thin", "extracted"} : current' = [state |-> s, id |-> written + 1]
    BY <1>3 DEF ExtractEnd
  <2>2. written \in Nat
    BY DEF IInv, TypeOK
  <2>3. current' \in File /\ current'.id = written + 1 /\ current'.state # "absent"
    BY <2>1, <2>2 DEF File, Complete
  <2>4. TypeOK'
    BY <1>3, <2>2, <2>3 DEF IInv, TypeOK, ExtractEnd
  <2>5. ASSUME NEW i \in 1..Len(versions), versions[i].state \in Complete
        PROVE  versions[i].id <= written + 1
    <3>1. versions[i] \in File
      BY ElementOfSeq DEF IInv, TypeOK
    <3>2. versions[i].id \in Nat
      BY <3>1 DEF File
    <3> QED
      BY <2>2, <2>5, <3>2 DEF IInv, WrittenInv
  <2>6. (NumberInv /\ FileInv /\ OverwriteInv)'
    BY <1>3, <2>3 DEF IInv, NumberInv, FileInv, OverwriteInv, ExtractEnd
  <2>7. (WrittenInv /\ VersionsInOrder /\ ReductionHasBackup)'
    BY <1>3, <2>2, <2>3, <2>5
       DEF IInv, WrittenInv, VersionsInOrder, ReductionHasBackup, ExtractEnd
  <2> QED
    BY <2>4, <2>6, <2>7 DEF IInv
<1>4. ASSUME ExtractInterproc PROVE IInv'
  BY <1>4 DEF ExtractInterproc, IInv, TypeOK, NumberInv, FileInv, WrittenInv, OverwriteInv,
              VersionsInOrder, ReductionHasBackup
<1> QED
  BY <1>1, <1>2, <1>3, <1>4

LEMMA TrainStep == IInv /\ Train => IInv'
BY DEF Train, IInv, TypeOK, NumberInv, FileInv, WrittenInv, OverwriteInv,
       VersionsInOrder, ReductionHasBackup

(* The end of a reduction: ReduceFail may leave a file cut short.            *)
LEMMA ReduceStep == IInv /\ (ReduceFail \/ ReduceWriteBegin \/ ReduceWriteEnd) => IInv'
<1> SUFFICES ASSUME IInv PROVE (ReduceFail \/ ReduceWriteBegin \/ ReduceWriteEnd) => IInv'
  OBVIOUS
<1>1. ASSUME ReduceFail PROVE IInv'
  <2>1. current' = current \/ (current' = Partial /\ pc = "write")
    BY <1>1 DEF ReduceFail, CutShort
  <2>2. CASE current' = current
    BY <1>1, <2>2 DEF ReduceFail, IInv, TypeOK, NumberInv, FileInv, WrittenInv,
                      OverwriteInv, VersionsInOrder, ReductionHasBackup
  <2>3. CASE current' = Partial
    <3>1. TypeOK' /\ current'.state = "partial" /\ pc' = "idle"
      BY <1>1, <2>3, Files DEF IInv, TypeOK, ReduceFail, Partial
    <3>2. (NumberInv /\ FileInv /\ WrittenInv /\ OverwriteInv)'
      BY <1>1, <3>1 DEF ReduceFail, IInv, NumberInv, FileInv, WrittenInv, OverwriteInv,
                        Complete
    <3>3. (VersionsInOrder /\ ReductionHasBackup)'
      BY <1>1, <3>1 DEF ReduceFail, IInv, VersionsInOrder, ReductionHasBackup, Complete
    <3> QED
      BY <3>1, <3>2, <3>3 DEF IInv
  <2> QED
    BY <2>1, <2>2, <2>3
<1>2. ASSUME ReduceWriteBegin PROVE IInv'
  <2>1. TypeOK' /\ current'.state = "broken" /\ pc' = "write" /\ pc = "reduce"
    BY <1>2, Files DEF IInv, TypeOK, ReduceWriteBegin, Broken
  <2>2. (NumberInv /\ FileInv /\ WrittenInv /\ OverwriteInv)'
    BY <1>2, <2>1 DEF ReduceWriteBegin, IInv, NumberInv, FileInv, WrittenInv,
                      OverwriteInv, Complete
  <2>3. (VersionsInOrder /\ ReductionHasBackup)'
    BY <1>2, <2>1 DEF ReduceWriteBegin, IInv, VersionsInOrder, ReductionHasBackup,
                      Complete
  <2> QED
    BY <2>1, <2>2, <2>3 DEF IInv
<1>3. ASSUME ReduceWriteEnd PROVE IInv'
  <2>1. written \in Nat
    BY DEF IInv, TypeOK
  <2>2. current' \in File /\ current'.id = written + 1 /\ current'.state = "reduced"
    BY <1>3, <2>1 DEF ReduceWriteEnd, File, Complete
  <2>3. TypeOK'
    BY <1>3, <2>1, <2>2 DEF IInv, TypeOK, ReduceWriteEnd
  <2>4. ASSUME NEW i \in 1..Len(versions), versions[i].state \in Complete
        PROVE  versions[i].id <= written + 1
    <3>1. versions[i] \in File
      BY ElementOfSeq DEF IInv, TypeOK
    <3>2. versions[i].id \in Nat
      BY <3>1 DEF File
    <3> QED
      BY <2>1, <2>4, <3>2 DEF IInv, WrittenInv
  <2>5. (NumberInv /\ FileInv /\ OverwriteInv)'
    BY <1>3, <2>2 DEF IInv, NumberInv, FileInv, OverwriteInv, ReduceWriteEnd
  <2>6. (WrittenInv /\ VersionsInOrder /\ ReductionHasBackup)'
    BY <1>3, <2>1, <2>2, <2>4
       DEF IInv, WrittenInv, VersionsInOrder, ReductionHasBackup, ReduceWriteEnd
  <2> QED
    BY <2>3, <2>5, <2>6 DEF IInv
<1> QED
  BY <1>1, <1>2, <1>3

(* The steps that change the version that is being made.  What they leave    *)
(* before it is what was there.                                              *)
LEMMA VersionReplaced ==
  ASSUME IInv, open, NEW f \in File, versions' = WithVersion(versions, version, f)
  PROVE  /\ versions' \in Seq(File)
         /\ Len(versions') = version
         /\ versions'[version] = f
         /\ \A i \in 1..(version - 1) : versions'[i] = versions[i] /\ i \in 1..Len(versions)
<1>1. versions \in Seq(File) /\ version \in Nat \ {0} /\ version # 0
  BY DEF IInv, TypeOK
<1>2. version \in {Len(versions), Len(versions) + 1}
  BY DEF IInv, NumberInv
<1> DEFINE v == WithVersion(versions, version, f)
<1>3. /\ v \in Seq(File)
      /\ Len(v) = version
      /\ v[version] = f
      /\ \A i \in 1..(version - 1) : v[i] = versions[i]
  BY <1>1, <1>2, WithVersionProperties
<1>4. Len(versions) \in Nat
  BY <1>1, LenProperties
<1>5. \A i \in 1..(version - 1) : i \in 1..Len(versions)
  BY <1>1, <1>2, <1>4
<1> QED
  BY <1>3, <1>5, Zenon

LEMMA ReduceBackupStep == IInv /\ ReduceBackup => IInv'
<1> SUFFICES ASSUME IInv, ReduceBackup PROVE IInv'
  OBVIOUS
<1>1. /\ versions' \in Seq(File) /\ Len(versions') = version
      /\ versions'[version] = Broken
      /\ \A i \in 1..(version - 1) : versions'[i] = versions[i] /\ i \in 1..Len(versions)
  BY VersionReplaced, Files DEF ReduceBackup
<1>2. version \in Nat \ {0} /\ version' = version
  BY DEF ReduceBackup, IInv, TypeOK
<1>3. TypeOK'
  BY <1>1 DEF ReduceBackup, IInv, TypeOK
<1>4. versions'[version].state \notin Complete
  BY <1>1 DEF Broken, Complete
<1>5. (NumberInv /\ FileInv /\ OverwriteInv)'
  BY <1>1, <1>2, <1>4 DEF ReduceBackup, IInv, NumberInv, FileInv, OverwriteInv
<1>6. \A i \in 1..version : i = version \/ i \in 1..(version - 1)
  BY <1>2
<1>7. WrittenInv'
  BY <1>1, <1>4, <1>6 DEF ReduceBackup, IInv, WrittenInv
<1>8. VersionsInOrder'
  <2> SUFFICES ASSUME NEW j \in 1..version, versions'[j].state \in Complete
               PROVE  /\ current.state \in Complete => versions'[j].id <= current.id
                      /\ \A i \in 1..(j - 1) : versions'[i].state \in Complete =>
                                                 versions'[i].id <= versions'[j].id
    BY <1>1 DEF VersionsInOrder, ReduceBackup
  <2>1. j \in 1..(version - 1)
    BY <1>4, <1>6
  <2>2. \A i \in 1..(j - 1) : i \in 1..(version - 1)
    BY <1>2, <2>1
  <2> QED
    BY <1>1, <2>1, <2>2 DEF IInv, VersionsInOrder
<1>9. ReductionHasBackup'
  BY DEF ReduceBackup, ReductionHasBackup
<1> QED
  BY <1>3, <1>5, <1>7, <1>8, <1>9 DEF IInv

LEMMA ReduceIndexStep == IInv /\ ReduceIndex => IInv'
<1> SUFFICES ASSUME IInv, ReduceIndex PROVE IInv'
  OBVIOUS
<1>0. open /\ current \in File /\ pc = "backup"
  BY DEF ReduceIndex, IInv, TypeOK, NumberInv
<1>1. /\ versions' \in Seq(File) /\ Len(versions') = version
      /\ versions'[version] = current
      /\ \A i \in 1..(version - 1) : versions'[i] = versions[i] /\ i \in 1..Len(versions)
  BY <1>0, VersionReplaced DEF ReduceIndex
<1>2. version \in Nat \ {0} /\ current' = current
  BY DEF ReduceIndex, IInv, TypeOK
<1>3. version' = IF Valid /\ ~stray THEN version + 1 ELSE version
  BY <1>1 DEF ReduceIndex, IndexedVersion
<1>4. TypeOK'
  BY <1>1, <1>2, <1>3 DEF ReduceIndex, IndexedFeatures, IInv, TypeOK
<1>5. current.state # "absent" /\ (pc' = "idle" \/ pc' = "reduce")
  BY <1>0 DEF IInv, FileInv, ReduceIndex
<1>6. (NumberInv /\ FileInv)'
  BY <1>0, <1>1, <1>2, <1>3, <1>5 DEF ReduceIndex, NumberInv, FileInv
<1>7. OverwriteInv'
  BY <1>1, <1>2, <1>3 DEF ReduceIndex, OverwriteInv, Valid
<1>8. \A i \in 1..version : i = version \/ i \in 1..(version - 1)
  BY <1>2
<1>9. WrittenInv'
  BY <1>1, <1>2, <1>8 DEF ReduceIndex, IInv, WrittenInv
<1>10. VersionsInOrder'
  <2> SUFFICES ASSUME NEW j \in 1..version, versions'[j].state \in Complete
               PROVE  /\ current.state \in Complete => versions'[j].id <= current.id
                      /\ \A i \in 1..(j - 1) : versions'[i].state \in Complete =>
                                                 versions'[i].id <= versions'[j].id
    BY <1>1, <1>2 DEF VersionsInOrder
  <2>1. \A i \in 1..(j - 1) : i \in 1..(version - 1)
    BY <1>2
  <2>2. CASE j = version
    <3>1. current.id \in Nat
      BY <1>0 DEF File
    <3> QED
      BY <1>1, <2>1, <2>2, <3>1 DEF IInv, VersionsInOrder
  <2>3. CASE j \in 1..(version - 1)
    BY <1>1, <2>1, <2>3 DEF IInv, VersionsInOrder
  <2> QED
    BY <1>8, <2>2, <2>3
<1>11. ReductionHasBackup'
  <2> SUFFICES ASSUME pc' = "reduce"
               PROVE  /\ versions' # <<>> /\ version' = version + 1
                      /\ features' = versions'[version] /\ features' = current'
    BY <1>1, <1>5 DEF ReductionHasBackup
  <2>1. Valid /\ ~stray
    BY <1>5 DEF ReduceIndex, Indexable
  <2>2. versions' # <<>>
    BY <1>1, <1>2, EmptySeq
  <2> QED
    BY <1>1, <1>2, <1>3, <2>1, <2>2 DEF ReduceIndex, IndexedFeatures
<1> QED
  BY <1>4, <1>6, <1>7, <1>9, <1>10, <1>11 DEF IInv

(* A stop: the dataset object is gone, the file being written is cut short.  *)
LEMMA CloseStep == IInv /\ Close => IInv'
<1> SUFFICES ASSUME IInv, Close PROVE IInv'
  OBVIOUS
<1>1. current' \in File /\ (current' = current \/ current'.state = "partial")
  BY Files DEF Close, CutShort, IInv, TypeOK, Partial
<1>2. /\ open /\ ~open' /\ pc' = "idle" /\ features' = NoFile /\ version' = 1
      /\ stray' = stray /\ written' = written /\ trained' = trained
  BY DEF Close
<1>0. version' \in Nat \ {0} /\ features' \in File /\ open' = FALSE
  BY <1>2, Files DEF Close
<1>3. CASE versions' = versions
  <2>1. TypeOK'
    BY <1>0, <1>1, <1>2, <1>3, Zenon DEF IInv, TypeOK
  <2>2. (NumberInv /\ FileInv /\ WrittenInv /\ OverwriteInv)'
    BY <1>1, <1>2, <1>3 DEF IInv, NumberInv, FileInv, WrittenInv, OverwriteInv, Complete
  <2>3. (VersionsInOrder /\ ReductionHasBackup)'
    BY <1>1, <1>2, <1>3 DEF IInv, VersionsInOrder, ReductionHasBackup, Complete
  <2> QED
    BY <2>1, <2>2, <2>3 DEF IInv
<1>4. CASE pc = "backup"
  <2>1. PICK f \in {Broken, Partial} : versions' = [versions EXCEPT ![version] = f]
    BY <1>4 DEF Close, CutShort
  <2>2. f \in File /\ f.state \notin Complete
    BY Files DEF Broken, Partial, Complete
  <2>3. version = Len(versions) /\ version \in Nat \ {0} /\ versions \in Seq(File)
    BY <1>4 DEF IInv, NumberInv, TypeOK
  <2>4. version \in DOMAIN versions
    BY <2>3, LenProperties
  <2>5. versions' = WithVersion(versions, version, f)
    BY <2>1, <2>4, Zenon DEF WithVersion
  <2>6. /\ versions' \in Seq(File) /\ Len(versions') = version
        /\ versions'[version] = f
        /\ \A i \in 1..(version - 1) : versions'[i] = versions[i]
                                       /\ i \in 1..Len(versions)
    BY <1>2, <2>2, <2>5, VersionReplaced
  <2>7. \A i \in 1..version : i = version \/ i \in 1..(version - 1)
    BY <2>3
  <2>8. TypeOK'
    BY <1>0, <1>1, <1>2, <2>6, Zenon DEF IInv, TypeOK
  <2>9. (NumberInv /\ FileInv /\ OverwriteInv)'
    BY <1>1, <1>2, <1>4 DEF IInv, NumberInv, FileInv, OverwriteInv, Complete
  <2>10. WrittenInv'
    BY <1>1, <1>2, <2>2, <2>6, <2>7 DEF IInv, WrittenInv, Complete
  <2>11. VersionsInOrder'
    <3> SUFFICES ASSUME NEW j \in 1..version, versions'[j].state \in Complete
                 PROVE  /\ current'.state \in Complete => versions'[j].id <= current'.id
                        /\ \A i \in 1..(j - 1) : versions'[i].state \in Complete =>
                                                   versions'[i].id <= versions'[j].id
      BY <2>6 DEF VersionsInOrder
    <3>1. j \in 1..(version - 1)
      BY <2>2, <2>6, <2>7
    <3>2. \A i \in 1..(j - 1) : i \in 1..(version - 1)
      BY <2>3, <3>1
    <3> QED
      BY <1>1, <2>6, <3>1, <3>2 DEF IInv, VersionsInOrder, Complete
  <2>12. ReductionHasBackup'
    BY <1>2 DEF ReductionHasBackup
  <2> QED
    BY <2>8, <2>9, <2>10, <2>11, <2>12 DEF IInv
<1> QED
  BY <1>3, <1>4 DEF Close
-------------------------------------------------------------------------------
(* The invariant that the properties rest on is inductive.                   *)
THEOREM Inductive == IInv /\ [Next]_vars => IInv'
<1>1. CASE UNCHANGED vars
  BY <1>1 DEF vars, IInv, TypeOK, NumberInv, FileInv, WrittenInv, OverwriteInv,
              VersionsInOrder, ReductionHasBackup
<1>2. CASE Next
  BY <1>2, OpenStep, CloseStep, ReindexStep, TrainStep, ExtractStep, ReduceStep,
     ReduceBackupStep, ReduceIndexStep DEF Next
<1> QED
  BY <1>1, <1>2

(* TypeOK holds of every state: the version number in particular is never    *)
(* less than one, whatever raised while it was computed.                     *)
THEOREM TypeCorrect == Spec => []TypeOK
<1>1. IInv => TypeOK
  BY DEF IInv
<1> QED
  BY <1>1, InitIInv, Inductive, PTL DEF Spec

(* ReductionHasBackup holds of every state: a reduction never computes or    *)
(* writes without a whole copy of what it replaces in the last version.      *)
THEOREM BackupBeforeReduction == Spec => []ReductionHasBackup
<1>1. IInv => ReductionHasBackup
  BY DEF IInv
<1> QED
  BY <1>1, InitIInv, Inductive, PTL DEF Spec

(* VersionsInOrder holds of every state: however often operations fail, are  *)
(* tried again or are stopped, features.<n>.csv grow newer with n.           *)
THEOREM VersionsAreInOrder == Spec => []VersionsInOrder
<1>1. IInv => VersionsInOrder
  BY DEF IInv
<1> QED
  BY <1>1, InitIInv, Inductive, PTL DEF Spec

(* A file is kept if it is still one of the two places that counted.         *)
LEMMA KeptIsKept ==
  ASSUME current.state \in Complete => \/ current' = current
                                       \/ \E i \in DOMAIN versions' : versions'[i] = current,
         \A i \in DOMAIN versions : versions[i].state \in Complete =>
           \E j \in DOMAIN versions' : versions'[j] = versions[i]
  PROVE  Kept \subseteq Kept'
<1>1. ASSUME NEW f \in {current} \cup {versions[i] : i \in DOMAIN versions},
             f.state \in Complete
      PROVE  f \in ({current} \cup {versions[i] : i \in DOMAIN versions})'
  BY <1>1
<1> QED
  BY <1>1 DEF Kept

(* FeaturesKept holds of every step: a reduction, a stop or an exception     *)
(* loses no complete feature file, as long as the directory holds features   *)
(* only; extraction alone replaces the file it finds.                        *)
THEOREM FeaturesAreKept == Spec => FeaturesKept
<1>1. IInv /\ [Next]_vars => [ExtractBegin \/ stray \/ Kept \subseteq Kept']_vars
  <2> SUFFICES ASSUME IInv, Next, ~ExtractBegin, ~stray PROVE Kept \subseteq Kept'
    OBVIOUS
  <2>0. versions \in Seq(File) /\ DOMAIN versions = 1..Len(versions)
    BY LenProperties DEF IInv, TypeOK
  <2>1. CASE current' = current /\ versions' = versions
    BY <2>1 DEF Kept
  <2>2. CASE versions' = versions /\ current.state \notin Complete
    BY <2>2, KeptIsKept
  <2>3. CASE ReduceWriteBegin
    <3>1. versions # <<>> /\ current = versions[Len(versions)]
      BY <2>3 DEF ReduceWriteBegin, IInv, ReductionHasBackup
    <3>2. Len(versions) \in 1..Len(versions)
      <4>1. Len(versions) \in Nat /\ Len(versions) # 0
        BY <2>0, <3>1, EmptySeq, LenProperties
      <4> QED
        BY <4>1
    <3> QED
      BY <2>0, <2>3, <3>1, <3>2, KeptIsKept DEF ReduceWriteBegin
  <2>4. CASE ReduceBackup \/ ReduceIndex \/ (Close /\ pc = "backup")
    <3>1. PICK f \in File : versions' = WithVersion(versions, version, f)
      <4>1. CASE ReduceBackup \/ ReduceIndex
        BY <4>1, Files DEF ReduceBackup, ReduceIndex, IInv, TypeOK
      <4>2. CASE Close /\ pc = "backup"
        <5>1. PICK f \in {Broken, Partial} : versions' = [versions EXCEPT ![version] = f]
          BY <4>2 DEF Close, CutShort
        <5>2. version \in DOMAIN versions
          BY <2>0, <4>2 DEF IInv, NumberInv, TypeOK
        <5> QED
          BY <5>1, <5>2, Files, Zenon DEF WithVersion
      <4> QED
        BY <2>4, <4>1, <4>2
    <3>2. open /\ current' = current
      BY <2>4 DEF ReduceBackup, ReduceIndex, Close, CutShort, IInv, NumberInv
    <3>3. /\ versions' \in Seq(File) /\ Len(versions') = version
          /\ \A i \in 1..(version - 1) : versions'[i] = versions[i]
      BY <3>1, <3>2, VersionReplaced
    <3>4. DOMAIN versions' = 1..version
      BY <3>3, LenProperties
    <3>5. ASSUME NEW i \in 1..Len(versions), versions[i].state \in Complete
          PROVE  i \in 1..(version - 1)
      <4>1. version \in {Len(versions), Len(versions) + 1} /\ Len(versions) \in Nat
        BY <2>0, <3>2, LenProperties DEF IInv, NumberInv
      <4>2. version = Len(versions) => i # version
        BY <3>2, <3>5 DEF IInv, OverwriteInv
      <4> QED
        BY <4>1, <4>2
    <3>6. version \in Nat /\ \A i \in 1..(version - 1) : i \in 1..version
      BY DEF IInv, TypeOK
    <3> QED
      BY <2>0, <3>2, <3>3, <3>4, <3>5, <3>6, KeptIsKept
  <2>5. CASE Close /\ pc # "backup"
    <3>1. versions' = versions
      BY <2>5 DEF Close
    <3>2. current' = current \/ pc \in {"extract", "write"}
      BY <2>5 DEF Close, CutShort
    <3> QED
      BY <2>1, <2>2, <3>1, <3>2 DEF IInv, FileInv
  <2>6. CASE ReduceFail
    BY <2>1, <2>2, <2>6 DEF ReduceFail, CutShort, IInv, FileInv
  <2>7. CASE ExtractEnd \/ ReduceWriteEnd
    BY <2>2, <2>7 DEF ExtractEnd, ReduceWriteEnd, IInv, FileInv
  <2>8. CASE Open \/ Reindex \/ Train \/ ExtractFail \/ ExtractInterproc
    BY <2>1, <2>8 DEF Open, Reindex, Train, ExtractFail, ExtractInterproc
  <2> QED
    BY <2>3, <2>4, <2>5, <2>6, <2>7, <2>8 DEF Next
<1> QED
  BY <1>1, InitIInv, Inductive, PTL DEF Spec, FeaturesKept
===============================================================================
