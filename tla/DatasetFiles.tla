----------------------------- MODULE DatasetFiles -----------------------------
(***************************************************************************)
(* The files of datasets and the operations that change them: the index    *)
(* (_index_dataset and rebuild_index, bugfinder/base/dataset.py), the      *)
(* operations that go from file to file (AbstractFileProcessing and the    *)
(* cleaning classes), and the operations that make a dataset out of        *)
(* another one (extract, inverse and copy in bugfinder/processing/dataset).*)
(*                                                                         *)
(* A directory is on disk while a file is in it or below it: the empty     *)
(* directories that are left behind hold no test case.                     *)
(***************************************************************************)
EXTENDS Naturals, SequencesExt, FiniteSetsExt

CONSTANTS
  Classes,    \* the class directories, in the order in which they are sorted
  Cases,      \* directories that hold files: the possible test cases
  ClassOf,    \* the class directory a test case is in
  Starts,     \* <<k, c>>: the path of c starts with the name k
  Within,     \* <<d, c>>: directory d is somewhere below directory c
  Files,      \* names of the files, and what the cleaning operations see in them
  Initial,    \* the files of each test case of the source dataset
  Litterals,  \* litterals to be replaced in each file of the source dataset
  Samples,    \* the sample numbers asked for
  MaxOps      \* bound on the operations started

Derived   == {"sample", "rest"}
Root      == {"source"} \union Derived
Removers  == {"remove_cpp", "remove_interproc"}
Rewriters == {"remove", "replace_litterals"}  \* of comments and of main: the same steps
FileOps   == Removers \union Rewriters

(* match_file: C++ sources, sources of interprocedural test cases, C and C++ *)
(* files with the headers.  "c", "cpp", "interproc" and "h" stand for names. *)
Matches(kind, f) == CASE kind = "remove_cpp"       -> f = "cpp"
                      [] kind = "remove_interproc" -> f = "interproc"
                      [] OTHER                     -> f \in {"c", "cpp", "interproc", "h"}

ASSUME FilesAssumption ==
  /\ IsFiniteSet(Cases)
  /\ Classes \in Seq(ToSet(Classes)) /\ IsInjective(Classes)
  /\ ClassOf \in [Cases -> ToSet(Classes)]
  /\ \A c \in Cases : <<ClassOf[c], c>> \in Starts
  /\ \A p \in Within : ClassOf[p[1]] = ClassOf[p[2]]
  /\ Files \subseteq {"c", "cpp", "interproc", "h"}
  /\ Initial \in [Cases -> SUBSET Files]
  /\ Samples \subseteq Nat /\ {Litterals, MaxOps} \subseteq Nat

VARIABLES
  disk,       \* files of each test case of each dataset
  folders,    \* class directories of each dataset
  summary,    \* its summary file: none, its own, or one copied from the original
  mem,        \* the Dataset object of the program: the index it has built
  op,         \* the operation that is being run
  last,       \* how the last operation ended
  made,       \* ghost: the files that a derived dataset was to be given
  ops         \* number of operations started

vars == <<disk, folders, summary, mem, op, last, made, ops>>

File(f, n) == [name |-> f, tmp |-> FALSE, whole |-> TRUE, lits |-> n]
Entry      == [name : Files, tmp : BOOLEAN, whole : BOOLEAN, lits : 0..Litterals]
Closed     == [root |-> "none", classes |-> <<>>, cases |-> {}, counts |-> <<>>]
Idle       == [kind |-> "none", to |-> "none", from |-> "none", n |-> 0, class |-> 0,
               todo |-> {}, case |-> {}, names |-> {}, open |-> {}, hits |-> 0]
Nothing    == [kind |-> "none", to |-> "none", from |-> "none", ok |-> FALSE, chosen |-> {},
               asked |-> 0]

Visible(r)  == {c \in Cases : disk[r][c] # {}}
Below(c)    == {c} \union {d \in Cases : <<d, c>> \in Within}
Exists(r)   == folders[r] # {} \/ summary[r] # "none"
IsDir(r, c) == Below(c) \intersect Visible(r) # {}
Content(r, S) == {p \in S \X Entry : p[2] \in disk[r][p[1]]}

Init == /\ disk = [r \in Root |-> [c \in Cases |->
                    IF r = "source" THEN {File(f, Litterals) : f \in Initial[c]} ELSE {}]]
        /\ folders = [r \in Root |-> IF r = "source" THEN ToSet(Classes) ELSE {}]
        /\ summary = [r \in Root |-> "none"]
        /\ mem = Closed
        /\ op = Idle
        /\ last = Nothing
        /\ made = [r \in Root |-> {}]
        /\ ops = 0
-------------------------------------------------------------------------------
(* The index.  The directory is listed in any order; the classes are sorted  *)
(* as they are found, while the number of test cases that each adds is       *)
(* appended in the order of the listing.                                     *)

Sorted(S) == {s \in SetToSeqs(S) : \A a, b \in DOMAIN Classes, i, j \in DOMAIN s :
                                      Classes[a] = s[i] /\ Classes[b] = s[j] /\ a < b => i < j}

(* Mutant of Index: a count for classes that are not there.                  *)
IndexOfAll(r) ==
  {[root |-> r, classes |-> t, cases |-> Visible(r),
    counts |-> [i \in DOMAIN Classes |->
                  Cardinality({c \in Visible(r) : ClassOf[c] = Classes[i]})]] :
     t \in Sorted(folders[r])}

Index(r) ==
  {[root |-> r, classes |-> t, cases |-> Visible(r),
    counts |-> [i \in DOMAIN s |-> Cardinality({c \in Visible(r) : ClassOf[c] = s[i]})]] :
     t \in Sorted(folders[r]), s \in SetToSeqs(folders[r])}

(* Mutant of Quota: shares are rounded up.                                   *)
QuotaRoundedUp(i, n) ==
  LET total == Cardinality(mem.cases)
  IN  IF total = 0 THEN 0 ELSE (mem.counts[i] * n + total - 1) \div total

(* int(class_stat * sample_nb) of the i-th count.                            *)
Quota(i, n) ==
  LET total == Cardinality(mem.cases)
  IN  IF total = 0 THEN 0 ELSE (mem.counts[i] * n) \div total

(* Dataset(path): the index; load_summary writes a summary if there is none. *)
WithSummary(r) == [summary EXCEPT ![r] = IF @ = "none" THEN "own" ELSE @]

Open == /\ op.kind = "none"
        /\ \E r \in Root : /\ Exists(r)
                           /\ mem' \in Index(r)
                           /\ summary' = WithSummary(r)
        /\ last' = Nothing
        /\ UNCHANGED <<disk, folders, op, made, ops>>

Started(o) == /\ op.kind = "none"
              /\ mem.root # "none"
              /\ ops < MaxOps
              /\ ops' = ops + 1
              /\ op' = o

Ended(ok, chosen) ==
  /\ op' = Idle
  /\ last' = [kind |-> op.kind, to |-> op.to, from |-> op.from, ok |-> ok, chosen |-> chosen,
              asked |-> op.n]

Fails == /\ Ended(FALSE, {})
         /\ UNCHANGED <<disk, folders, summary, mem, made, ops>>

(* The program is stopped between two steps: what is on disk stays.          *)
Stop == /\ mem.root # "none"
        /\ mem' = Closed
        /\ op' = Idle
        /\ last' = Nothing
        /\ UNCHANGED <<disk, folders, summary, made, ops>>
-------------------------------------------------------------------------------
(* AbstractFileProcessing.execute: test case by test case, and in each the   *)
(* files that were listed when it came to it.                                *)

StartFiles ==
  \E kind \in FileOps :
    /\ Started([Idle EXCEPT !.kind = kind, !.to = mem.root, !.todo = mem.cases])
    /\ made' = [made EXCEPT ![mem.root] = {}]
    /\ last' = Nothing
    /\ UNCHANGED <<disk, folders, summary, mem>>

InFiles == op.kind \in FileOps
AtCase  == InFiles /\ op.names = {} /\ op.open = {}

ListCase == /\ AtCase
            /\ \E c \in op.todo :
                 IF IsDir(op.to, c)
                 THEN /\ op' = [op EXCEPT !.todo = @ \ {c}, !.case = {c}, !.names =
                                  {e.name : e \in {x \in disk[op.to][c] :
                                      ~x.tmp /\ Matches(op.kind, x.name)}}]
                      /\ UNCHANGED <<disk, folders, summary, mem, last, made, ops>>
                 ELSE Fails

Here       == CHOOSE c \in op.case : TRUE
Source(f)  == CHOOSE e \in disk[op.to][Here] : e.name = f /\ ~e.tmp
Put(old, new) == disk' = [disk EXCEPT ![op.to][Here] = (@ \ old) \union new]

(* AbstractFileRemover.process_file: the directory goes with its last file.  *)
RemoveFile == /\ op.kind \in Removers
              /\ \E f \in op.names : /\ Put({Source(f)}, {})
                                     /\ op' = [op EXCEPT !.names = @ \ {f}]
              /\ UNCHANGED <<folders, summary, mem, last, made, ops>>

(* Mutant of WriteBeside: the file is written in place.                      *)
WriteInPlace ==
  /\ op.kind \in Rewriters
  /\ op.open = {}
  /\ \E f \in op.names :
       /\ op' = [op EXCEPT !.names = @ \ {f}, !.open = {f}]
       /\ Put({Source(f)}, {[Source(f) EXCEPT !.whole = FALSE]})
  /\ UNCHANGED <<folders, summary, mem, last, made, ops>>

(* The rewriters read the file, write the result beside it and move it over  *)
(* the file; ReplaceLitterals leaves a file alone in which it finds nothing, *)
(* and replaces no more than one litteral of a kind in a line.               *)
WriteBeside ==
  /\ op.kind \in Rewriters
  /\ op.open = {}
  /\ \E f \in op.names :
       LET untouched == op.kind = "replace_litterals" /\ Source(f).lits = 0
           beside    == [Source(f) EXCEPT !.tmp = TRUE, !.whole = FALSE]
       IN  /\ op' = [op EXCEPT !.names = @ \ {f}, !.open = IF untouched THEN {} ELSE {f}]
           /\ IF untouched THEN UNCHANGED disk
              ELSE Put({e \in disk[op.to][Here] : e.name = f /\ e.tmp}, {beside})
  /\ UNCHANGED <<folders, summary, mem, last, made, ops>>

(* Mutant of Rewritten: what is written is found again in the next round.    *)
RewrittenAlike(e) == e

Rewritten(e) == [e EXCEPT !.lits = IF op.kind = "replace_litterals" THEN @ - 1 ELSE @]

MoveOver == /\ InFiles
            /\ \E f \in op.open :
                 /\ Put({e \in disk[op.to][Here] : e.name = f}, {Rewritten(Source(f))})
                 /\ op' = [op EXCEPT !.open = {}, !.hits = @ + 1]
            /\ UNCHANGED <<folders, summary, mem, last, made, ops>>

(* A file that cannot be read or decoded: the files after it stay as they    *)
(* are, and so does the index.                                               *)
FileRaises == /\ InFiles
              /\ op.names # {} /\ op.open = {}
              /\ Fails

(* Mutant of EndFiles: the index is not built again.                         *)
EndFilesStale == /\ AtCase
                 /\ op.todo = {}
                 /\ Ended(TRUE, {})
                 /\ UNCHANGED <<disk, folders, summary, mem, made, ops>>

(* rebuild_index; ReplaceLitterals goes round again until a whole round has  *)
(* replaced nothing.                                                         *)
EndFiles == /\ AtCase
            /\ op.todo = {}
            /\ mem' \in Index(op.to)
            /\ summary' = WithSummary(op.to)
            /\ IF op.kind = "replace_litterals" /\ op.hits > 0
               THEN /\ op' = [op EXCEPT !.todo = mem'.cases, !.case = {}, !.hits = 0]
                    /\ UNCHANGED last
               ELSE Ended(TRUE, {})
            /\ UNCHANGED <<disk, folders, made, ops>>
-------------------------------------------------------------------------------
(* Derived datasets.  The destination goes first, or is the reason to fail;  *)
(* the dataset that all the others come from is never a destination.         *)

Removed(r) == /\ disk' = [disk EXCEPT ![r] = [c \in Cases |-> {}]]
              /\ folders' = [folders EXCEPT ![r] = {}]
              /\ summary' = [summary EXCEPT ![r] = "none"]
              /\ made' = [made EXCEPT ![r] = {}]

StartDerived ==
  \E kind \in {"extract", "inverse", "copy"}, to \in Derived \ {mem.root}, from \in Root,
     n \in Samples :
    /\ kind # "inverse" => from = to
    /\ kind # "extract" => n = Min(Samples)
    /\ Started([Idle EXCEPT !.kind = kind, !.to = to, !.from = from, !.n = n])
    /\ last' = Nothing
    /\ UNCHANGED mem
    /\ Removed(to)

(* The destination exists, and the operation is not told to overwrite it.    *)
Refused == \E kind \in {"extract", "inverse", "copy"}, to \in Derived \ {mem.root} :
             /\ Exists(to)
             /\ op.kind = "none" /\ mem.root # "none" /\ ops < MaxOps
             /\ ops' = ops + 1
             /\ last' = [Nothing EXCEPT !.kind = kind, !.to = to]
             /\ UNCHANGED <<disk, folders, summary, mem, op, made>>

(* ExtractSampleDataset: class by class, as many test cases whose path       *)
(* starts with the name of the class as the share of the class allows.       *)
Candidates(i) == {c \in mem.cases : <<mem.classes[i], c>> \in Starts}
Wanted(S)     == Content(mem.root, UNION {Below(c) : c \in S})

NextClass ==
  /\ op.kind = "extract" /\ op.todo = {}
  /\ op.class < Len(mem.classes)
  /\ LET i == op.class + 1
     IN  \E S \in SUBSET Candidates(i) :
           /\ Cardinality(S) = Min({Cardinality(Candidates(i)), Quota(i, op.n)})
           /\ op' = [op EXCEPT !.class = i, !.todo = S, !.case = @ \union S]
           /\ made' = [made EXCEPT ![op.to] = @ \union Wanted(S)]
  /\ UNCHANGED <<disk, folders, summary, mem, last, ops>>

(* Mutant of OpenOther: the destination is looked at, which was removed.     *)
OpenDestination ==
  /\ op.kind = "inverse" /\ op.class = 0
  /\ LET S == mem.cases \ Visible(op.to)
     IN  /\ op' = [op EXCEPT !.class = 1, !.todo = S, !.case = S]
         /\ made' = [made EXCEPT ![op.to] = Wanted(S)]
         /\ UNCHANGED <<disk, folders, summary, mem, last, ops>>

(* InverseDataset: the test cases that the other dataset has not; to look    *)
(* at it is to give it a summary.                                            *)
OpenOther ==
  /\ op.kind = "inverse" /\ op.class = 0
  /\ IF Exists(op.from)
     THEN LET S == mem.cases \ Visible(op.from)
          IN  /\ op' = [op EXCEPT !.class = 1, !.todo = S, !.case = S]
              /\ made' = [made EXCEPT ![op.to] = Wanted(S)]
              /\ summary' = WithSummary(op.from)
              /\ UNCHANGED <<disk, folders, mem, last, ops>>
     ELSE Fails

(* copytree(c): the directory with all that is below it; it raises when it   *)
(* is there already, or no longer at the origin.                             *)
CopyOf(S) ==
  /\ disk' = [disk EXCEPT ![op.to] = [c \in Cases |->
                 IF c \in S THEN disk[mem.root][c] ELSE @[c]]]
  /\ folders' = [folders EXCEPT ![op.to] = @ \union {ClassOf[c] : c \in S}]

Deriving == op.kind \in {"extract", "inverse"} /\ op.todo # {}

CopyCase ==
  /\ Deriving
  /\ \E c \in op.todo :
       IF IsDir(mem.root, c) /\ ~IsDir(op.to, c)
       THEN /\ CopyOf(Below(c) \intersect Visible(mem.root))
            /\ op' = [op EXCEPT !.todo = @ \ {c}]
            /\ UNCHANGED <<summary, mem, last, made, ops>>
       ELSE Fails

(* The program is stopped within copytree: the last file may be cut short.   *)
StopCopying ==
  /\ Deriving
  /\ \E c \in op.todo : \E d \in Below(c), e \in Entry :
       /\ e \in disk[mem.root][d] /\ disk[op.to][d] = {}
       /\ disk' = [disk EXCEPT ![op.to][d] = {[e EXCEPT !.whole = FALSE]}]
       /\ folders' = [folders EXCEPT ![op.to] = @ \union {ClassOf[d]}]
  /\ mem' = Closed /\ op' = Idle /\ last' = Nothing
  /\ UNCHANGED <<summary, made, ops>>

(* Mutant of CopySummary: it does not wait for all test cases to be copied.  *)
CopySummaryFirst ==
  /\ \/ op.kind = "extract" /\ op.class = Len(mem.classes)
     \/ op.kind = "inverse" /\ op.class = 1
  /\ Exists(op.to)
  /\ summary' = [summary EXCEPT ![op.to] = "copied"]
  /\ Ended(TRUE, op.case)
  /\ UNCHANGED <<disk, folders, mem, made, ops>>

(* copyfile of the summary, last of all: it raises if nothing was copied.    *)
CopySummary ==
  /\ \/ op.kind = "extract" /\ op.class = Len(mem.classes)
     \/ op.kind = "inverse" /\ op.class = 1
  /\ op.todo = {}
  /\ IF Exists(op.to)
     THEN /\ summary' = [summary EXCEPT ![op.to] = "copied"]
          /\ Ended(TRUE, op.case)
          /\ UNCHANGED <<disk, folders, mem, made, ops>>
     ELSE Fails

(* CopyDataset: everything in the directory, in the order of the listing.    *)
CopyAll ==
  /\ op.kind = "copy"
  /\ \E S \in SUBSET Visible(mem.root), with \in BOOLEAN :
       LET full == S = Visible(mem.root) /\ with
       IN  /\ CopyOf(S)
           /\ summary' = [summary EXCEPT ![op.to] = IF with THEN "copied" ELSE @]
           /\ IF full THEN Ended(TRUE, S) /\ UNCHANGED mem
              ELSE mem' = Closed /\ op' = Idle /\ last' = Nothing
  /\ UNCHANGED <<made, ops>>
-------------------------------------------------------------------------------
Step == \/ ListCase \/ RemoveFile \/ WriteBeside \/ MoveOver \/ EndFiles
        \/ NextClass \/ OpenOther \/ CopyCase \/ CopySummary \/ CopyAll

Next == \/ Step \/ Open \/ Stop \/ StartFiles \/ FileRaises \/ StartDerived \/ Refused
        \/ StopCopying

(* An operation that is being run goes on as long as the program does.       *)
Spec == Init /\ [][Next]_vars /\ WF_vars(Step)
-------------------------------------------------------------------------------
(* The types of the state; a count for every class that was found.           *)
TypeOK ==
  /\ disk \in [Root -> [Cases -> SUBSET Entry]]
  /\ folders \in [Root -> SUBSET ToSet(Classes)]
  /\ summary \in [Root -> {"none", "own", "copied"}]
  /\ mem.root \in Root \union {"none"} /\ mem.cases \subseteq Cases
  /\ Len(mem.counts) = Len(mem.classes)
  /\ op.todo \subseteq Cases /\ op.names \subseteq Files /\ op.open \subseteq Files
  /\ \A r \in Root : made[r] \subseteq Cases \X Entry
  /\ ops \in 0..MaxOps

(* A program stopped while it cleans the dataset leaves every source file    *)
(* whole, as it was or as it was to be: it is replaced by moving a complete  *)
(* file over it (the cleaning classes).                                      *)
SourcesWhole == \A c \in Cases, e \in Entry : e \in disk["source"][c] /\ ~e.tmp => e.whole

(* A sample or an inverse dataset that holds the summary of the dataset it   *)
(* was made from is complete, down to the files: the summary is copied last  *)
(* (extract.py and inverse.py), so a creation that was stopped or that       *)
(* failed cannot be taken for a finished one.                                *)
DerivedComplete ==
  \A r \in Root : made[r] # {} /\ summary[r] = "copied" => Content(r, Cases) = made[r]

(* The inverse of a subset and the subset make up the dataset, and share no  *)
(* test case (InverseDataset), even if a cleaning failed before: except      *)
(* those that lie in the directory of a test case that the subset has not,   *)
(* and are copied along with it.                                             *)
InverseIsComplement ==
  last.kind = "inverse" /\ last.ok =>
    LET rest == Visible(last.to)  sub == Visible(last.from)
    IN  /\ mem.cases \intersect Visible(mem.root) \subseteq rest \union sub
        /\ \A d \in rest \intersect sub : \E c \in mem.cases \ sub : <<d, c>> \in Within

(* After a cleaning that ended well, even one that follows a failure, the    *)
(* object lists the test cases that are on disk, each counted once           *)
(* (rebuild_index at the end of AbstractFileProcessing.execute).             *)
IndexAfterCleaning ==
  last.kind \in FileOps /\ last.ok =>
    /\ mem.cases = Visible(mem.root)
    /\ FoldLeft(+, 0, mem.counts) = Cardinality(mem.cases)

(* A sample never has more test cases than were asked for, however the       *)
(* shares were cut to integers and to whichever class they were given        *)
(* (ExtractSampleDataset); those copied along are not counted.               *)
SampleBounded == last.kind = "extract" /\ last.ok => Cardinality(last.chosen) <= last.asked

(* "Retrieve number of test cases per class": the test cases of each class   *)
(* in a sample are as many as its own share of the dataset allows.           *)
ClassShares ==
  last.kind = "extract" /\ last.ok =>
    \A k \in ToSet(mem.classes) :
      LET size == Cardinality({c \in mem.cases : ClassOf[c] = k})
      IN  Cardinality({c \in last.chosen : ClassOf[c] = k})
            = (size * last.asked) \div Cardinality(mem.cases)

(* Every operation ends, and the rounds of ReplaceLitterals with it: each    *)
(* round with a replacement leaves fewer litterals to replace.               *)
OperationEnds == op.kind # "none" ~> op.kind = "none"
===============================================================================
