-------------------------- MODULE DatasetFilesProofs --------------------------
(***************************************************************************)
(* Proofs about DatasetFiles: whatever is cleaned, sampled, inverted,      *)
(* stopped or fails, in any order and any number of times, the source      *)
(* files stay whole, a dataset that looks finished is complete, an inverse *)
(* dataset is what the other one has not, a sample is no larger than was   *)
(* asked for, and a cleaning leaves an index of what is on disk.           *)
(***************************************************************************)
EXTENDS DatasetFiles, FiniteSetTheorems, WellFoundedInduction, TLAPS

Kinds    == FileOps \union {"none", "extract", "inverse", "copy"}
AnyEntry == [name : Files, tmp : BOOLEAN, whole : BOOLEAN, lits : Int]
Op       == [kind : Kinds, to : Root \union {"none"}, from : Root \union {"none"}, n : Nat,
             class : Nat, todo : SUBSET Cases, case : SUBSET Cases, names : SUBSET Files,
             open : SUBSET Files, hits : Nat]

Types == /\ disk \in [Root -> [Cases -> SUBSET AnyEntry]]
         /\ DOMAIN folders = Root
         /\ summary \in [Root -> {"none", "own", "copied"}]
         /\ DOMAIN made = Root
         /\ mem.root \in Root \union {"none"} /\ mem.cases \subseteq Cases
         /\ op \in Op

(* Which dataset an operation changes, and what is noted of it meanwhile.    *)
ModeInv ==
  /\ op.kind # "none" => mem.root \in Root /\ last.kind = "none"
  /\ op.kind \in FileOps => op.to = mem.root /\ made[op.to] = {}
  /\ op.kind \in {"extract", "inverse", "copy"} => op.to \in Derived /\ op.to # mem.root
  /\ op.kind = "copy" => made[op.to] = {}

(* The files that an operation goes on with are there.                       *)
HereInv ==
  /\ op.names \intersect op.open = {}
  /\ op.names \union op.open # {} =>
       /\ op.kind \in FileOps /\ Here \in Cases
       /\ \A f \in op.names \union op.open :
            \E e \in disk[op.to][Here] : e.name = f /\ ~e.tmp

WholeInv == \A c \in Cases : \A e \in disk["source"][c] : ~e.tmp => e.whole

(* A derived dataset that is being made holds nothing but what it is to be   *)
(* given, and everything of the test cases that have been copied.            *)
DeriveInv ==
  op.kind \in {"extract", "inverse"} =>
    /\ op.todo \subseteq op.case
    /\ \A d \in Cases : disk[op.to][d] = {} \/ disk[op.to][d] = disk[mem.root][d]
    /\ \A d \in Cases : disk[op.to][d] # {} => \E c \in op.case : d \in Below(c)
    /\ \A c \in op.case \ op.todo : \A d \in Below(c) : disk[op.to][d] = disk[mem.root][d]
    /\ made[op.to] = Wanted(op.case)
    /\ summary[op.to] # "copied"

InverseInv ==
  op.kind = "inverse" =>
    /\ op.from \in Root
    /\ op.class = 0 => ~Exists(op.to) /\ op.case = {}
    /\ op.class # 0 => /\ op.from # op.to
                       /\ op.case = mem.cases \ Visible(op.from)

Inv == /\ Types /\ ModeInv /\ HereInv /\ WholeInv /\ DeriveInv /\ InverseInv
       /\ DerivedComplete /\ InverseIsComplement
-------------------------------------------------------------------------------
LEMMA BelowCases == ASSUME NEW c \in Cases PROVE Below(c) \subseteq Cases /\ c \in Below(c)
BY DEF Below

LEMMA IdleFacts ==
  /\ Idle \in Op /\ Idle.kind = "none" /\ Idle.names = {} /\ Idle.open = {}
  /\ Nothing.kind = "none" /\ Nothing.ok = FALSE
  /\ Closed.root = "none" /\ Closed.cases = {}
BY DEF Idle, Op, Kinds, Nothing, Closed

(* An operation that has ended asks for nothing more of the rest.            *)
LEMMA IdleInv ==
  ASSUME op' = Idle
  PROVE  ModeInv' /\ HereInv' /\ DeriveInv' /\ InverseInv'
BY IdleFacts DEF ModeInv, HereInv, DeriveInv, InverseInv, FileOps, Removers, Rewriters

(* What is said of finished datasets rests on their files alone.             *)
LEMMA SameComplete ==
  ASSUME DerivedComplete, Types, DOMAIN made' = Root,
         \A r \in Root : summary'[r] = "copied" => summary[r] = "copied",
         \A r \in Root : made'[r] # {} => made'[r] = made[r] /\ disk'[r] = disk[r]
  PROVE  DerivedComplete'
<1>1. ASSUME NEW r \in Root, made'[r] # {}, summary'[r] = "copied"
      PROVE  Content(r, Cases)' = made'[r]
  <2>1. disk'[r] = disk[r] /\ made'[r] = made[r] /\ summary[r] = "copied"
    BY <1>1
  <2>2. Content(r, Cases)' = Content(r, Cases)
    BY <2>1 DEF Content
  <2> QED
    BY <1>1, <2>1, <2>2 DEF DerivedComplete
<1> QED
  BY <1>1 DEF DerivedComplete

LEMMA NoneLast ==
  ASSUME last'.kind # "inverse" \/ ~last'.ok
  PROVE  InverseIsComplement'
BY DEF InverseIsComplement

(* A new index lists what is on disk.                                        *)
LEMMA IndexFacts ==
  ASSUME Types, NEW r \in Root, mem' \in Index(r)
  PROVE  mem'.root = r /\ mem'.cases = Visible(r) /\ mem'.cases \subseteq Cases
BY DEF Index, Visible

(* To give a dataset a summary if it has none copies none.                   *)
LEMMA SummaryFacts ==
  ASSUME Types, NEW r \in Root, summary' = WithSummary(r)
  PROVE  /\ summary' \in [Root -> {"none", "own", "copied"}]
         /\ \A x \in Root : summary'[x] = "copied" <=> summary[x] = "copied"
         /\ \A x \in Root \ {r} : summary'[x] = summary[x]
BY DEF Types, WithSummary
-------------------------------------------------------------------------------
LEMMA OpenKeeps == Inv /\ Open => Inv'
<1> SUFFICES ASSUME Inv, Open PROVE Inv'
  OBVIOUS
<1>1. PICK r \in Root : mem' \in Index(r) /\ summary' = WithSummary(r)
  BY DEF Open
<1>2. /\ op.kind = "none" /\ last' = Nothing
      /\ UNCHANGED <<disk, folders, op, made>>
  BY DEF Open
<1>3. Types'
  BY <1>1, <1>2, IndexFacts, SummaryFacts DEF Inv, Types
<1>4. ModeInv' /\ HereInv' /\ DeriveInv' /\ InverseInv'
  BY <1>2 DEF Inv, ModeInv, HereInv, DeriveInv, InverseInv, FileOps, Removers, Rewriters, Here
<1>5. WholeInv'
  BY <1>2 DEF Inv, WholeInv
<1>6. DerivedComplete'
  BY <1>1, <1>2, SameComplete, SummaryFacts DEF Inv, Types
<1>7. InverseIsComplement'
  BY <1>2, IdleFacts, NoneLast
<1> QED
  BY <1>3, <1>4, <1>5, <1>6, <1>7 DEF Inv

LEMMA StopKeeps == Inv /\ Stop => Inv'
<1> SUFFICES ASSUME Inv, Stop PROVE Inv'
  OBVIOUS
<1>1. /\ mem' = Closed /\ op' = Idle /\ last' = Nothing
      /\ UNCHANGED <<disk, folders, summary, made>>
  BY DEF Stop
<1>2. Types'
  BY <1>1, IdleFacts DEF Inv, Types
<1>3. WholeInv'
  BY <1>1 DEF Inv, WholeInv
<1>4. DerivedComplete'
  BY <1>1, SameComplete DEF Inv, Types
<1> QED
  BY <1>1, <1>2, <1>3, <1>4, IdleFacts, IdleInv, NoneLast DEF Inv

LEMMA FailsKeep ==
  ASSUME Inv, Fails, op.kind # "none"
  PROVE  Inv'
<1>1. /\ op' = Idle /\ last'.ok = FALSE
      /\ UNCHANGED <<disk, folders, summary, mem, made>>
  BY DEF Fails, Ended
<1>2. Types'
  BY <1>1, IdleFacts DEF Inv, Types
<1>3. WholeInv'
  BY <1>1 DEF Inv, WholeInv
<1>4. DerivedComplete'
  BY <1>1, SameComplete DEF Inv, Types
<1> QED
  BY <1>1, <1>2, <1>3, <1>4, IdleInv, NoneLast DEF Inv

LEMMA RefusedKeeps == Inv /\ Refused => Inv'
<1> SUFFICES ASSUME Inv, Refused PROVE Inv'
  OBVIOUS
<1>1. /\ op.kind = "none" /\ last'.ok = FALSE
      /\ UNCHANGED <<disk, folders, summary, mem, op, made>>
  BY DEF Refused, Nothing
<1>2. Types' /\ WholeInv'
  BY <1>1 DEF Inv, Types, WholeInv
<1>3. ModeInv' /\ HereInv' /\ DeriveInv' /\ InverseInv'
  BY <1>1 DEF Inv, ModeInv, HereInv, DeriveInv, InverseInv, FileOps, Removers, Rewriters, Here
<1>4. DerivedComplete'
  BY <1>1, SameComplete DEF Inv, Types
<1> QED
  BY <1>1, <1>2, <1>3, <1>4, NoneLast DEF Inv

(* The record of an operation that starts.                                   *)
LEMMA StartKeeps ==
  ASSUME Inv, op.kind = "none", mem.root \in Root, last' = Nothing, UNCHANGED mem,
         op' \in Op, op'.names = {}, op'.open = {}
  PROVE  HereInv' /\ InverseIsComplement'
BY IdleFacts, NoneLast DEF HereInv

LEMMA StartFilesKeeps == Inv /\ StartFiles => Inv'
<1> SUFFICES ASSUME Inv, StartFiles PROVE Inv'
  OBVIOUS
<1>1. PICK kind \in FileOps :
        /\ Started([Idle EXCEPT !.kind = kind, !.to = mem.root, !.todo = mem.cases])
        /\ made' = [made EXCEPT ![mem.root] = {}]
        /\ last' = Nothing
        /\ UNCHANGED <<disk, folders, summary, mem>>
  BY DEF StartFiles
<1>2. /\ op.kind = "none" /\ mem.root \in Root /\ mem.cases \subseteq Cases
      /\ op' = [kind |-> kind, to |-> mem.root, from |-> "none", n |-> 0, class |-> 0,
                todo |-> mem.cases, case |-> {}, names |-> {}, open |-> {}, hits |-> 0]
  BY <1>1 DEF Started, Inv, Types, Idle
<1>3. op' \in Op /\ op'.kind \in FileOps
  BY <1>2 DEF Op, Kinds
<1>4. Types'
  BY <1>1, <1>2, <1>3 DEF Inv, Types
<1>5. ModeInv' /\ DeriveInv' /\ InverseInv'
  BY <1>1, <1>2, IdleFacts
     DEF Inv, Types, ModeInv, DeriveInv, InverseInv, FileOps, Removers, Rewriters
<1>6. WholeInv'
  BY <1>1 DEF Inv, WholeInv
<1>7. DerivedComplete'
  BY <1>1, <1>4, SameComplete DEF Inv, Types
<1> QED
  BY <1>1, <1>2, <1>3, <1>4, <1>5, <1>6, <1>7, StartKeeps DEF Inv

LEMMA StartDerivedKeeps == Inv /\ StartDerived => Inv'
<1> SUFFICES ASSUME Inv, StartDerived PROVE Inv'
  OBVIOUS
<1>1. PICK kind \in {"extract", "inverse", "copy"}, to \in Derived \ {mem.root},
           from \in Root, n \in Samples :
        /\ Started([Idle EXCEPT !.kind = kind, !.to = to, !.from = from, !.n = n])
        /\ last' = Nothing
        /\ UNCHANGED mem
        /\ Removed(to)
  BY DEF StartDerived
<1>2. /\ op.kind = "none" /\ mem.root \in Root
      /\ op' = [kind |-> kind, to |-> to, from |-> from, n |-> n, class |-> 0,
                todo |-> {}, case |-> {}, names |-> {}, open |-> {}, hits |-> 0]
  BY <1>1 DEF Started, Inv, Types, Idle
<1>3. op' \in Op /\ to \in Root
  BY <1>1, <1>2, FilesAssumption DEF Op, Kinds, Root
<1>4. /\ disk' = [disk EXCEPT ![to] = [c \in Cases |-> {}]]
      /\ folders' = [folders EXCEPT ![to] = {}]
      /\ summary' = [summary EXCEPT ![to] = "none"]
      /\ made' = [made EXCEPT ![to] = {}]
  BY <1>1 DEF Removed
<1>5. /\ disk'[to] = [c \in Cases |-> {}] /\ folders'[to] = {} /\ summary'[to] = "none"
      /\ made'[to] = {}
      /\ \A r \in Root \ {to} : disk'[r] = disk[r] /\ summary'[r] = summary[r]
                                /\ made'[r] = made[r]
  BY <1>3, <1>4 DEF Inv, Types
<1>6. Types'
  BY <1>1, <1>3, <1>4 DEF Inv, Types
<1>7. ModeInv'
  BY <1>1, <1>2, <1>5, IdleFacts DEF ModeInv, FileOps, Removers, Rewriters
<1>8. DeriveInv'
  <2>1. Wanted({})' = {}
    BY DEF Wanted, Content
  <2> QED
    BY <1>2, <1>5, <2>1 DEF DeriveInv
<1>9. InverseInv'
  BY <1>2, <1>5 DEF InverseInv, Exists
<1>10. WholeInv'
  BY <1>1, <1>5 DEF Inv, WholeInv, Derived, Root
<1>11. DerivedComplete'
  BY <1>3, <1>5, <1>6, SameComplete DEF Inv, Types
<1> QED
  BY <1>1, <1>2, <1>3, <1>6, <1>7, <1>8, <1>9, <1>10, <1>11, StartKeeps DEF Inv
-------------------------------------------------------------------------------
(* The steps of a file operation: nothing is said of a dataset in the making.*)
LEMMA FilesKeep ==
  ASSUME Inv, op.kind \in FileOps, op'.kind = op.kind, op'.to = op.to,
         UNCHANGED <<mem, last, made>>
  PROVE  ModeInv' /\ DeriveInv' /\ InverseInv' /\ InverseIsComplement'
BY NoneLast DEF Inv, ModeInv, DeriveInv, InverseInv, FileOps, Removers, Rewriters

LEMMA ListCaseKeeps == Inv /\ ListCase => Inv'
<1> SUFFICES ASSUME Inv, ListCase PROVE Inv'
  OBVIOUS
<1>1. op.kind \in FileOps /\ op.names = {} /\ op.open = {}
  BY DEF ListCase, AtCase, InFiles
<1>2. CASE Fails
  BY <1>1, <1>2, FailsKeep DEF FileOps, Removers, Rewriters
<1>3. CASE ~Fails
  <2>1. PICK c \in op.todo :
          /\ op' = [op EXCEPT !.todo = @ \ {c}, !.case = {c}, !.names =
                                  {e.name : e \in {x \in disk[op.to][c] :
                                      ~x.tmp /\ Matches(op.kind, x.name)}}]
          /\ UNCHANGED <<disk, folders, summary, mem, last, made>>
    BY <1>3 DEF ListCase
  <2> DEFINE N == {e.name : e \in {x \in disk[op.to][c] :
                                      ~x.tmp /\ Matches(op.kind, x.name)}}
  <2>2. c \in Cases /\ op \in Op /\ op.to \in Root
    BY <1>1 DEF Inv, Types, Op, ModeInv, FileOps, Removers, Rewriters
  <2>3. disk[op.to][c] \subseteq AnyEntry
    BY <2>2 DEF Inv, Types
  <2>4. N \subseteq Files /\ \A f \in N : \E e \in disk[op.to][c] : e.name = f /\ ~e.tmp
    BY <2>3 DEF AnyEntry
  <2>5. op' = [op EXCEPT !.todo = @ \ {c}, !.case = {c}, !.names = N]
    BY <2>1
  <2> HIDE DEF N
  <2>6. /\ op'.kind = op.kind /\ op'.to = op.to /\ op'.case = {c} /\ op'.names = N
        /\ op'.open = op.open /\ op' \in Op
    BY <2>2, <2>4, <2>5 DEF Op
  <2>7. Here' = c
    BY <2>6 DEF Here
  <2>8. HereInv'
    BY <1>1, <2>1, <2>2, <2>4, <2>6, <2>7 DEF HereInv
  <2>9. Types' /\ WholeInv'
    BY <2>1, <2>6 DEF Inv, Types, WholeInv
  <2>10. DerivedComplete'
    BY <2>1, SameComplete DEF Inv, Types
  <2> QED
    BY <1>1, <2>1, <2>6, <2>8, <2>9, <2>10, FilesKeep DEF Inv
<1> QED
  BY <1>2, <1>3

(* A file that the operation goes on with is found where it is looked for.   *)
LEMMA SourceFacts ==
  ASSUME Inv, NEW f \in op.names \union op.open
  PROVE  /\ op.kind \in FileOps /\ op.to \in Root /\ Here \in Cases /\ f \in Files
         /\ Source(f) \in disk[op.to][Here] /\ Source(f) \in AnyEntry
         /\ Source(f).name = f /\ ~Source(f).tmp
         /\ op.to = "source" => Source(f).whole
<1>1. op.kind \in FileOps /\ op.to \in Root /\ Here \in Cases /\ f \in Files
  BY DEF Inv, HereInv, Types, Op, ModeInv, FileOps, Removers, Rewriters
<1>2. \E e \in disk[op.to][Here] : e.name = f /\ ~e.tmp
  BY DEF Inv, HereInv
<1>3. Source(f) \in disk[op.to][Here] /\ Source(f).name = f /\ ~Source(f).tmp
  BY <1>2 DEF Source
<1>4. Source(f) \in AnyEntry
  BY <1>1, <1>3 DEF Inv, Types
<1> QED
  BY <1>1, <1>3, <1>4 DEF Inv, WholeInv

(* The files of one test case change.                                        *)
LEMMA PutFacts ==
  ASSUME Inv, op.kind \in FileOps, Here \in Cases, op.to \in Root,
         NEW old, NEW new \in SUBSET AnyEntry, Put(old, new)
  PROVE  /\ disk' \in [Root -> [Cases -> SUBSET AnyEntry]]
         /\ disk'[op.to][Here] = (disk[op.to][Here] \ old) \union new
         /\ \A c \in Cases \ {Here} : disk'[op.to][c] = disk[op.to][c]
         /\ \A r \in Root \ {op.to} : disk'[r] = disk[r]
BY DEF Put, Inv, Types

LEMMA PutKeeps ==
  ASSUME Inv, op.kind \in FileOps, Here \in Cases, op.to \in Root,
         NEW old, NEW new \in SUBSET AnyEntry, Put(old, new),
         op.to = "source" => \A e \in new : ~e.tmp => e.whole,
         op' \in Op, UNCHANGED <<folders, summary, mem, made>>
  PROVE  Types' /\ WholeInv' /\ DerivedComplete'
<1>1. Types'
  BY PutFacts DEF Inv, Types
<1>2. WholeInv'
  <2>1. "source" \in Root
    BY DEF Root
  <2>2. CASE op.to # "source"
    BY <2>1, <2>2, PutFacts DEF Inv, WholeInv
  <2>3. CASE op.to = "source"
    <3>1. ASSUME NEW c \in Cases, NEW e \in disk'["source"][c], ~e.tmp PROVE e.whole
      <4>1. CASE e \in disk["source"][c]
        BY <3>1, <4>1 DEF Inv, WholeInv
      <4>2. CASE e \notin disk["source"][c]
        <5>1. c = Here /\ e \in new
          BY <2>3, <3>1, <4>2, PutFacts
        <5> QED
          BY <2>3, <3>1, <5>1
      <4> QED
        BY <4>1, <4>2
    <3> QED
      BY <3>1 DEF WholeInv
  <2> QED
    BY <2>2, <2>3
<1>3. DerivedComplete'
  <2>1. made[op.to] = {}
    BY DEF Inv, ModeInv
  <2> QED
    BY <1>1, <2>1, PutFacts, SameComplete DEF Inv, Types
<1> QED
  BY <1>1, <1>2, <1>3

LEMMA RemoveFileKeeps == Inv /\ RemoveFile => Inv'
<1> SUFFICES ASSUME Inv, RemoveFile PROVE Inv'
  OBVIOUS
<1>1. PICK f \in op.names : Put({Source(f)}, {}) /\ op' = [op EXCEPT !.names = @ \ {f}]
  BY DEF RemoveFile
<1>2. UNCHANGED <<folders, summary, mem, last, made>>
  BY DEF RemoveFile
<1>3. /\ op' \in Op /\ op'.kind = op.kind /\ op'.to = op.to /\ op'.case = op.case
      /\ op'.names = op.names \ {f} /\ op'.open = op.open
  BY <1>1 DEF Inv, Types, Op
<1>4. Types' /\ WholeInv' /\ DerivedComplete'
  BY <1>1, <1>2, <1>3, SourceFacts, PutKeeps
<1>5. HereInv'
  <2>1. Here' = Here
    BY <1>3 DEF Here
  <2>2. ASSUME NEW g \in op'.names \union op'.open
        PROVE  \E e \in disk'[op.to][Here] : e.name = g /\ ~e.tmp
    <3>1. g \in op.names \union op.open /\ g # f
      BY <1>1, <1>3 DEF Inv, HereInv
    <3>2. PICK e \in disk[op.to][Here] : e.name = g /\ ~e.tmp
      BY <3>1 DEF Inv, HereInv
    <3>3. e # Source(f)
      BY <1>1, <3>1, <3>2, SourceFacts
    <3>4. disk'[op.to][Here] = (disk[op.to][Here] \ {Source(f)}) \union {}
      BY <1>1, SourceFacts, PutFacts
    <3> QED
      BY <3>2, <3>3, <3>4
  <2> QED
    BY <1>1, <1>3, <2>1, <2>2, SourceFacts DEF Inv, HereInv
<1> QED
  BY <1>1, <1>2, <1>3, <1>4, <1>5, SourceFacts, FilesKeep DEF Inv

LEMMA WriteBesideKeeps == Inv /\ WriteBeside => Inv'
<1> SUFFICES ASSUME Inv, WriteBeside PROVE Inv'
  OBVIOUS
<1>0. op.open = {} /\ UNCHANGED <<folders, summary, mem, last, made>>
  BY DEF WriteBeside
<1>1. PICK f \in op.names :
       LET untouched == op.kind = "replace_litterals" /\ Source(f).lits = 0
           beside    == [Source(f) EXCEPT !.tmp = TRUE, !.whole = FALSE]
       IN  /\ op' = [op EXCEPT !.names = @ \ {f}, !.open = IF untouched THEN {} ELSE {f}]
           /\ IF untouched THEN UNCHANGED disk
              ELSE Put({e \in disk[op.to][Here] : e.name = f /\ e.tmp}, {beside})
  BY DEF WriteBeside
<1>2. op \in Op /\ f \in Files
  BY <1>1, SourceFacts DEF Inv, Types
<1>3. /\ op' \in Op /\ op'.kind = op.kind /\ op'.to = op.to /\ op'.case = op.case
      /\ op'.names = op.names \ {f} /\ op'.open \subseteq {f}
  BY <1>1, <1>2 DEF Op
<1>4. Here' = Here
  BY <1>3 DEF Here
<1> DEFINE old == {e \in disk[op.to][Here] : e.name = f /\ e.tmp}
           beside == [Source(f) EXCEPT !.tmp = TRUE, !.whole = FALSE]
<1>5. UNCHANGED disk \/ Put(old, {beside})
  BY <1>1
<1>6. beside \in AnyEntry /\ beside.tmp
  BY <1>1, SourceFacts DEF AnyEntry
<1> HIDE DEF beside
<1>7. Types' /\ WholeInv' /\ DerivedComplete'
  <2>1. CASE UNCHANGED disk
    BY <1>0, <1>3, <2>1, SameComplete DEF Inv, Types, WholeInv
  <2>2. CASE Put(old, {beside})
    BY <1>0, <1>1, <1>3, <1>6, <2>2, SourceFacts, PutKeeps
  <2> QED
    BY <1>5, <2>1, <2>2
<1>8. HereInv'
  <2>1. ASSUME NEW e \in disk[op.to][Here], ~e.tmp PROVE e \in disk'[op.to][Here]
    <3>1. CASE UNCHANGED disk
      BY <3>1
    <3>2. CASE Put(old, {beside})
      <4>1. disk'[op.to][Here] = (disk[op.to][Here] \ old) \union {beside}
        BY <1>1, <1>6, <3>2, SourceFacts, PutFacts
      <4> QED
        BY <2>1, <4>1
    <3> QED
      BY <1>5, <3>1, <3>2
  <2>2. ASSUME NEW g \in op'.names \union op'.open
        PROVE  \E e \in disk'[op.to][Here] : e.name = g /\ ~e.tmp
    <3>1. g \in op.names \union op.open
      BY <1>1, <1>3
    <3>2. PICK e \in disk[op.to][Here] : e.name = g /\ ~e.tmp
      BY <3>1 DEF Inv, HereInv
    <3> QED
      BY <2>1, <3>2
  <2> QED
    BY <1>1, <1>3, <1>4, <2>2, SourceFacts DEF Inv, HereInv
<1> QED
  BY <1>0, <1>1, <1>3, <1>7, <1>8, SourceFacts, FilesKeep DEF Inv

LEMMA MoveOverKeeps == Inv /\ MoveOver => Inv'
<1> SUFFICES ASSUME Inv, MoveOver PROVE Inv'
  OBVIOUS
<1>0. UNCHANGED <<folders, summary, mem, last, made>>
  BY DEF MoveOver
<1>1. PICK f \in op.open :
        /\ Put({e \in disk[op.to][Here] : e.name = f}, {Rewritten(Source(f))})
        /\ op' = [op EXCEPT !.open = {}, !.hits = @ + 1]
  BY DEF MoveOver
<1> DEFINE old == {e \in disk[op.to][Here] : e.name = f}
           new == Rewritten(Source(f))
<1>2. /\ op' \in Op /\ op'.kind = op.kind /\ op'.to = op.to /\ op'.case = op.case
      /\ op'.names = op.names /\ op'.open = {}
  <2>1. op \in Op /\ op.hits + 1 \in Nat
    BY DEF Inv, Types, Op
  <2>2. op' = [kind |-> op.kind, to |-> op.to, from |-> op.from, n |-> op.n,
               class |-> op.class, todo |-> op.todo, case |-> op.case,
               names |-> op.names, open |-> {}, hits |-> op.hits + 1]
    BY <1>1, <2>1 DEF Op
  <2> QED
    BY <2>1, <2>2 DEF Op
<1>3. new \in AnyEntry /\ new.whole = Source(f).whole
  BY <1>1, SourceFacts DEF AnyEntry, Rewritten
<1>4. Put(old, {new})
  BY <1>1
<1> HIDE DEF new
<1>5. Types' /\ WholeInv' /\ DerivedComplete'
  BY <1>0, <1>1, <1>2, <1>3, <1>4, SourceFacts, PutKeeps
<1>6. HereInv'
  <2>1. Here' = Here
    BY <1>2 DEF Here
  <2>2. ASSUME NEW g \in op'.names \union op'.open
        PROVE  \E e \in disk'[op.to][Here] : e.name = g /\ ~e.tmp
    <3>1. g \in op.names \union op.open /\ g # f
      BY <1>1, <1>2 DEF Inv, HereInv
    <3>2. PICK e \in disk[op.to][Here] : e.name = g /\ ~e.tmp
      BY <3>1 DEF Inv, HereInv
    <3>3. disk'[op.to][Here] = (disk[op.to][Here] \ old) \union {new}
      BY <1>1, <1>3, <1>4, SourceFacts, PutFacts
    <3> QED
      BY <3>1, <3>2, <3>3
  <2> QED
    BY <1>1, <1>2, <2>1, <2>2, SourceFacts DEF Inv, HereInv
<1> QED
  BY <1>0, <1>1, <1>2, <1>5, <1>6, SourceFacts, FilesKeep DEF Inv

LEMMA EndFilesKeeps == Inv /\ EndFiles => Inv'
<1> SUFFICES ASSUME Inv, EndFiles PROVE Inv'
  OBVIOUS
<1>1. /\ op.kind \in FileOps /\ op.names = {} /\ op.open = {} /\ op.to \in Root
      /\ op.to = mem.root /\ made[op.to] = {} /\ last.kind = "none"
      /\ mem' \in Index(op.to) /\ summary' = WithSummary(op.to)
      /\ UNCHANGED <<disk, folders, made>>
  BY DEF EndFiles, AtCase, InFiles, Inv, ModeInv, Types, Op, FileOps, Removers, Rewriters
<1>2. WholeInv' /\ DerivedComplete'
  BY <1>1, SameComplete, SummaryFacts DEF Inv, Types, WholeInv
<1>3. CASE Ended(TRUE, {})
  <2>1. op' = Idle /\ last'.kind = op.kind
    BY <1>3 DEF Ended
  <2>2. Types'
    BY <1>1, <2>1, IdleFacts, IndexFacts, SummaryFacts DEF Inv, Types
  <2>3. InverseIsComplement'
    BY <1>1, <2>1, NoneLast DEF FileOps, Removers, Rewriters
  <2> QED
    BY <1>2, <2>1, <2>2, <2>3, IdleInv DEF Inv
<1>4. CASE op' = [op EXCEPT !.todo = mem'.cases, !.case = {}, !.hits = 0] /\ UNCHANGED last
  <2>1. mem'.root = op.to /\ mem'.cases \in SUBSET Cases
    BY <1>1, IndexFacts DEF Inv
  <2>2. /\ op' \in Op /\ op'.kind = op.kind /\ op'.to = op.to
        /\ op'.names = op.names /\ op'.open = op.open
    BY <1>4, <2>1 DEF Inv, Types, Op
  <2>3. Types'
    BY <1>1, <2>1, <2>2, SummaryFacts DEF Inv, Types
  <2>4. ModeInv' /\ HereInv' /\ DeriveInv' /\ InverseInv'
    BY <1>1, <1>4, <2>1, <2>2
       DEF Inv, ModeInv, HereInv, DeriveInv, InverseInv, FileOps, Removers, Rewriters
  <2>5. InverseIsComplement'
    BY <1>1, <1>4, NoneLast
  <2> QED
    BY <1>2, <2>3, <2>4, <2>5 DEF Inv
<1> QED
  BY <1>3, <1>4 DEF EndFiles
-------------------------------------------------------------------------------
(* A dataset that is being made.                                             *)
LEMMA DerivingFacts ==
  ASSUME Inv, op.kind \in {"extract", "inverse", "copy"}
  PROVE  /\ op \in Op /\ op.to \in Root /\ op.to # "source" /\ op.to # mem.root
         /\ mem.root \in Root /\ mem.cases \subseteq Cases /\ op.case \subseteq Cases
         /\ op.todo \subseteq Cases /\ op.names = {} /\ op.open = {} /\ last.kind = "none"
         /\ "source" \in Root
BY DEF Inv, Types, Op, ModeInv, HereInv, Root, Derived, FileOps, Removers, Rewriters

(* Its files have no part in what is said of the sources.                    *)
LEMMA DerivedWhole ==
  ASSUME Inv, op.kind \in {"extract", "inverse", "copy"},
         \A r \in Root \ {op.to} : disk'[r] = disk[r]
  PROVE  WholeInv'
BY DerivingFacts DEF Inv, WholeInv

(* While it is being made, it does not look finished.                        *)
LEMMA UnfinishedKeeps ==
  ASSUME Inv, op.kind \in {"extract", "inverse"}, DOMAIN made' = Root,
         \A r \in Root : summary'[r] = "copied" => summary[r] = "copied",
         \A r \in Root \ {op.to} : made'[r] = made[r] /\ disk'[r] = disk[r]
  PROVE  DerivedComplete'
<1>1. ASSUME NEW r \in Root, made'[r] # {}, summary'[r] = "copied"
      PROVE  Content(r, Cases)' = made'[r]
  <2>1. r # op.to /\ summary[r] = "copied"
    BY <1>1 DEF Inv, DeriveInv
  <2>2. Content(r, Cases)' = Content(r, Cases)
    BY <2>1 DEF Content
  <2> QED
    BY <1>1, <2>1, <2>2 DEF Inv, DerivedComplete
<1> QED
  BY <1>1 DEF DerivedComplete

(* What is wanted of two sets of test cases.                                 *)
LEMMA WantedUnion ==
  ASSUME NEW S, NEW T PROVE Wanted(S \union T) = Wanted(S) \union Wanted(T)
BY DEF Wanted, Content

LEMMA NextClassKeeps == Inv /\ NextClass => Inv'
<1> SUFFICES ASSUME Inv, NextClass PROVE Inv'
  OBVIOUS
<1>1. /\ op.kind = "extract" /\ op.todo = {}
      /\ UNCHANGED <<disk, folders, summary, mem, last>>
  BY DEF NextClass
<1>2. PICK S \in SUBSET Candidates(op.class + 1) :
        /\ op' = [op EXCEPT !.class = op.class + 1, !.todo = S, !.case = @ \union S]
        /\ made' = [made EXCEPT ![op.to] = @ \union Wanted(S)]
  BY DEF NextClass
<1>3. S \subseteq Cases
  BY <1>1, DerivingFacts DEF Candidates
<1>4. /\ op' \in Op /\ op'.kind = op.kind /\ op'.to = op.to /\ op'.todo = S
      /\ op'.case = op.case \union S /\ op'.names = op.names /\ op'.open = op.open
  <2>1. op \in Op /\ op.class + 1 \in Nat /\ op.case \union S \in SUBSET Cases
    BY <1>1, <1>3, DerivingFacts DEF Op
  <2>2. op' = [kind |-> op.kind, to |-> op.to, from |-> op.from, n |-> op.n,
               class |-> op.class + 1, todo |-> S, case |-> op.case \union S,
               names |-> op.names, open |-> op.open, hits |-> op.hits]
    BY <1>2, <2>1 DEF Op
  <2> QED
    BY <1>3, <2>1, <2>2 DEF Op
<1>5. Types'
  BY <1>1, <1>2, <1>4 DEF Inv, Types
<1>6. ModeInv' /\ HereInv' /\ InverseInv' /\ WholeInv'
  BY <1>1, <1>4, DerivingFacts
     DEF Inv, ModeInv, HereInv, InverseInv, WholeInv, FileOps, Removers, Rewriters
<1>7. made'[op.to] = Wanted(op.case \union S)
  <2>1. made'[op.to] = made[op.to] \union Wanted(S)
    BY <1>1, <1>2, DerivingFacts DEF Inv, Types
  <2>2. made[op.to] = Wanted(op.case)
    BY <1>1 DEF Inv, DeriveInv
  <2> QED
    BY <2>1, <2>2, WantedUnion
<1>8. DeriveInv'
  <2>1. Wanted(op.case)' = Wanted(op.case \union S)
    BY <1>1, <1>4 DEF Wanted, Content
  <2> QED
    BY <1>1, <1>4, <1>7, <2>1 DEF Inv, DeriveInv
<1>9. DerivedComplete'
  BY <1>1, <1>2, <1>5, UnfinishedKeeps DEF Inv, Types
<1>10. InverseIsComplement'
  BY <1>1, DerivingFacts, NoneLast
<1> QED
  BY <1>5, <1>6, <1>8, <1>9, <1>10 DEF Inv

LEMMA OpenOtherKeeps == Inv /\ OpenOther => Inv'
<1> SUFFICES ASSUME Inv, OpenOther PROVE Inv'
  OBVIOUS
<1>1. op.kind = "inverse" /\ op.class = 0
  BY DEF OpenOther
<1>2. CASE Fails
  BY <1>1, <1>2, FailsKeep
<1>3. CASE ~Fails
  <2> DEFINE S == mem.cases \ Visible(op.from)
  <2>1. /\ Exists(op.from)
        /\ op' = [op EXCEPT !.class = 1, !.todo = S, !.case = S]
        /\ made' = [made EXCEPT ![op.to] = Wanted(S)]
        /\ summary' = WithSummary(op.from)
        /\ UNCHANGED <<disk, folders, mem, last>>
    BY <1>3 DEF OpenOther
  <2>2. S \in SUBSET Cases
    BY <1>1, DerivingFacts
  <2> HIDE DEF S
  <2>3. /\ op' \in Op /\ op'.kind = op.kind /\ op'.to = op.to /\ op'.from = op.from
        /\ op'.class = 1 /\ op'.todo = S /\ op'.case = S
        /\ op'.names = op.names /\ op'.open = op.open
    BY <1>1, <2>1, <2>2, DerivingFacts DEF Op
  <2>4. op.from # op.to
    BY <1>1, <2>1 DEF Inv, InverseInv
  <2>5. op.from \in Root
    BY <1>1 DEF Inv, InverseInv
  <2>6. /\ summary' \in [Root -> {"none", "own", "copied"}]
        /\ \A x \in Root : summary'[x] = "copied" <=> summary[x] = "copied"
    BY <2>1, <2>5, SummaryFacts DEF Inv
  <2>7. Types'
    BY <2>1, <2>3, <2>6 DEF Inv, Types
  <2>8. ModeInv' /\ HereInv' /\ WholeInv'
    BY <1>1, <2>1, <2>3, DerivingFacts
       DEF Inv, ModeInv, HereInv, WholeInv, FileOps, Removers, Rewriters
  <2>9. InverseInv'
    BY <2>1, <2>3, <2>4, <2>5 DEF InverseInv, S, Visible
  <2>10. DeriveInv'
    <3>1. \A d \in Cases : disk[op.to][d] = {}
      BY <1>1 DEF Inv, DeriveInv, InverseInv
    <3>2. Wanted(op.case)' = Wanted(S)
      BY <2>1, <2>3 DEF Wanted, Content
    <3>3. made'[op.to] = Wanted(S)
      BY <1>1, <2>1, DerivingFacts DEF Inv, Types
    <3> QED
      BY <1>1, <2>1, <2>3, <2>6, <3>1, <3>2, <3>3, DerivingFacts DEF Inv, DeriveInv
  <2>11. DerivedComplete'
    BY <1>1, <2>1, <2>6, <2>7, UnfinishedKeeps DEF Inv, Types
  <2>12. InverseIsComplement'
    BY <1>1, <2>1, DerivingFacts, NoneLast
  <2> QED
    BY <2>7, <2>8, <2>9, <2>10, <2>11, <2>12 DEF Inv
<1> QED
  BY <1>2, <1>3

(* What a copy of one test case, all of it or a part, does to the files.     *)
LEMMA CopyFacts ==
  ASSUME Inv, op.kind \in {"extract", "inverse", "copy"}, NEW S \in SUBSET Cases, CopyOf(S)
  PROVE  /\ disk' \in [Root -> [Cases -> SUBSET AnyEntry]] /\ DOMAIN folders' = Root
         /\ \A d \in S : disk'[op.to][d] = disk[mem.root][d]
         /\ \A d \in Cases \ S : disk'[op.to][d] = disk[op.to][d]
         /\ \A r \in Root \ {op.to} : disk'[r] = disk[r]
BY DerivingFacts DEF CopyOf, Inv, Types

LEMMA CopyCaseKeeps == Inv /\ CopyCase => Inv'
<1> SUFFICES ASSUME Inv, CopyCase PROVE Inv'
  OBVIOUS
<1>1. op.kind \in {"extract", "inverse"} /\ op.todo # {}
  BY DEF CopyCase, Deriving
<1>2. CASE Fails
  BY <1>1, <1>2, FailsKeep
<1>3. CASE ~Fails
  <2>1. PICK c \in op.todo :
          /\ CopyOf(Below(c) \intersect Visible(mem.root))
          /\ op' = [op EXCEPT !.todo = @ \ {c}]
          /\ UNCHANGED <<summary, mem, last, made>>
    BY <1>3 DEF CopyCase
  <2> DEFINE S == Below(c) \intersect Visible(mem.root)
  <2>2. c \in Cases /\ c \in op.case /\ S \in SUBSET Cases /\ Below(c) \subseteq Cases
    BY <1>1, DerivingFacts, BelowCases DEF Inv, DeriveInv, Visible
  <2>3. \A d \in Below(c) \ S : disk[mem.root][d] = {}
    BY <2>2 DEF Visible
  <2>4. S \subseteq Below(c) /\ CopyOf(S)
    BY <2>1
  <2> HIDE DEF S
  <2>5. /\ disk' \in [Root -> [Cases -> SUBSET AnyEntry]] /\ DOMAIN folders' = Root
        /\ \A d \in S : disk'[op.to][d] = disk[mem.root][d]
        /\ \A d \in Cases \ S : disk'[op.to][d] = disk[op.to][d]
        /\ \A r \in Root \ {op.to} : disk'[r] = disk[r]
    BY <1>1, <2>2, <2>4, CopyFacts
  <2>6. /\ op' \in Op /\ op'.kind = op.kind /\ op'.to = op.to /\ op'.from = op.from
        /\ op'.class = op.class /\ op'.todo = op.todo \ {c} /\ op'.case = op.case
        /\ op'.names = op.names /\ op'.open = op.open
    BY <1>1, <2>1, DerivingFacts DEF Op
  <2>7. Types'
    BY <2>1, <2>5, <2>6 DEF Inv, Types
  <2>8. ModeInv' /\ HereInv'
    BY <1>1, <2>1, <2>6, DerivingFacts
       DEF Inv, ModeInv, HereInv, FileOps, Removers, Rewriters
  <2>9. WholeInv'
    BY <1>1, <2>5, DerivedWhole
  <2>10. disk'[mem.root] = disk[mem.root]
    BY <1>1, <2>5, DerivingFacts
  <2>11. DeriveInv'
    <3>1. \A d \in Cases : \/ disk'[op.to][d] = {}
                           \/ disk'[op.to][d] = disk[mem.root][d]
      BY <1>1, <2>2, <2>5 DEF Inv, DeriveInv
    <3>2. \A d \in Cases : disk'[op.to][d] # {} => \E x \in op.case : d \in Below(x)
      BY <1>1, <2>2, <2>4, <2>5 DEF Inv, DeriveInv
    <3>3. \A d \in Below(c) : disk'[op.to][d] = disk[mem.root][d]
      <4>1. ASSUME NEW d \in Below(c) \ S PROVE disk'[op.to][d] = disk[mem.root][d]
        <5>1. disk'[op.to][d] = disk[op.to][d] /\ disk[mem.root][d] = {} /\ d \in Cases
          BY <2>2, <2>3, <2>5
        <5> QED
          BY <1>1, <5>1 DEF Inv, DeriveInv
      <4> QED
        BY <2>5, <4>1
    <3>4. ASSUME NEW x \in op.case \ (op.todo \ {c}), NEW d \in Below(x)
          PROVE  disk'[op.to][d] = disk[mem.root][d]
      <4>1. CASE d \in Below(c)
        BY <3>3, <4>1
      <4>2. CASE d \notin Below(c)
        <5>1. x # c /\ d \in Cases /\ d \notin S
          BY <1>1, <2>4, <4>2, DerivingFacts, BelowCases
        <5>2. disk[op.to][d] = disk[mem.root][d]
          BY <1>1, <5>1 DEF Inv, DeriveInv
        <5> QED
          BY <2>5, <5>1, <5>2
      <4> QED
        BY <4>1, <4>2
    <3>5. Wanted(op.case)' = Wanted(op.case)
      BY <2>1, <2>6, <2>10 DEF Wanted, Content
    <3> QED
      BY <1>1, <2>1, <2>6, <2>10, <3>1, <3>2, <3>4, <3>5 DEF Inv, DeriveInv, Below
  <2>12. InverseInv'
    <3>1. ASSUME op.kind = "inverse" PROVE op.class # 0 /\ op.from \in Root
      BY <1>1, <3>1 DEF Inv, InverseInv, DeriveInv
    <3>2. ASSUME op.kind = "inverse"
          PROVE  op.from # op.to /\ Visible(op.from)' = Visible(op.from)
      BY <2>5, <2>6, <3>1, <3>2 DEF Inv, InverseInv, Visible
    <3> QED
      BY <2>1, <2>6, <3>1, <3>2 DEF Inv, InverseInv
  <2>13. DerivedComplete'
    BY <1>1, <2>1, <2>5, <2>7, UnfinishedKeeps DEF Inv, Types
  <2>14. InverseIsComplement'
    BY <1>1, <2>1, DerivingFacts, NoneLast
  <2> QED
    BY <2>7, <2>8, <2>9, <2>11, <2>12, <2>13, <2>14 DEF Inv
<1> QED
  BY <1>2, <1>3

LEMMA StopCopyingKeeps == Inv /\ StopCopying => Inv'
<1> SUFFICES ASSUME Inv, StopCopying PROVE Inv'
  OBVIOUS
<1>1. /\ op.kind \in {"extract", "inverse"}
      /\ mem' = Closed /\ op' = Idle /\ last' = Nothing
      /\ UNCHANGED <<summary, made>>
  BY DEF StopCopying, Deriving
<1>2. PICK c \in op.todo : \E d \in Below(c), e \in Entry :
       /\ e \in disk[mem.root][d] /\ disk[op.to][d] = {}
       /\ disk' = [disk EXCEPT ![op.to][d] = {[e EXCEPT !.whole = FALSE]}]
       /\ folders' = [folders EXCEPT ![op.to] = @ \union {ClassOf[d]}]
  BY DEF StopCopying
<1>3. PICK d \in Below(c), e \in Entry :
       /\ e \in disk[mem.root][d] /\ disk[op.to][d] = {}
       /\ disk' = [disk EXCEPT ![op.to][d] = {[e EXCEPT !.whole = FALSE]}]
       /\ folders' = [folders EXCEPT ![op.to] = @ \union {ClassOf[d]}]
  BY <1>2
<1>4. d \in Cases /\ {[e EXCEPT !.whole = FALSE]} \in SUBSET AnyEntry
  <2>1. c \in Cases
    BY <1>1, DerivingFacts
  <2>2. d \in Cases
    BY <2>1, BelowCases
  <2>3. e \in AnyEntry
    BY <1>1, <1>3, <2>2, DerivingFacts DEF Inv, Types
  <2> QED
    BY <2>2, <2>3 DEF AnyEntry
<1>5. /\ disk' \in [Root -> [Cases -> SUBSET AnyEntry]] /\ DOMAIN folders' = Root
      /\ \A r \in Root \ {op.to} : disk'[r] = disk[r]
  <2>1. disk' = [disk EXCEPT ![op.to][d] = {[e EXCEPT !.whole = FALSE]}]
    BY <1>3
  <2>2. folders' = [folders EXCEPT ![op.to] = @ \union {ClassOf[d]}]
    BY <1>3
  <2> DEFINE new == {[e EXCEPT !.whole = FALSE]}
  <2>3. new \in SUBSET AnyEntry /\ disk' = [disk EXCEPT ![op.to][d] = new]
    BY <1>4, <2>1
  <2> HIDE DEF new
  <2> QED
    BY <1>1, <1>4, <2>2, <2>3, DerivingFacts DEF Inv, Types
<1>6. Types'
  BY <1>1, <1>5, IdleFacts DEF Inv, Types
<1>7. WholeInv' /\ DerivedComplete'
  BY <1>1, <1>5, <1>6, DerivedWhole, UnfinishedKeeps DEF Inv, Types
<1> QED
  BY <1>1, <1>6, <1>7, IdleFacts, IdleInv, NoneLast DEF Inv

LEMMA CopySummaryKeeps == Inv /\ CopySummary => Inv'
<1> SUFFICES ASSUME Inv, CopySummary PROVE Inv'
  OBVIOUS
<1>1. op.kind \in {"extract", "inverse"} /\ op.todo = {}
  BY DEF CopySummary
<1>2. CASE Fails
  BY <1>1, <1>2, FailsKeep
<1>3. CASE ~Fails
  <2>1. /\ summary' = [summary EXCEPT ![op.to] = "copied"]
        /\ Ended(TRUE, op.case)
        /\ UNCHANGED <<disk, folders, mem, made>>
    BY <1>3 DEF CopySummary
  <2>2. op' = Idle /\ last'.kind = op.kind /\ last'.to = op.to /\ last'.from = op.from
    BY <2>1 DEF Ended
  <2>3. Types' /\ WholeInv'
    BY <1>1, <2>1, <2>2, IdleFacts, DerivingFacts DEF Inv, Types, WholeInv
  <2>4. \A d \in Cases : disk[op.to][d] # {} =>
           disk[op.to][d] = disk[mem.root][d] /\ \E c \in op.case : d \in Below(c)
    BY <1>1 DEF Inv, DeriveInv
  <2>5. \A c \in op.case : \A d \in Below(c) : disk[op.to][d] = disk[mem.root][d]
    BY <1>1 DEF Inv, DeriveInv
  <2>6. Content(op.to, Cases) = Wanted(op.case)
    <3> DEFINE U == UNION {Below(c) : c \in op.case}
    <3>1. U \subseteq Cases
      BY <1>1, DerivingFacts, BelowCases
    <3>2. \A d \in U : disk[op.to][d] = disk[mem.root][d]
      BY <2>5
    <3>3. \A d \in Cases : disk[op.to][d] # {} => d \in U
      BY <2>4
    <3>4. Wanted(op.case) = Content(mem.root, U)
      BY DEF Wanted
    <3> HIDE DEF U
    <3> QED
      BY <3>1, <3>2, <3>3, <3>4 DEF Content
  <2>7. DerivedComplete'
    <3>1. ASSUME NEW r \in Root, made'[r] # {}, summary'[r] = "copied"
          PROVE  Content(r, Cases)' = made'[r]
      <4>1. Content(r, Cases)' = Content(r, Cases) /\ made'[r] = made[r]
        BY <2>1 DEF Content
      <4>2. CASE r = op.to
        BY <1>1, <2>6, <4>1, <4>2 DEF Inv, DeriveInv
      <4>3. CASE r # op.to
        BY <2>1, <3>1, <4>1, <4>3 DEF Inv, Types, DerivedComplete
      <4> QED
        BY <4>2, <4>3
    <3> QED
      BY <3>1 DEF DerivedComplete
  <2>8. InverseIsComplement'
    <3>1. CASE op.kind # "inverse"
      BY <2>2, <3>1, NoneLast
    <3>2. CASE op.kind = "inverse"
      <4>1. op.case = mem.cases \ Visible(op.from)
        BY <3>2, <1>3 DEF CopySummary, Inv, InverseInv
      <4>2. mem.cases \intersect Visible(mem.root)
              \subseteq Visible(op.to) \union Visible(op.from)
        <5>1. ASSUME NEW c \in mem.cases, c \in Visible(mem.root), c \notin Visible(op.from)
              PROVE  c \in Visible(op.to)
          <6>1. c \in op.case /\ c \in Cases
            BY <4>1, <5>1, <1>1, DerivingFacts
          <6>2. disk[op.to][c] = disk[mem.root][c]
            BY <2>5, <6>1, BelowCases
          <6> QED
            BY <5>1, <6>1, <6>2 DEF Visible
        <5> QED
          BY <5>1
      <4>3. ASSUME NEW d \in Visible(op.to) \intersect Visible(op.from)
            PROVE  \E c \in mem.cases \ Visible(op.from) : <<d, c>> \in Within
        <5>1. PICK c \in op.case : d \in Below(c)
          BY <2>4 DEF Visible
        <5>2. d # c
          BY <4>1, <4>3, <5>1
        <5> QED
          BY <4>1, <5>1, <5>2 DEF Below
      <4>4. /\ Visible(last.to)' = Visible(op.to)
            /\ Visible(last.from)' = Visible(op.from)
            /\ Visible(mem.root)' = Visible(mem.root)
        BY <2>1, <2>2 DEF Visible
      <4> QED
        BY <2>1, <4>2, <4>3, <4>4 DEF InverseIsComplement
    <3> QED
      BY <3>1, <3>2
  <2> QED
    BY <2>2, <2>3, <2>7, <2>8, IdleInv DEF Inv
<1> QED
  BY <1>2, <1>3

LEMMA CopyAllKeeps == Inv /\ CopyAll => Inv'
<1> SUFFICES ASSUME Inv, CopyAll PROVE Inv'
  OBVIOUS
<1>1. op.kind = "copy" /\ UNCHANGED made
  BY DEF CopyAll
<1>2. PICK S \in SUBSET Visible(mem.root), with \in BOOLEAN :
        /\ CopyOf(S)
        /\ summary' = [summary EXCEPT ![op.to] = IF with THEN "copied" ELSE @]
        /\ \/ Ended(TRUE, S) /\ UNCHANGED mem
           \/ mem' = Closed /\ op' = Idle /\ last' = Nothing
  BY DEF CopyAll
<1>3. /\ op' = Idle /\ last'.kind # "inverse"
      /\ mem'.root \in Root \union {"none"} /\ mem'.cases \subseteq Cases
  BY <1>1, <1>2, IdleFacts DEF Ended, Inv, Types
<1>4. S \in SUBSET Cases
  BY <1>2 DEF Visible
<1>5. /\ disk' \in [Root -> [Cases -> SUBSET AnyEntry]] /\ DOMAIN folders' = Root
      /\ \A r \in Root \ {op.to} : disk'[r] = disk[r]
  BY <1>1, <1>2, <1>4, CopyFacts
<1>6. /\ summary' \in [Root -> {"none", "own", "copied"}]
      /\ \A r \in Root \ {op.to} : summary'[r] = summary[r]
  BY <1>1, <1>2, DerivingFacts DEF Inv, Types
<1>7. Types'
  BY <1>1, <1>3, <1>5, <1>6, IdleFacts DEF Inv, Types
<1>8. WholeInv'
  BY <1>1, <1>5, DerivedWhole
<1>9. DerivedComplete'
  <2>1. ASSUME NEW r \in Root, made'[r] # {}, summary'[r] = "copied"
        PROVE  Content(r, Cases)' = made'[r]
    <3>1. r # op.to
      BY <1>1, <2>1 DEF Inv, ModeInv
    <3>2. Content(r, Cases)' = Content(r, Cases)
      BY <1>5, <3>1 DEF Content
    <3> QED
      BY <1>1, <1>6, <2>1, <3>1, <3>2 DEF Inv, DerivedComplete
  <2> QED
    BY <2>1 DEF DerivedComplete
<1> QED
  BY <1>3, <1>7, <1>8, <1>9, IdleInv, NoneLast DEF Inv
-------------------------------------------------------------------------------
LEMMA InitInv == Init => Inv
<1> SUFFICES ASSUME Init PROVE Inv
  OBVIOUS
<1>1. op = Idle /\ last = Nothing /\ mem = Closed
  BY DEF Init
<1>2. disk \in [Root -> [Cases -> SUBSET AnyEntry]]
  <2>1. ASSUME NEW c \in Cases, NEW f \in Initial[c] PROVE File(f, Litterals) \in AnyEntry
    BY FilesAssumption DEF File, AnyEntry
  <2> QED
    BY <2>1 DEF Init
<1>3. Types
  BY <1>1, <1>2, IdleFacts DEF Init, Types
<1>4. WholeInv
  BY DEF Init, WholeInv, File, Root
<1>5. ModeInv /\ HereInv /\ DeriveInv /\ InverseInv
  BY <1>1, IdleFacts DEF ModeInv, HereInv, DeriveInv, InverseInv, FileOps, Removers, Rewriters
<1>6. DerivedComplete /\ InverseIsComplement
  BY <1>1, IdleFacts DEF Init, DerivedComplete, InverseIsComplement
<1> QED
  BY <1>3, <1>4, <1>5, <1>6 DEF Inv

LEMMA StutterKeeps == Inv /\ UNCHANGED vars => Inv'
<1> SUFFICES ASSUME Inv, UNCHANGED vars PROVE Inv'
  OBVIOUS
<1>1. UNCHANGED <<disk, folders, summary, mem, op, last, made>>
  BY DEF vars
<1>2. Types' /\ ModeInv' /\ WholeInv' /\ HereInv'
  BY <1>1 DEF Inv, Types, ModeInv, WholeInv, HereInv, Here
<1>3. DeriveInv' /\ InverseInv'
  BY <1>1 DEF Inv, DeriveInv, InverseInv, Below, Wanted, Content, Exists, Visible
<1>4. DerivedComplete' /\ InverseIsComplement'
  BY <1>1 DEF Inv, DerivedComplete, InverseIsComplement, Content, Visible
<1> QED
  BY <1>2, <1>3, <1>4 DEF Inv

LEMMA Inductive == Spec => []Inv
<1>1. Inv /\ [Next]_vars => Inv'
  <2> SUFFICES ASSUME Inv, [Next]_vars PROVE Inv'
    OBVIOUS
  <2>1. CASE FileRaises
    BY <2>1, FailsKeep DEF FileRaises, InFiles, FileOps, Removers, Rewriters
  <2>2. CASE Step
    BY <2>2, ListCaseKeeps, RemoveFileKeeps, WriteBesideKeeps, MoveOverKeeps, EndFilesKeeps,
       NextClassKeeps, OpenOtherKeeps, CopyCaseKeeps, CopySummaryKeeps, CopyAllKeeps DEF Step
  <2> QED
    BY <2>1, <2>2, OpenKeeps, StopKeeps, StartFilesKeeps, StartDerivedKeeps, RefusedKeeps,
       StopCopyingKeeps, StutterKeeps DEF Next
<1> QED
  BY <1>1, InitInv, PTL DEF Spec

(* A program stopped while it cleans leaves every source file whole.         *)
THEOREM SourcesStayWhole == Spec => []SourcesWhole
<1>1. Inv => SourcesWhole
  BY DEF Inv, WholeInv, SourcesWhole
<1> QED
  BY <1>1, Inductive, PTL

(* A derived dataset with the summary of its original holds all the files    *)
(* that it was to be given, and no others.                                   *)
THEOREM DerivedAreComplete == Spec => []DerivedComplete
<1>1. Inv => DerivedComplete
  BY DEF Inv
<1> QED
  BY <1>1, Inductive, PTL

(* A subset and its inverse make up the dataset.                             *)
THEOREM InversesAreComplements == Spec => []InverseIsComplement
<1>1. Inv => InverseIsComplement
  BY DEF Inv
<1> QED
  BY <1>1, Inductive, PTL
-------------------------------------------------------------------------------
(* Induction over sets of numbers: the library's induction theorems take an  *)
(* operator; that every set of numbers has a least element does not.         *)
LEMMA NatLeast ==
  ASSUME NEW T \in SUBSET Nat, T # {}
  PROVE  \E n \in T : \A m \in T : n <= m
<1> DEFINE R == {p \in Nat \X Nat : p[1] < p[2]}
<1>1. IsWellFoundedOn(R, Nat)
  BY NatLessThanWellFounded DEF OpToRel
<1> HIDE DEF R
<1>2. PICK x \in T : \A y \in T : <<y, x>> \notin R
  BY <1>1, WFMin
<1>3. ASSUME NEW m \in T PROVE x <= m
  <2>1. m \in Nat /\ x \in Nat /\ <<m, x>> \notin R
    BY <1>2
  <2> QED
    BY <2>1 DEF R
<1> QED
  BY <1>3

LEMMA NatSetInduction ==
  ASSUME NEW T, 0 \in T, \A n \in Nat : n \in T => n + 1 \in T
  PROVE  Nat \subseteq T
<1> SUFFICES ASSUME Nat \ T # {} PROVE FALSE
  OBVIOUS
<1>1. PICK n \in Nat \ T : \A m \in Nat \ T : n <= m
  BY NatLeast
<1>2. n # 0 /\ n - 1 \in Nat
  OBVIOUS
<1>3. n - 1 \in T
  BY <1>1, <1>2
<1> QED
  BY <1>2, <1>3

(* A recursive definition over the subsets of a finite set, which takes one  *)
(* element out at a time, has a solution.                                    *)
Solutions(S, c, V, b, g) ==
  {h \in [SUBSET S -> V] :
     /\ h[{}] = b
     /\ \A D \in SUBSET S : D # {} => h[D] = g[<<c[D], h[D \ {c[D]}]>>]}

LEMMA SetRecursion ==
  ASSUME NEW S, IsFiniteSet(S), NEW c,
         \A D \in SUBSET S : D # {} => c[D] \in D,
         NEW V, NEW b \in V, NEW g \in [S \X V -> V]
  PROVE  Solutions(S, c, V, b, g) # {}
<1> DEFINE Small(k) == {D \in SUBSET S : Cardinality(D) <= k}
           Solves(h, k) == \A D \in Small(k) :
                             h[D] = IF D = {} THEN b ELSE g[<<c[D], h[D \ {c[D]}]>>]
           T == {k \in Nat : \E h \in [Small(k) -> V] : Solves(h, k)}
<1>1. \A D \in SUBSET S : IsFiniteSet(D) /\ Cardinality(D) \in Nat
                          /\ Cardinality(D) <= Cardinality(S)
  BY FS_Subset, FS_CardinalityType
<1>2. \A D \in (SUBSET S) \ {{}} : /\ D \ {c[D]} \in SUBSET S
                                   /\ Cardinality(D \ {c[D]}) = Cardinality(D) - 1
  BY <1>1, FS_RemoveElement
<1>3. 0 \in T
  <2>1. \A D \in Small(0) : D = {}
    BY <1>1, FS_EmptySet
  <2> DEFINE h == [D \in Small(0) |-> b]
  <2>2. h \in [Small(0) -> V]
    OBVIOUS
  <2>3. Solves(h, 0)
    BY <2>1
  <2> QED
    BY <2>2, <2>3
<1>4. ASSUME NEW k \in Nat, k \in T PROVE k + 1 \in T
  <2>1. PICK h \in [Small(k) -> V] : Solves(h, k)
    BY <1>4
  <2> DEFINE f == [D \in Small(k + 1) |-> IF D = {} THEN b ELSE g[<<c[D], h[D \ {c[D]}]>>]]
  <2>2. \A D \in Small(k + 1) \ {{}} : D \ {c[D]} \in Small(k)
    BY <1>1, <1>2
  <2>3. f \in [Small(k + 1) -> V]
    BY <2>1, <2>2
  <2>4. \A D \in Small(k) : f[D] = h[D]
    BY <1>1, <2>1
  <2>5. Solves(f, k + 1)
    <3>1. \A D \in Small(k + 1) : f[D] = IF D = {} THEN b ELSE g[<<c[D], h[D \ {c[D]}]>>]
      OBVIOUS
    <3> HIDE DEF f, Small
    <3> QED
      BY <2>2, <2>4, <3>1
  <2> HIDE DEF f, Small, Solves
  <2>6. \E x \in [Small(k + 1) -> V] : Solves(x, k + 1)
    BY <2>3, <2>5
  <2>7. k + 1 \in Nat
    OBVIOUS
  <2> QED
    BY <2>6, <2>7
<1> HIDE DEF T
<1>5. Nat \subseteq T
  BY <1>3, <1>4, NatSetInduction
<1>6. PICK h \in [Small(Cardinality(S)) -> V] : Solves(h, Cardinality(S))
  BY <1>1, <1>5 DEF T
<1>7. Small(Cardinality(S)) = SUBSET S
  BY <1>1
<1> HIDE DEF Small
<1>8. h \in [SUBSET S -> V]
  BY <1>6, <1>7
<1>9. \A D \in SUBSET S : h[D] = IF D = {} THEN b ELSE g[<<c[D], h[D \ {c[D]}]>>]
  BY <1>6, <1>7
<1>10. h \in Solutions(S, c, V, b, g)
  BY <1>8, <1>9 DEF Solutions
<1> QED
  BY <1>10

(* A nonempty set of numbers up to n has a greatest element.                 *)
LEMMA MaxFacts ==
  ASSUME NEW n \in Nat, NEW D \in SUBSET (1..n), D # {}
  PROVE  Max(D) \in D /\ \A y \in D : Max(D) >= y
<1> DEFINE T == {m \in Nat : \A y \in D : y <= m}
<1>1. n \in T
  OBVIOUS
<1>2. PICK x \in T : \A m \in T : x <= m
  BY <1>1, NatLeast
<1>3. x \in D
  <2> SUFFICES ASSUME x \notin D PROVE FALSE
    OBVIOUS
  <2>1. x # 0 /\ x - 1 \in Nat
    <3>1. PICK y \in D : TRUE
      OBVIOUS
    <3>2. y \in 1..n /\ y <= x /\ x \in Nat
      BY <1>2
    <3> QED
      BY <3>2
  <2>2. \A y \in D : y <= x - 1
    BY <1>2, <2>1
  <2>3. x - 1 \in T
    BY <2>1, <2>2
  <2> QED
    BY <1>2, <2>1, <2>3
<1>4. \E z \in D : \A y \in D : z >= y
  BY <1>2, <1>3
<1> QED
  BY <1>4 DEF Max

LEMMA Intervals ==
  ASSUME NEW n \in Nat, NEW i \in 1..n
  PROVE  1..i \subseteq 1..n /\ i \in 1..i
OBVIOUS

(* The sum of a sequence is built up from its beginning.                     *)
LEMMA SumFacts ==
  ASSUME NEW s \in Seq(Nat)
  PROVE  \E h \in [0..Len(s) -> Nat] :
           /\ h[0] = 0
           /\ \A i \in 1..Len(s) : h[i] = h[i - 1] + s[i]
           /\ FoldLeft(+, 0, s) = h[Len(s)]
<1> DEFINE n == Len(s)
           S == 1..n
           c == [D \in (SUBSET S) \ {{}} |-> Max(D)]
           g == [p \in S \X Nat |-> p[2] + s[p[1]]]
           iter == CHOOSE iter : iter = [D \in SUBSET DOMAIN s |->
                     IF D = {} THEN 0 ELSE iter[D \ {Max(D)}] + s[Max(D)]]
<1>1. FoldLeft(+, 0, s) = iter[DOMAIN s]
  BY DEF FoldLeft, MapThenFoldSet
<1>2. n \in Nat /\ DOMAIN s = S /\ \A i \in S : s[i] \in Nat
  OBVIOUS
<1> HIDE DEF n
<1>3. \A D \in (SUBSET S) \ {{}} : c[D] = Max(D) /\ c[D] \in D
  BY <1>2, MaxFacts
<1>4. g \in [S \X Nat -> Nat]
  BY <1>2
<1>5. IsFiniteSet(S)
  BY <1>2, FS_Interval
<1> HIDE DEF c, g, S, iter
<1>6. PICK h : h \in Solutions(S, c, Nat, 0, g)
  <2>1. \A D \in SUBSET S : D # {} => c[D] \in D
    BY <1>3
  <2>2. 0 \in Nat
    OBVIOUS
  <2> QED
    BY <1>4, <1>5, <2>1, <2>2, SetRecursion
<1>7. /\ h \in [SUBSET S -> Nat] /\ h[{}] = 0
      /\ \A D \in SUBSET S : D # {} => h[D] = g[<<c[D], h[D \ {c[D]}]>>]
  BY <1>6 DEF Solutions
<1>8. h = [D \in SUBSET S |-> IF D = {} THEN 0 ELSE h[D \ {Max(D)}] + s[Max(D)]]
  <2> USE DEF g
  <2>1. ASSUME NEW D \in (SUBSET S) \ {{}}
        PROVE  g[<<c[D], h[D \ {c[D]}]>>] = h[D \ {Max(D)}] + s[Max(D)]
    <3>1. Max(D) \in S /\ c[D] = Max(D) /\ h[D \ {Max(D)}] \in Nat
      BY <1>3, <1>7
    <3> QED
      BY <3>1
  <2> HIDE DEF g
  <2> QED
    BY <1>7, <2>1
<1>9. iter = [D \in SUBSET S |-> IF D = {} THEN 0 ELSE iter[D \ {Max(D)}] + s[Max(D)]]
  <2>1. \E i : i = [D \in SUBSET DOMAIN s |-> IF D = {} THEN 0
                                                ELSE i[D \ {Max(D)}] + s[Max(D)]]
    BY <1>2, <1>8
  <2> QED
    BY <1>2, <2>1 DEF iter
<1> USE DEF S
<1>10. \A i \in 1..n : Max(1..i) = i /\ (1..i) \ {i} = 1..(i - 1)
  <2>1. ASSUME NEW i \in 1..n PROVE Max(1..i) = i
    <3>1. 1..i \in SUBSET (1..n) /\ i \in 1..i
      BY <1>2, Intervals
    <3>2. Max(1..i) \in 1..i /\ Max(1..i) >= i
      BY <1>2, <3>1, MaxFacts
    <3> QED
      BY <3>2
  <2> QED
    BY <1>2, <2>1
<1> DEFINE p == [i \in 0..n |-> iter[1..i]]
<1>11. iter[{}] = 0 /\ \A i \in 1..n : iter[1..i] = iter[1..(i - 1)] + s[i]
  <2>1. \A i \in 1..n : 1..i \in SUBSET S /\ i \in 1..i
    BY <1>2, Intervals
  <2> QED
    BY <1>9, <1>10, <2>1
<1>12. 1..0 = {}
  OBVIOUS
<1>13. p[0] = 0 /\ \A i \in 1..n : p[i] = p[i - 1] + s[i]
  BY <1>2, <1>11, <1>12
<1>14. p \in [0..n -> Nat]
  <2> DEFINE U == {i \in Nat : i <= n => p[i] \in Nat}
  <2> HIDE DEF p
  <2>1. 0 \in U
    BY <1>13
  <2>2. ASSUME NEW i \in Nat, i \in U PROVE i + 1 \in U
    <3> SUFFICES ASSUME i + 1 <= n PROVE p[i + 1] \in Nat
      OBVIOUS
    <3>1. i + 1 \in 1..n /\ (i + 1) - 1 = i /\ p[i] \in Nat
      BY <1>2, <2>2
    <3> QED
      BY <1>2, <1>13, <3>1
  <2>3. Nat \subseteq U
    <3> HIDE DEF U
    <3> QED
      BY <2>1, <2>2, NatSetInduction
  <2>4. \A i \in 0..n : p[i] \in Nat
    BY <1>2, <2>3
  <2> QED
    BY <2>4 DEF p
<1>15. FoldLeft(+, 0, s) = p[n]
  <2>1. p[n] = iter[1..n]
    BY <1>2
  <2> QED
    BY <1>1, <1>2, <2>1
<1> QED
  BY <1>13, <1>14, <1>15 DEF n
-------------------------------------------------------------------------------
(* What is counted.  The directories were listed in some order s, and the    *)
(* share of each class is at its place there.                                *)
OfClass(S, K) == {c \in S : ClassOf[c] \in K}
FirstOf(s, i) == {s[j] : j \in 1..i}

FoldersInv ==
  /\ folders \in [Root -> SUBSET ToSet(Classes)]
  /\ \A r \in Root, c \in Cases : disk[r][c] # {} => ClassOf[c] \in folders[r]

Listing(s) ==
  /\ \A i, j \in 1..Len(s) : s[i] = s[j] => i = j
  /\ \A c \in mem.cases : \E i \in 1..Len(s) : ClassOf[c] = s[i]
  /\ Len(mem.classes) = Len(s)
  /\ mem.counts = [i \in 1..Len(s) |-> Cardinality(OfClass(mem.cases, {s[i]}))]

(* What was taken from the first classes is no more, in proportion, than     *)
(* what the dataset holds of them.                                           *)
Proportion(s) ==
  op.kind = "extract" =>
    /\ op.class <= Len(s)
    /\ op.case \subseteq mem.cases
    /\ Cardinality(mem.cases) * Cardinality(op.case)
         <= op.n * Cardinality(OfClass(mem.cases, FirstOf(s, op.class)))

ShareInv == mem.root # "none" =>
              \E s \in Seq(ToSet(Classes)) : Listing(s) /\ Proportion(s)

FreshInv == last.kind \in FileOps /\ last.ok =>
              mem.root \in Root /\ mem.cases = Visible(mem.root)

CountInv == FoldersInv /\ ShareInv /\ FreshInv /\ SampleBounded
-------------------------------------------------------------------------------
LEMMA FiniteClasses == IsFiniteSet(ToSet(Classes))
<1> DEFINE f == [i \in 1..Len(Classes) |-> Classes[i]]
<1>1. Classes \in Seq(ToSet(Classes))
  BY FilesAssumption
<1>2. \A k \in ToSet(Classes) : \E i \in 1..Len(Classes) : Classes[i] = k
  BY <1>1 DEF ToSet
<1>3. f \in Surjection(1..Len(Classes), ToSet(Classes))
  BY <1>1, <1>2 DEF Surjection
<1>4. IsFiniteSet(1..Len(Classes))
  BY <1>1, FS_Interval
<1> QED
  BY <1>3, <1>4, FS_Surjection

(* A sequence of SetToSeqs lists every element of the set once.              *)
LEMMA SeqOfFacts ==
  ASSUME NEW K \in SUBSET ToSet(Classes), NEW s \in SetToSeqs(K)
  PROVE  /\ s \in Seq(ToSet(Classes)) /\ Len(s) = Cardinality(K) /\ DOMAIN s = 1..Len(s)
         /\ \A i, j \in 1..Len(s) : s[i] = s[j] => i = j
         /\ \A k \in K : \E i \in 1..Len(s) : k = s[i]
<1> DEFINE n == Cardinality(K)
<1>1. IsFiniteSet(K) /\ n \in Nat
  BY FiniteClasses, FS_Subset, FS_CardinalityType
<1>2. s \in [1..n -> K] /\ \A i, j \in 1..n : i # j => s[i] # s[j]
  BY DEF SetToSeqs
<1> HIDE DEF n
<1>3. s \in Injection(1..n, K)
  BY <1>2 DEF Injection, IsInjective
<1>4. IsFiniteSet(1..n) /\ Cardinality(1..n) = n
  BY <1>1, FS_Interval
<1>5. s \in Surjection(1..n, K)
  BY <1>1, <1>3, <1>4, FS_Injection DEF n
<1>6. \A k \in K : \E i \in 1..n : s[i] = k
  BY <1>5 DEF Surjection
<1>7. s \in Seq(ToSet(Classes)) /\ Len(s) = n
  BY <1>1, <1>2
<1> QED
  BY <1>1, <1>2, <1>6, <1>7 DEF n

LEMMA FiniteCases ==
  ASSUME NEW S \in SUBSET Cases
  PROVE  IsFiniteSet(S) /\ Cardinality(S) \in Nat
BY FilesAssumption, FS_Subset, FS_CardinalityType

(* One class more.                                                           *)
LEMMA FirstGrows ==
  ASSUME NEW S \in SUBSET Cases, NEW s, NEW i \in Nat, i + 1 <= Len(s),
         s \in Seq(ToSet(Classes)),
         \A j, k \in 1..Len(s) : s[j] = s[k] => j = k
  PROVE  Cardinality(OfClass(S, FirstOf(s, i + 1)))
           = Cardinality(OfClass(S, FirstOf(s, i))) + Cardinality(OfClass(S, {s[i + 1]}))
<1> DEFINE A == OfClass(S, FirstOf(s, i))
           B == OfClass(S, {s[i + 1]})
<1>1. OfClass(S, FirstOf(s, i + 1)) = A \union B
  <2>1. FirstOf(s, i + 1) = FirstOf(s, i) \union {s[i + 1]}
    BY DEF FirstOf
  <2> QED
    BY <2>1 DEF OfClass
<1>2. A \intersect B = {}
  <2>1. s[i + 1] \notin FirstOf(s, i)
    BY DEF FirstOf
  <2> QED
    BY <2>1 DEF OfClass
<1>3. A \in SUBSET Cases /\ B \in SUBSET Cases
  BY DEF OfClass
<1> HIDE DEF A, B
<1>4. /\ IsFiniteSet(A) /\ Cardinality(A) \in Nat
      /\ IsFiniteSet(B) /\ Cardinality(B) \in Nat
  BY <1>3, FiniteCases
<1>5. Cardinality(A \union B) = Cardinality(A) + Cardinality(B) - Cardinality(A \intersect B)
  BY <1>4, FS_Union
<1>6. Cardinality(A \intersect B) = 0
  BY <1>2, FS_EmptySet
<1>7. Cardinality(A \union B) = Cardinality(A) + Cardinality(B)
  BY <1>4, <1>5, <1>6
<1> QED
  BY <1>1, <1>7 DEF A, B

LEMMA FirstNone ==
  ASSUME NEW S \in SUBSET Cases, NEW s
  PROVE  Cardinality(OfClass(S, FirstOf(s, 0))) = 0
<1>1. OfClass(S, FirstOf(s, 0)) = {}
  BY DEF OfClass, FirstOf
<1> QED
  BY <1>1, FS_EmptySet

LEMMA FirstAll ==
  ASSUME NEW S, NEW s, \A c \in S : \E i \in 1..Len(s) : ClassOf[c] = s[i]
  PROVE  OfClass(S, FirstOf(s, Len(s))) = S
BY DEF OfClass, FirstOf

(* The counts add up to the number of test cases.                            *)
LEMMA CountsAddUp ==
  ASSUME NEW s \in Seq(ToSet(Classes)), Listing(s), mem.cases \subseteq Cases
  PROVE  FoldLeft(+, 0, mem.counts) = Cardinality(mem.cases)
<1> DEFINE C(i) == Cardinality(OfClass(mem.cases, FirstOf(s, i)))
           t == mem.counts
<1>1. /\ Len(s) \in Nat
      /\ t = [i \in 1..Len(s) |-> Cardinality(OfClass(mem.cases, {s[i]}))]
  BY DEF Listing
<1>2. \A i \in 1..Len(s) : Cardinality(OfClass(mem.cases, {s[i]})) \in Nat
  <2>1. \A i \in 1..Len(s) : OfClass(mem.cases, {s[i]}) \in SUBSET Cases
    BY DEF OfClass
  <2> QED
    BY <2>1, FiniteCases
<1>3. t \in Seq(Nat) /\ Len(t) = Len(s)
  BY <1>1, <1>2
<1> HIDE DEF t
<1>4. PICK h \in [0..Len(t) -> Nat] :
        /\ h[0] = 0
        /\ \A i \in 1..Len(t) : h[i] = h[i - 1] + t[i]
        /\ FoldLeft(+, 0, t) = h[Len(t)]
  BY <1>3, SumFacts
<1> DEFINE T == {i \in Nat : i <= Len(s) => h[i] = C(i)}
<1>5. 0 \in T
  <2>1. C(0) = 0
    BY FirstNone
  <2> QED
    BY <1>4, <2>1
<1>6. ASSUME NEW i \in Nat, i \in T PROVE i + 1 \in T
  <2> SUFFICES ASSUME i + 1 <= Len(s) PROVE h[i + 1] = C(i + 1)
    OBVIOUS
  <2>1. C(i + 1) = C(i) + Cardinality(OfClass(mem.cases, {s[i + 1]}))
    BY FirstGrows DEF Listing
  <2>2. i <= Len(s) /\ i + 1 \in 1..Len(s) /\ (i + 1) - 1 = i
    BY <1>1
  <2>3. t[i + 1] = Cardinality(OfClass(mem.cases, {s[i + 1]}))
    BY <1>1, <2>2
  <2>4. h[i] = C(i)
    BY <1>6, <2>2
  <2>5. h[i + 1] = h[i] + t[i + 1]
    BY <1>3, <1>4, <2>2
  <2> HIDE DEF C
  <2> QED
    BY <2>1, <2>3, <2>4, <2>5
<1>7. Nat \subseteq T
  <2> HIDE DEF T
  <2> QED
    BY <1>5, <1>6, NatSetInduction
<1>8. h[Len(s)] = C(Len(s))
  BY <1>1, <1>7
<1>9. OfClass(mem.cases, FirstOf(s, Len(s))) = mem.cases
  BY FirstAll DEF Listing
<1> QED
  BY <1>3, <1>4, <1>8, <1>9 DEF t
-------------------------------------------------------------------------------
(* What the steps do to the folders and to the counts.                       *)
LEMMA SameFolders ==
  ASSUME FoldersInv, UNCHANGED folders,
         \A r \in Root, c \in Cases : disk'[r][c] # {} => disk[r][c] # {}
  PROVE  FoldersInv'
BY DEF FoldersInv

(* A copied test case brings its class along.                                *)
LEMMA CopyFolders ==
  ASSUME Inv, FoldersInv, op.kind \in {"extract", "inverse", "copy"},
         NEW S \in SUBSET Cases, CopyOf(S)
  PROVE  FoldersInv'
<1>1. /\ \A d \in Cases \ S : disk'[op.to][d] = disk[op.to][d]
      /\ \A r \in Root \ {op.to} : disk'[r] = disk[r]
  BY CopyFacts
<1>2. op.to \in Root /\ \A c \in S : ClassOf[c] \in ToSet(Classes)
  BY DerivingFacts, FilesAssumption
<1>3. folders' = [folders EXCEPT ![op.to] = @ \union {ClassOf[c] : c \in S}]
  BY DEF CopyOf
<1>4. folders' \in [Root -> SUBSET ToSet(Classes)]
  BY <1>2, <1>3 DEF FoldersInv
<1>5. /\ folders'[op.to] = folders[op.to] \union {ClassOf[c] : c \in S}
      /\ \A r \in Root \ {op.to} : folders'[r] = folders[r]
  BY <1>2, <1>3 DEF FoldersInv
<1>6. ASSUME NEW r \in Root, NEW c \in Cases, disk'[r][c] # {}
      PROVE  ClassOf[c] \in folders'[r]
  <2>1. CASE r # op.to
    BY <1>1, <1>5, <1>6, <2>1 DEF FoldersInv
  <2>2. CASE r = op.to /\ c \in S
    BY <1>5, <2>2
  <2>3. CASE r = op.to /\ c \notin S
    BY <1>1, <1>5, <1>6, <2>3 DEF FoldersInv
  <2> QED
    BY <2>1, <2>2, <2>3
<1> QED
  BY <1>4, <1>6 DEF FoldersInv

LEMMA SameShares ==
  ASSUME ShareInv, UNCHANGED mem,
         op'.kind = "extract" => /\ op.kind = "extract" /\ op'.class = op.class
                                 /\ op'.case = op.case /\ op'.n = op.n
  PROVE  ShareInv'
BY DEF ShareInv, Listing, Proportion

LEMMA ClosedShares ==
  ASSUME mem' = Closed
  PROVE  ShareInv'
BY DEF ShareInv, Closed

(* However the directory was listed, its counts are those of a listing.      *)
LEMMA NewShares ==
  ASSUME Types, FoldersInv, NEW r \in Root, mem' \in Index(r), op'.kind # "extract"
  PROVE  ShareInv'
<1>1. PICK t \in Sorted(folders[r]), s \in SetToSeqs(folders[r]) :
        mem' = [root |-> r, classes |-> t, cases |-> Visible(r), counts |->
                 [i \in DOMAIN s |-> Cardinality({c \in Visible(r) : ClassOf[c] = s[i]})]]
  BY DEF Index
<1>2. folders[r] \in SUBSET ToSet(Classes) /\ t \in SetToSeqs(folders[r])
  BY DEF FoldersInv, Sorted
<1>3. /\ s \in Seq(ToSet(Classes)) /\ Len(s) = Cardinality(folders[r])
      /\ DOMAIN s = 1..Len(s) /\ Len(t) = Cardinality(folders[r])
      /\ \A i, j \in 1..Len(s) : s[i] = s[j] => i = j
      /\ \A k \in folders[r] : \E i \in 1..Len(s) : k = s[i]
  BY <1>2, SeqOfFacts
<1>4. \A c \in Visible(r) : \E i \in 1..Len(s) : ClassOf[c] = s[i]
  BY <1>3 DEF Visible, FoldersInv
<1>5. mem'.counts = [i \in 1..Len(s) |-> Cardinality(OfClass(mem'.cases, {s[i]}))]
  <2>1. \A i \in 1..Len(s) : {c \in Visible(r) : ClassOf[c] = s[i]}
                               = OfClass(Visible(r), {s[i]})
    BY DEF OfClass
  <2> QED
    BY <1>1, <1>3, <2>1
<1>6. Listing(s)'
  BY <1>1, <1>3, <1>4, <1>5 DEF Listing
<1>7. Proportion(s)'
  BY DEF Proportion
<1> QED
  BY <1>3, <1>6, <1>7 DEF ShareInv

LEMMA NothingLast ==
  ASSUME \/ last'.kind \notin FileOps \union {"extract"}
         \/ ~last'.ok
  PROVE  FreshInv' /\ SampleBounded'
BY DEF FreshInv, SampleBounded

(* Before a step of an operation, nothing is said of the last one.           *)
LEMMA SameLast ==
  ASSUME Inv, op.kind # "none", UNCHANGED last
  PROVE  FreshInv' /\ SampleBounded'
BY NothingLast DEF Inv, ModeInv, FileOps, Removers, Rewriters

LEMMA NothingKind == Nothing.kind \notin FileOps \union {"extract"}
BY DEF Nothing, FileOps, Removers, Rewriters

(* Steps of a file operation.                                                *)
LEMMA PutCounts ==
  ASSUME Inv, CountInv, NEW f \in op.names \union op.open,
         NEW old, NEW new \in SUBSET AnyEntry, Put(old, new),
         op'.kind = op.kind, UNCHANGED <<folders, mem, last>>
  PROVE  CountInv'
<1>1. /\ op.kind \in FileOps /\ Here \in Cases /\ op.to \in Root
      /\ Source(f) \in disk[op.to][Here]
  BY SourceFacts
<1>2. op.kind # "extract" /\ op.kind # "none"
  BY <1>1 DEF FileOps, Removers, Rewriters
<1>3. \A r \in Root, c \in Cases : disk'[r][c] # {} => disk[r][c] # {}
  BY <1>1, PutFacts
<1> QED
  BY <1>2, <1>3, SameFolders, SameShares, SameLast DEF CountInv

LEMMA FailsCounts ==
  ASSUME CountInv, Fails
  PROVE  CountInv'
<1>1. /\ op' = Idle /\ ~last'.ok /\ UNCHANGED <<disk, folders, mem>>
  BY DEF Fails, Ended
<1>2. FoldersInv'
  BY <1>1, SameFolders DEF CountInv
<1> QED
  BY <1>1, <1>2, IdleFacts, SameShares, NothingLast DEF CountInv

LEMMA ListCaseCounts == Inv /\ CountInv /\ ListCase => CountInv'
<1> SUFFICES ASSUME Inv, CountInv, ListCase, ~Fails PROVE CountInv'
  BY FailsCounts
<1>1. op.kind \in FileOps
  BY DEF ListCase, AtCase, InFiles
<1>2. op.kind # "none" /\ op.kind # "extract" /\ op \in Op
  BY <1>1 DEF FileOps, Removers, Rewriters, Inv, Types
<1>3. PICK c \in op.todo : \E N :
        /\ op' = [op EXCEPT !.todo = @ \ {c}, !.case = {c}, !.names = N]
        /\ UNCHANGED <<disk, folders, mem, last>>
  BY DEF ListCase
<1>4. op'.kind = op.kind
  BY <1>2, <1>3 DEF Op
<1> QED
  BY <1>2, <1>3, <1>4, SameFolders, SameShares, SameLast DEF CountInv

LEMMA RemoveFileCounts == Inv /\ CountInv /\ RemoveFile => CountInv'
<1> SUFFICES ASSUME Inv, CountInv, RemoveFile PROVE CountInv'
  OBVIOUS
<1>1. PICK f \in op.names : Put({Source(f)}, {}) /\ op' = [op EXCEPT !.names = @ \ {f}]
  BY DEF RemoveFile
<1>2. op'.kind = op.kind /\ UNCHANGED <<folders, mem, last>>
  BY <1>1 DEF RemoveFile, Inv, Types, Op
<1> QED
  BY <1>1, <1>2, PutCounts

LEMMA WriteBesideCounts == Inv /\ CountInv /\ WriteBeside => CountInv'
<1> SUFFICES ASSUME Inv, CountInv, WriteBeside PROVE CountInv'
  OBVIOUS
<1>1. PICK f \in op.names :
         /\ \E F : op' = [op EXCEPT !.names = @ \ {f}, !.open = F]
         /\ \/ UNCHANGED disk
            \/ Put({e \in disk[op.to][Here] : e.name = f /\ e.tmp},
                   {[Source(f) EXCEPT !.tmp = TRUE, !.whole = FALSE]})
  BY DEF WriteBeside
<1>2. op'.kind = op.kind /\ UNCHANGED <<folders, mem, last>>
  BY <1>1 DEF WriteBeside, Inv, Types, Op
<1>3. op.kind \in FileOps /\ [Source(f) EXCEPT !.tmp = TRUE, !.whole = FALSE] \in AnyEntry
  BY SourceFacts DEF AnyEntry
<1>4. op.kind # "none" /\ op.kind # "extract"
  BY <1>3 DEF FileOps, Removers, Rewriters
<1>5. CASE UNCHANGED disk
  BY <1>2, <1>4, <1>5, SameFolders, SameShares, SameLast DEF CountInv
<1> QED
  BY <1>1, <1>2, <1>3, <1>5, PutCounts

LEMMA MoveOverCounts == Inv /\ CountInv /\ MoveOver => CountInv'
<1> SUFFICES ASSUME Inv, CountInv, MoveOver PROVE CountInv'
  OBVIOUS
<1>1. PICK f \in op.open :
        /\ Put({e \in disk[op.to][Here] : e.name = f}, {Rewritten(Source(f))})
        /\ op' = [op EXCEPT !.open = {}, !.hits = @ + 1]
  BY DEF MoveOver
<1>2. op'.kind = op.kind /\ UNCHANGED <<folders, mem, last>>
  BY <1>1 DEF MoveOver, Inv, Types, Op
<1>3. Rewritten(Source(f)) \in AnyEntry
  BY SourceFacts DEF Rewritten, AnyEntry
<1> QED
  BY <1>1, <1>2, <1>3, PutCounts

(* The index that follows a cleaning lists what is there.                    *)
LEMMA EndFilesCounts == Inv /\ CountInv /\ EndFiles => CountInv'
<1> SUFFICES ASSUME Inv, CountInv, EndFiles PROVE CountInv'
  OBVIOUS
<1>1. /\ op.kind \in FileOps /\ op.to \in Root /\ mem' \in Index(op.to)
      /\ UNCHANGED <<disk, folders>>
  BY DEF EndFiles, AtCase, InFiles, Inv, ModeInv, Types, Op, FileOps, Removers, Rewriters
<1>2. op.kind # "none" /\ op.kind # "extract" /\ op \in Op
  BY <1>1 DEF FileOps, Removers, Rewriters, Inv, Types
<1>3. mem'.root = op.to /\ mem'.cases = Visible(op.to)
  BY <1>1, IndexFacts DEF Inv
<1>4. FoldersInv'
  BY <1>1, SameFolders DEF CountInv
<1>5. CASE Ended(TRUE, {})
  <2>1. op' = Idle /\ last'.kind # "extract"
    BY <1>2, <1>5 DEF Ended
  <2>2. ShareInv'
    BY <1>1, <2>1, IdleFacts, NewShares DEF Inv, CountInv
  <2>3. FreshInv'
    BY <1>1, <1>3 DEF FreshInv, Visible
  <2> QED
    BY <1>4, <2>1, <2>2, <2>3 DEF CountInv, SampleBounded
<1>6. CASE ~Ended(TRUE, {})
  <2>1. /\ op' = [op EXCEPT !.todo = mem'.cases, !.case = {}, !.hits = 0]
        /\ UNCHANGED last
    BY <1>6 DEF EndFiles
  <2>2. op'.kind # "extract"
    BY <1>2, <2>1 DEF Op
  <2>3. ShareInv'
    BY <1>1, <2>2, NewShares DEF Inv, CountInv
  <2> QED
    BY <1>2, <1>4, <2>1, <2>3, SameLast DEF CountInv
<1> QED
  BY <1>5, <1>6
-------------------------------------------------------------------------------
(* A share, cut to an integer, is no more than the part in proportion.       *)
LEMMA CutShare ==
  ASSUME NEW t \in Nat \ {0}, NEW a \in Nat, NEW n \in Nat
  PROVE  (a * n) \div t \in Nat /\ t * ((a * n) \div t) <= n * a
<1>1. \A z \in Nat : z \div t \in Nat /\ t * (z \div t) <= z
  OBVIOUS
<1>2. a * n \in Nat /\ a * n = n * a
  OBVIOUS
<1> DEFINE z == a * n
<1> HIDE DEF z
<1>3. z \in Nat /\ z = n * a
  BY <1>2 DEF z
<1>4. z \div t \in Nat /\ t * (z \div t) <= z
  BY <1>1, <1>3
<1> QED
  BY <1>3, <1>4 DEF z

(* What a class adds to the sample stays within its share.                   *)
LEMMA ShareGrows ==
  ASSUME NEW t \in Nat, NEW x \in Nat, NEW y \in Nat, NEW n \in Nat, NEW f \in Nat,
         NEW a \in Nat, NEW u \in Nat,
         t * x <= n * f, u <= x + y,
         y <= IF t = 0 THEN 0 ELSE (a * n) \div t
  PROVE  t * u <= n * (f + a)
<1>1. n * (f + a) = n * f + n * a /\ n * a \in Nat /\ n * f \in Nat
  OBVIOUS
<1>2. t * y <= n * a
  <2>1. CASE t = 0
    BY <2>1, <1>1
  <2>2. CASE t # 0
    <3> DEFINE q == (a * n) \div t
    <3>1. q \in Nat /\ t * q <= n * a /\ y <= q
      BY <2>2, CutShare
    <3> HIDE DEF q
    <3>2. t * y <= t * q
      BY <3>1
    <3>3. t * y \in Nat /\ t * q \in Nat
      BY <3>1
    <3> QED
      BY <1>1, <3>1, <3>2, <3>3
  <2> QED
    BY <2>1, <2>2
<1>3. t * u <= t * (x + y) /\ t * (x + y) = t * x + t * y
  OBVIOUS
<1>4. t * u \in Nat /\ t * x \in Nat /\ t * y \in Nat
  OBVIOUS
<1> QED
  BY <1>1, <1>2, <1>3, <1>4

LEMMA SmallerOfTwo ==
  ASSUME NEW a \in Nat, NEW b \in Nat
  PROVE  Min({a, b}) <= b
BY DEF Min

(* One class after the other, the sample stays in proportion.                *)
LEMMA NextClassCounts == Inv /\ CountInv /\ NextClass => CountInv'
<1> SUFFICES ASSUME Inv, CountInv, NextClass PROVE CountInv'
  OBVIOUS
<1>1. /\ op.kind = "extract" /\ op.class < Len(mem.classes)
      /\ UNCHANGED <<disk, folders, mem, last>>
  BY DEF NextClass
<1>2. PICK S \in SUBSET Candidates(op.class + 1) :
        /\ Cardinality(S) = Min({Cardinality(Candidates(op.class + 1)),
                                 Quota(op.class + 1, op.n)})
        /\ op' = [op EXCEPT !.class = op.class + 1, !.todo = S, !.case = @ \union S]
  BY DEF NextClass
<1>3. /\ op.class \in Nat /\ op.n \in Nat /\ op'.class = op.class + 1
      /\ op'.n = op.n /\ op'.case = op.case \union S
  BY <1>1, <1>2 DEF Inv, Types, Op
<1>4. mem.root # "none" /\ mem.cases \subseteq Cases
  BY <1>1 DEF Inv, ModeInv, Types, Root, Derived
<1>5. PICK s \in Seq(ToSet(Classes)) : Listing(s) /\ Proportion(s)
  BY <1>4 DEF CountInv, ShareInv
<1> DEFINE i == op.class + 1
           t == Cardinality(mem.cases)
           f == Cardinality(OfClass(mem.cases, FirstOf(s, op.class)))
           a == Cardinality(OfClass(mem.cases, {s[i]}))
<1>6. op.class \in Nat /\ i \in 1..Len(s) /\ mem.counts[i] = a
  BY <1>1, <1>3, <1>5 DEF Listing
<1>7. /\ op.case \subseteq mem.cases /\ t * Cardinality(op.case) <= op.n * f
  BY <1>1, <1>5 DEF Proportion
<1>8. S \subseteq mem.cases
  BY DEF Candidates
<1>9. /\ t \in Nat /\ f \in Nat /\ a \in Nat
      /\ IsFiniteSet(S) /\ Cardinality(S) \in Nat
      /\ IsFiniteSet(op.case) /\ Cardinality(op.case) \in Nat
      /\ Cardinality(op.case \union S) \in Nat
      /\ Cardinality(Candidates(i)) \in Nat
  <2>1. /\ OfClass(mem.cases, FirstOf(s, op.class)) \in SUBSET Cases
        /\ OfClass(mem.cases, {s[i]}) \in SUBSET Cases
        /\ Candidates(i) \in SUBSET Cases
    BY <1>4 DEF OfClass, Candidates
  <2> QED
    BY <1>4, <1>7, <1>8, <2>1, FiniteCases
<1>10. Cardinality(op.case \union S) <= Cardinality(op.case) + Cardinality(S)
  <2>1. /\ Cardinality(op.case \union S)
             = Cardinality(op.case) + Cardinality(S) - Cardinality(op.case \intersect S)
        /\ Cardinality(op.case \intersect S) \in Nat
    BY <1>9, FS_Union, FS_Intersection, FS_CardinalityType
  <2> QED
    BY <1>9, <2>1
<1>11. Cardinality(S) <= IF t = 0 THEN 0 ELSE (a * op.n) \div t
  <2> DEFINE q == IF t = 0 THEN 0 ELSE (a * op.n) \div t
  <2>1. q \in Nat
    BY <1>3, <1>9, CutShare
  <2>2. Quota(i, op.n) = q
    BY <1>6 DEF Quota
  <2> HIDE DEF q
  <2> QED
    BY <1>2, <1>9, <2>1, <2>2, SmallerOfTwo DEF q
<1>12. Cardinality(OfClass(mem.cases, FirstOf(s, i))) = f + a
  BY <1>4, <1>5, <1>6, FirstGrows DEF Listing
<1> HIDE DEF t, f, a
<1>13. t * Cardinality(op.case \union S) <= op.n * (f + a)
  BY <1>3, <1>7, <1>9, <1>10, <1>11, ShareGrows
<1>14. Proportion(s)'
  <2>1. op'.class = i /\ i <= Len(s) /\ op.case \union S \subseteq mem.cases
    BY <1>3, <1>6, <1>7, <1>8
  <2>2. OfClass(mem.cases, FirstOf(s, op.class))' = OfClass(mem.cases, FirstOf(s, i))
    BY <2>1, <1>1 DEF OfClass
  <2> QED
    BY <1>1, <1>3, <1>12, <1>13, <2>1, <2>2 DEF Proportion, t
<1>15. Listing(s)'
  BY <1>1, <1>5 DEF Listing
<1>16. ShareInv'
  BY <1>14, <1>15 DEF ShareInv
<1> QED
  BY <1>1, <1>16, SameFolders, SameLast DEF CountInv

LEMMA OpenOtherCounts == Inv /\ CountInv /\ OpenOther => CountInv'
<1> SUFFICES ASSUME Inv, CountInv, OpenOther, ~Fails PROVE CountInv'
  BY FailsCounts
<1>1. op.kind = "inverse" /\ op \in Op
  BY DEF OpenOther, Inv, Types
<1>2. /\ UNCHANGED <<disk, folders, mem, last>>
      /\ \E S : op' = [op EXCEPT !.class = 1, !.todo = S, !.case = S]
  BY DEF OpenOther
<1>3. op'.kind = "inverse"
  BY <1>1, <1>2 DEF Op
<1> QED
  BY <1>1, <1>2, <1>3, SameFolders, SameShares, SameLast DEF CountInv

LEMMA CopyCaseCounts == Inv /\ CountInv /\ CopyCase => CountInv'
<1> SUFFICES ASSUME Inv, CountInv, CopyCase, ~Fails PROVE CountInv'
  BY FailsCounts
<1>1. op.kind \in {"extract", "inverse"} /\ op \in Op
  BY DEF CopyCase, Deriving, Inv, Types
<1>2. PICK c \in op.todo :
        /\ CopyOf(Below(c) \intersect Visible(mem.root))
        /\ op' = [op EXCEPT !.todo = @ \ {c}]
        /\ UNCHANGED <<mem, last>>
  BY DEF CopyCase
<1>3. FoldersInv'
  <2>1. Below(c) \intersect Visible(mem.root) \in SUBSET Cases
    BY DEF Visible
  <2> QED
    BY <1>1, <1>2, <2>1, CopyFolders DEF CountInv
<1>4. op'.kind = op.kind /\ op'.class = op.class /\ op'.case = op.case /\ op'.n = op.n
  BY <1>1, <1>2 DEF Op
<1> QED
  BY <1>1, <1>2, <1>3, <1>4, SameShares, SameLast DEF CountInv

LEMMA StopCopyingCounts == Inv /\ CountInv /\ StopCopying => CountInv'
<1> SUFFICES ASSUME Inv, CountInv, StopCopying PROVE CountInv'
  OBVIOUS
<1>1. op.kind \in {"extract", "inverse"} /\ mem' = Closed /\ last' = Nothing
  BY DEF StopCopying, Deriving
<1>2. PICK c \in op.todo : \E d \in Below(c) : \E new :
        /\ disk' = [disk EXCEPT ![op.to][d] = new]
        /\ folders' = [folders EXCEPT ![op.to] = @ \union {ClassOf[d]}]
  BY DEF StopCopying
<1>3. PICK d \in Below(c) : \E new :
        /\ disk' = [disk EXCEPT ![op.to][d] = new]
        /\ folders' = [folders EXCEPT ![op.to] = @ \union {ClassOf[d]}]
  BY <1>2
<1>4. d \in Cases /\ op.to \in Root /\ ClassOf[d] \in ToSet(Classes)
  BY <1>1, DerivingFacts, BelowCases, FilesAssumption
<1>5. /\ \A r \in Root, x \in Cases : r # op.to \/ x # d => disk'[r][x] = disk[r][x]
      /\ folders' \in [Root -> SUBSET ToSet(Classes)]
      /\ folders'[op.to] = folders[op.to] \union {ClassOf[d]}
      /\ \A r \in Root \ {op.to} : folders'[r] = folders[r]
  BY <1>3, <1>4 DEF Inv, Types, CountInv, FoldersInv
<1>6. FoldersInv'
  BY <1>5 DEF CountInv, FoldersInv
<1> QED
  BY <1>1, <1>6, ClosedShares, NothingLast, NothingKind DEF CountInv

(* The sample has come to its end: all the classes are counted.              *)
LEMMA CopySummaryCounts == Inv /\ CountInv /\ CopySummary => CountInv'
<1> SUFFICES ASSUME Inv, CountInv, CopySummary, ~Fails PROVE CountInv'
  BY FailsCounts
<1>1. \/ op.kind = "inverse"
      \/ op.kind = "extract" /\ op.class = Len(mem.classes)
  BY DEF CopySummary
<1>2. UNCHANGED <<disk, folders, mem>> /\ Ended(TRUE, op.case)
  BY DEF CopySummary
<1>3. op' = Idle /\ last'.kind = op.kind /\ last'.chosen = op.case /\ last'.asked = op.n
  BY <1>2 DEF Ended
<1>4. SampleBounded'
  <2>1. CASE op.kind = "inverse"
    BY <1>3, <2>1 DEF SampleBounded
  <2>2. CASE op.kind = "extract"
    <3>1. op.n \in Nat /\ mem.cases \subseteq Cases /\ mem.root # "none"
      BY <2>2 DEF Inv, Types, Op, ModeInv, Root, Derived
    <3>2. PICK s \in Seq(ToSet(Classes)) : Listing(s) /\ Proportion(s)
      BY <3>1 DEF CountInv, ShareInv
    <3> DEFINE t == Cardinality(mem.cases)
    <3>3. OfClass(mem.cases, FirstOf(s, op.class)) = mem.cases
      BY <1>1, <2>2, <3>2, FirstAll DEF Listing
    <3>4. op.case \subseteq mem.cases /\ t * Cardinality(op.case) <= op.n * t
      BY <2>2, <3>2, <3>3 DEF Proportion
    <3>5. IsFiniteSet(mem.cases) /\ t \in Nat /\ Cardinality(op.case) \in Nat
      BY <3>1, <3>4, FiniteCases
    <3>6. Cardinality(op.case) <= t
      BY <3>4, <3>5, FS_Subset
    <3> HIDE DEF t
    <3>7. Cardinality(op.case) <= op.n
      <4>1. CASE t = 0
        BY <3>1, <3>5, <3>6, <4>1
      <4>2. CASE t # 0
        <5> SUFFICES ASSUME op.n + 1 <= Cardinality(op.case) PROVE FALSE
          BY <3>1, <3>5
        <5>1. t * (op.n + 1) <= t * Cardinality(op.case) /\ t * (op.n + 1) = op.n * t + t
          BY <3>1, <3>5
        <5>2. t * Cardinality(op.case) \in Nat /\ op.n * t \in Nat
          BY <3>1, <3>5
        <5> QED
          BY <3>4, <3>5, <4>2, <5>1, <5>2
      <4> QED
        BY <4>1, <4>2
    <3> QED
      BY <1>3, <3>7 DEF SampleBounded
  <2> QED
    BY <1>1, <2>1, <2>2
<1>5. FreshInv'
  BY <1>1, <1>3 DEF FreshInv, FileOps, Removers, Rewriters
<1>6. FoldersInv' /\ ShareInv'
  BY <1>2, <1>3, IdleFacts, SameFolders, SameShares DEF CountInv
<1> QED
  BY <1>4, <1>5, <1>6 DEF CountInv

LEMMA CopyAllCounts == Inv /\ CountInv /\ CopyAll => CountInv'
<1> SUFFICES ASSUME Inv, CountInv, CopyAll PROVE CountInv'
  OBVIOUS
<1>1. op.kind = "copy"
  BY DEF CopyAll
<1>2. PICK S \in SUBSET Visible(mem.root) :
        /\ CopyOf(S)
        /\ \/ Ended(TRUE, S) /\ UNCHANGED mem
           \/ mem' = Closed /\ op' = Idle /\ last' = Nothing
  BY DEF CopyAll
<1>3. op' = Idle /\ last'.kind \notin FileOps \union {"extract"}
  BY <1>1, <1>2, NothingKind DEF Ended, FileOps, Removers, Rewriters
<1>4. FoldersInv'
  <2>1. S \in SUBSET Cases
    BY DEF Visible
  <2> QED
    BY <1>1, <1>2, <2>1, CopyFolders DEF CountInv
<1>5. ShareInv'
  BY <1>2, <1>3, IdleFacts, SameShares, ClosedShares DEF CountInv
<1> QED
  BY <1>3, <1>4, <1>5, NothingLast DEF CountInv
-------------------------------------------------------------------------------
LEMMA OpenCounts == Inv /\ CountInv /\ Open => CountInv'
<1> SUFFICES ASSUME Inv, CountInv, Open PROVE CountInv'
  OBVIOUS
<1>1. PICK r \in Root : mem' \in Index(r)
  BY DEF Open
<1>2. op.kind = "none" /\ last' = Nothing /\ UNCHANGED <<disk, folders, op>>
  BY DEF Open
<1>3. FoldersInv'
  BY <1>2, SameFolders DEF CountInv
<1>4. ShareInv'
  BY <1>1, <1>2, NewShares DEF Inv, CountInv
<1> QED
  BY <1>2, <1>3, <1>4, NothingLast, NothingKind DEF CountInv

LEMMA StopCounts == CountInv /\ Stop => CountInv'
<1> SUFFICES ASSUME CountInv, Stop PROVE CountInv'
  OBVIOUS
<1>1. mem' = Closed /\ last' = Nothing /\ UNCHANGED <<disk, folders>>
  BY DEF Stop
<1> QED
  BY <1>1, SameFolders, ClosedShares, NothingLast, NothingKind DEF CountInv

LEMMA RefusedCounts == CountInv /\ Refused => CountInv'
<1> SUFFICES ASSUME CountInv, Refused PROVE CountInv'
  OBVIOUS
<1>1. ~last'.ok /\ UNCHANGED <<disk, folders, mem, op>>
  BY DEF Refused, Nothing
<1> QED
  BY <1>1, SameFolders, SameShares, NothingLast DEF CountInv

LEMMA StartFilesCounts == CountInv /\ StartFiles => CountInv'
<1> SUFFICES ASSUME CountInv, StartFiles PROVE CountInv'
  OBVIOUS
<1>1. PICK kind \in FileOps :
        /\ op' = [Idle EXCEPT !.kind = kind, !.to = mem.root, !.todo = mem.cases]
        /\ last' = Nothing /\ UNCHANGED <<disk, folders, mem>>
  BY DEF StartFiles, Started
<1>2. op'.kind # "extract"
  BY <1>1 DEF Idle, FileOps, Removers, Rewriters
<1> QED
  BY <1>1, <1>2, SameFolders, SameShares, NothingLast, NothingKind DEF CountInv

(* An extraction starts with no test case and no class.                      *)
LEMMA StartDerivedCounts == Inv /\ CountInv /\ StartDerived => CountInv'
<1> SUFFICES ASSUME Inv, CountInv, StartDerived PROVE CountInv'
  OBVIOUS
<1>1. PICK kind \in {"extract", "inverse", "copy"}, to \in Derived \ {mem.root},
           from \in Root, n \in Samples :
        /\ op' = [Idle EXCEPT !.kind = kind, !.to = to, !.from = from, !.n = n]
        /\ last' = Nothing /\ UNCHANGED mem
        /\ Removed(to)
  BY DEF StartDerived, Started
<1>2. /\ op'.class = 0 /\ op'.case = {} /\ op'.n = n /\ n \in Nat /\ to \in Root
      /\ mem.cases \subseteq Cases
  BY <1>1, FilesAssumption DEF Idle, Root, Inv, Types
<1>3. FoldersInv'
  <2>1. /\ disk' = [disk EXCEPT ![to] = [c \in Cases |-> {}]]
        /\ folders' = [folders EXCEPT ![to] = {}]
    BY <1>1 DEF Removed
  <2> QED
    BY <1>2, <2>1 DEF CountInv, FoldersInv, Inv, Types
<1>4. ShareInv'
  <2> SUFFICES ASSUME mem.root # "none"
               PROVE  \E s \in Seq(ToSet(Classes)) : Listing(s)' /\ Proportion(s)'
    BY <1>1 DEF ShareInv
  <2>1. PICK s \in Seq(ToSet(Classes)) : Listing(s)
    BY DEF CountInv, ShareInv
  <2>2. Proportion(s)'
    <3>1. Cardinality({}) = 0 /\ Cardinality(mem.cases) \in Nat
      BY <1>2, FS_EmptySet, FiniteCases
    <3>2. Cardinality(OfClass(mem.cases, FirstOf(s, 0))) = 0
      BY <1>2, FirstNone
    <3>3. OfClass(mem.cases, FirstOf(s, op.class))' = OfClass(mem.cases, FirstOf(s, 0))
      BY <1>1, <1>2 DEF OfClass
    <3>4. 0 <= Len(s) /\ Cardinality(mem.cases) * 0 <= n * 0
      BY <1>2, <3>1
    <3> QED
      BY <1>1, <1>2, <3>1, <3>2, <3>3, <3>4 DEF Proportion
  <2>3. Listing(s)'
    BY <1>1, <2>1 DEF Listing
  <2> QED
    BY <2>2, <2>3
<1> QED
  BY <1>1, <1>3, <1>4, NothingLast, NothingKind DEF CountInv

LEMMA InitCounts == Init => CountInv
<1> SUFFICES ASSUME Init PROVE CountInv
  OBVIOUS
<1>1. mem = Closed /\ last = Nothing
  BY DEF Init
<1>2. FoldersInv
  BY FilesAssumption DEF Init, FoldersInv, Root
<1>3. ShareInv
  BY <1>1, IdleFacts DEF ShareInv
<1> QED
  BY <1>1, <1>2, <1>3, IdleFacts DEF CountInv, FreshInv, SampleBounded

LEMMA StutterCounts == CountInv /\ UNCHANGED vars => CountInv'
<1> SUFFICES ASSUME CountInv, UNCHANGED vars PROVE CountInv'
  OBVIOUS
<1>1. UNCHANGED <<disk, folders, mem, op, last>>
  BY DEF vars
<1> QED
  BY <1>1, SameFolders, SameShares DEF CountInv, FreshInv, SampleBounded, Visible

LEMMA Counting == Spec => []CountInv
<1>1. Inv /\ CountInv /\ [Next]_vars => CountInv'
  <2> SUFFICES ASSUME Inv, CountInv, [Next]_vars PROVE CountInv'
    OBVIOUS
  <2>1. CASE FileRaises
    BY <2>1, FailsCounts DEF FileRaises
  <2>2. CASE Step
    BY <2>2, ListCaseCounts, RemoveFileCounts, WriteBesideCounts, MoveOverCounts,
       EndFilesCounts, NextClassCounts, OpenOtherCounts, CopyCaseCounts, CopySummaryCounts,
       CopyAllCounts DEF Step
  <2> QED
    BY <2>1, <2>2, OpenCounts, StopCounts, StartFilesCounts, StartDerivedCounts,
       RefusedCounts, StopCopyingCounts, StutterCounts DEF Next
<1> QED
  BY <1>1, InitCounts, Inductive, PTL DEF Spec

(* A sample never has more test cases than were asked for: the shares of the *)
(* classes are cut to integers, and add up to no more than the whole         *)
(* (extract.py), in whatever order the directory was listed.                 *)
THEOREM SamplesAreBounded == Spec => []SampleBounded
<1>1. CountInv => SampleBounded
  BY DEF CountInv
<1> QED
  BY <1>1, Counting, PTL

(* After a cleaning the object lists the test cases that are on disk, and    *)
(* the counts of its classes add up to them (rebuild_index).                 *)
THEOREM CleaningsAreIndexed == Spec => []IndexAfterCleaning
<1>1. Inv /\ CountInv => IndexAfterCleaning
  <2> SUFFICES ASSUME Inv, CountInv, last.kind \in FileOps, last.ok
               PROVE  /\ mem.cases = Visible(mem.root)
                      /\ FoldLeft(+, 0, mem.counts) = Cardinality(mem.cases)
    BY DEF IndexAfterCleaning
  <2>1. mem.cases = Visible(mem.root) /\ mem.cases \subseteq Cases
    BY DEF CountInv, FreshInv, Inv, Types
  <2>2. PICK s \in Seq(ToSet(Classes)) : Listing(s)
    BY DEF CountInv, FreshInv, ShareInv, Root, Derived
  <2> QED
    BY <2>1, <2>2, CountsAddUp
<1> QED
  BY <1>1, Inductive, Counting, PTL
===============================================================================
