------------------------------- MODULE Pipeline -------------------------------
(***************************************************************************)
(* What the programs of src/scripts make of one dataset, one after the     *)
(* other and in any order: Joern's database, the CSV files of the import,  *)
(* the Neo4J database with its markup, the feature map and features.csv.   *)
(* Each program runs the steps of its operations; it may fail or be        *)
(* stopped at any of them.  The feature map belongs to all datasets whose  *)
(* directories have the same name.                                         *)
(***************************************************************************)
EXTENDS Integers, FiniteSetsExt, SequencesExt

CONSTANTS
  Id,           \* nodes of the database, as their numbers
  Type,         \* the type of each node
  Parent,       \* its parent in the syntax tree, or 0
  ChildNum,     \* its place among the children of its parent
  Flow,         \* <<a, b>>: flows, by the version of the sources
  Joined,       \* the flows once the functions are joined
  FirstRows,    \* the nodes that may be in the first row of the first file
  Foreign,      \* labels that datasets of the same name have
  Limit,        \* markups in a bundle; 2000 in the code
  MaxVersion,   \* bound: how often the sources are changed
  MaxPrograms   \* bound: programs that are run

None     == -1
Unmarked == <<"none">>

ASSUME PipelineAssumption ==
  /\ Id \subseteq Nat \ {0} /\ IsFiniteSet(Id) /\ FirstRows \subseteq Id
  /\ Limit \in Nat \ {0} /\ MaxVersion \in Nat /\ MaxPrograms \in Nat
  /\ Flow \in [1..(MaxVersion + 1) -> SUBSET (Id \X Id)] /\ Joined \subseteq Id \X Id

VARIABLES
  source,     \* version of the source files
  parse,      \* joern.db: the version that was parsed, or None
  import,     \* nodes.csv and edges.csv: the versions they are of
  db,         \* neo4j_v3.db: its nodes and what was done to them
  ast,        \* the markup of each node
  map,        \* the feature map
  features,   \* features.csv
  job,        \* the program that is run: steps left, labels and bundles it holds
  last,       \* ghost: the last markup that came to its end
  mapped,     \* ghost: labels that map runs of this dataset have found and saved
  programs    \* number of programs started

vars == <<source, parse, import, db, ast, map, features, job, last, mapped, programs>>

Idle     == [todo |-> <<>>, labels |-> {}, bundles |-> <<>>, version |-> 0, failed |-> FALSE]
NoDb     == [exists |-> FALSE, ver |-> None, nodes |-> {}, annotated |-> FALSE, joined |-> FALSE]
NoTable  == [complete |-> FALSE, header |-> {}, rows |-> {}, mapped |-> {}]

Init == /\ source = 0
        /\ parse = [ver |-> None, whole |-> TRUE]
        /\ import = [nodes |-> None, edges |-> None, lost |-> {}]
        /\ db = NoDb
        /\ ast = [n \in Id |-> Unmarked]
        /\ map = [labels |-> {}, readable |-> TRUE]
        /\ features = NoTable
        /\ job = Idle
        /\ last = [version |-> 0, failed |-> FALSE]
        /\ mapped = {}
        /\ programs = 0
-------------------------------------------------------------------------------
(* The programs, as the steps of the operations that they queue.             *)

RunJoern040   == <<"parse", "nodes", "edges", "import", "annotate">>
RunJoern031   == <<"parse031", "convert", "annotate">>
RunMarkup     == <<"find", "mark">>
RunInterproc  == <<"join">>
MapFeatures   == <<"labels", "save", "dump">>
Extract       == <<"rows", "open", "write">>
Clean         == <<"clean">>

Start ==
  /\ job.todo = <<>> /\ programs < MaxPrograms
  /\ \E p \in {RunJoern040, RunJoern031, RunMarkup, RunInterproc, MapFeatures, Extract, Clean},
        v \in 1..3 :
       /\ p # RunMarkup => v = 1
       /\ p = RunJoern031 => parse.ver = None
       /\ job' = [Idle EXCEPT !.todo = p, !.version = v]
  /\ programs' = programs + 1
  /\ UNCHANGED <<source, parse, import, db, ast, map, features, last, mapped>>

At(step) == job.todo # <<>> /\ Head(job.todo) = step
Goes     == job' = [job EXCEPT !.todo = Tail(@)]
Ends     == job' = Idle

(* An operation raises, which clears the queue, or the program is stopped.   *)
Ended == /\ job.todo # <<>>
         /\ Ends
         /\ UNCHANGED <<source, parse, import, db, ast, map, features, last, mapped, programs>>

(* Cleaning and tokenizing replace the sources.                              *)
CleanSources == /\ At("clean") /\ source < MaxVersion
                /\ source' = source + 1
                /\ Goes
                /\ UNCHANGED <<parse, import, db, ast, map, features, last, mapped, programs>>
-------------------------------------------------------------------------------
(* Joern 0.4.0: the image refuses to replace joern.db.  When the container   *)
(* is killed while it moves its output, what is there stays there.           *)

(* Mutant of Parse: convert.sh replaces the database.                        *)
ParseAgain == /\ At("parse")
              /\ parse' = [ver |-> source, whole |-> TRUE]
              /\ Goes
              /\ UNCHANGED <<source, import, db, ast, map, features, last, mapped, programs>>

Parse == /\ At("parse")
         /\ IF parse.ver = None
            THEN /\ \E done \in BOOLEAN :
                      /\ parse' = [ver |-> source, whole |-> done]
                      /\ IF done THEN Goes ELSE Ends
            ELSE Ends /\ UNCHANGED parse
         /\ UNCHANGED <<source, import, db, ast, map, features, last, mapped, programs>>

(* The rows of all files in one.  The first file gives the header; its next  *)
(* row is left out as if it were the header, unless Joern has put nothing    *)
(* but a directory there.                                                    *)
WriteNodes == /\ At("nodes")
              /\ \E first \in SUBSET FirstRows :
                   /\ Cardinality(first) <= 1
                   /\ import' = [import EXCEPT !.nodes = parse.ver, !.lost = first]
              /\ Goes
              /\ UNCHANGED <<source, parse, db, ast, map, features, last, mapped, programs>>

WriteEdges == /\ At("edges")
              /\ import' = [import EXCEPT !.edges = parse.ver]
              /\ Goes
              /\ UNCHANGED <<source, parse, db, ast, map, features, last, mapped, programs>>

(* neo4j-admin imports into a database that does not exist yet; that it does *)
(* not is not looked at, and the server starts with what there is.           *)
Empty(d) == [d EXCEPT !.exists = TRUE]
Import == /\ At("import")
          /\ \/ db' = Empty(db)
             \/ /\ ~db.exists
                /\ db' = [NoDb EXCEPT !.exists = TRUE, !.ver = import.nodes,
                                      !.nodes = Id \ import.lost]
          /\ Goes
          /\ UNCHANGED <<source, parse, import, ast, map, features, last, mapped, programs>>

(* The first failing command ends the annotation, and is not an error.       *)
Annotate == /\ At("annotate")
            /\ \E done \in BOOLEAN : db' = [Empty(db) EXCEPT !.annotated = @ \/ done]
            /\ Goes
            /\ UNCHANGED <<source, parse, import, ast, map, features, last, mapped, programs>>

(* Joern 0.3.1 writes a database of its own.  What it does with one that is  *)
(* there is not in the repository: it is run on a dataset without.           *)
Parse031 == /\ At("parse031")
            /\ parse' = [ver |-> source, whole |-> TRUE]
            /\ Goes
            /\ UNCHANGED <<source, import, db, ast, map, features, last, mapped, programs>>

(* The database is copied; the directory must not exist, and a copy that is  *)
(* stopped leaves it.                                                        *)
Convert == /\ At("convert")
           /\ IF db.exists THEN Ends /\ UNCHANGED db
              ELSE \E done \in BOOLEAN :
                     /\ db' = [NoDb EXCEPT !.exists = TRUE, !.ver = parse.ver,
                                           !.nodes = IF done THEN Id ELSE {}]
                     /\ IF done THEN Goes ELSE Ends
           /\ UNCHANGED <<source, parse, import, ast, map, features, last, mapped, programs>>
-------------------------------------------------------------------------------
(* AST markup.                                                               *)

Flows       == IF db.ver = None THEN {}
               ELSE {f \in Flow[db.ver + 1] \union (IF db.joined THEN Joined ELSE {}) :
                       f[1] \in db.nodes /\ f[2] \in db.nodes}
Children(n) == {c \in db.nodes : Parent[c] = n}
Below(n)    == FoldSet(LAMBDA i, S : S \union UNION {Children(c) : c \in S}, Children(n),
                       1..Cardinality(Id))
InOrder(S, num) == SetToSortSeq(S, LAMBDA a, b : num[a] < num[b])
Types(s)    == [i \in DOMAIN s |-> Type[s[i]]]

(* v01: the types of all that is below, by number of the node.               *)
Markup1(n) == <<1, Types(InOrder(Below(n), [c \in Id |-> c]))>>

(* v02: the tree, rebuilt from the list of what is below.                    *)
Markup2(n) ==
  LET Tree[m \in Id] == LET kids == InOrder(Children(m), ChildNum)
                        IN  <<Type[m], [i \in DOMAIN kids |-> Tree[kids[i]]]>>
  IN  <<2, Tree[n]>>

(* v03: a row for each child, if there is one.                               *)
Markups3(n) == IF Children(n) = {} THEN {<<3, Type[n]>>}
               ELSE {<<3, IF Type[c] = "Call" \/ Type[n] = "Expression" THEN Type[c] ELSE Type[n]>> :
                       c \in Children(n)}

Roots(v) == CASE v = 1 -> {n \in db.nodes : Children(n) # {}}
              [] v = 2 -> {n \in db.nodes : \E f \in Flows : n \in {f[1], f[2]}}
              [] v = 3 -> {n \in db.nodes : db.annotated /\ \E f \in Flows : n = f[2]}

Markups(v, n) == CASE v = 1 -> {Markup1(n)} [] v = 2 -> {Markup2(n)} [] v = 3 -> Markups3(n)

(* Mutant of Rows: nodes are marked again.                                   *)
RowsOfAll(v) == UNION {{<<n, m>> : m \in Markups(v, n)} : n \in Roots(v)}

(* What is marked already is left as it is.                                  *)
Rows(v) == UNION {{<<n, m>> : m \in Markups(v, n)} : n \in {r \in Roots(v) : ast[r] = Unmarked}}

(* Mutant of Bundles: as many as are full.                                   *)
FullBundles(s) == [i \in 1..(Len(s) \div Limit) |-> SubSeq(s, (i - 1) * Limit + 1, i * Limit)]

(* Bundles of Limit rows; the last one has the rest, and may be empty.       *)
Bundles(s) == [i \in 1..(Len(s) \div Limit + 1) |->
                 SubSeq(s, (i - 1) * Limit + 1, Min({i * Limit, Len(s)}))]

Find == /\ At("find")
        /\ \E s \in SetToSeqs(Rows(job.version)) :
             job' = [job EXCEPT !.todo = Tail(@), !.bundles = Bundles(s)]
        /\ db' = Empty(db)
        /\ UNCHANGED <<source, parse, import, ast, map, features, last, mapped, programs>>

(* A bundle is marked, or fails and is left out.                             *)
Marked(s) == [n \in Id |-> LET mine == {k \in DOMAIN s : s[k][1] = n}
                           IN  IF mine = {} THEN ast[n] ELSE s[Max(mine)][2]]

Mark ==
  /\ At("mark") /\ job.bundles # <<>>
  /\ \/ /\ ast' = Marked(Head(job.bundles))
        /\ job' = [job EXCEPT !.bundles = Tail(@)]
     \/ /\ job' = [job EXCEPT !.bundles = Tail(@), !.failed = TRUE]
        /\ UNCHANGED ast
  /\ UNCHANGED <<source, parse, import, db, map, features, last, mapped, programs>>

MarkupEnds ==
  /\ At("mark") /\ job.bundles = <<>>
  /\ last' = [version |-> job.version, failed |-> job.failed]
  /\ Ends
  /\ UNCHANGED <<source, parse, import, db, ast, map, features, mapped, programs>>

(* The flows of the functions are joined (FlowGraph has the commands).       *)
Join == /\ At("join")
        /\ db' = [Empty(db) EXCEPT !.joined = TRUE]
        /\ last' = [last EXCEPT !.version = 0]
        /\ Goes
        /\ UNCHANGED <<source, parse, import, ast, map, features, mapped, programs>>
-------------------------------------------------------------------------------
(* The feature map and the features.                                         *)

Labels == IF db.annotated THEN {<<ast[f[1]], ast[f[2]]>> : f \in Flows} ELSE {}

FindLabels == /\ At("labels")
              /\ job' = [job EXCEPT !.todo = Tail(@), !.labels = Labels]
              /\ db' = Empty(db)
              /\ UNCHANGED <<source, parse, import, ast, map, features, last, mapped, programs>>

(* Mutant of WithLabels: the map of this dataset replaces that of all.       *)
OwnLabels(found) == found

(* save_labels_to_feature_map: a map that is not larger is not written, one  *)
(* that is larger is written over the old one.                               *)
WithLabels(found) == map.labels \union found

SaveMap ==
  /\ At("save")
  /\ IF ~map.readable THEN Ends /\ UNCHANGED <<map, mapped>>
     ELSE IF Cardinality(WithLabels(job.labels)) = Cardinality(map.labels)
     THEN Ends /\ mapped' = mapped \union job.labels /\ UNCHANGED map
     ELSE /\ Goes
          /\ map' = [map EXCEPT !.readable = FALSE]
          /\ UNCHANGED mapped
  /\ UNCHANGED <<source, parse, import, db, ast, features, last, programs>>

DumpMap == /\ At("dump")
           /\ map' = [labels |-> WithLabels(job.labels), readable |-> TRUE]
           /\ mapped' = mapped \union job.labels
           /\ Ends
           /\ UNCHANGED <<source, parse, import, db, ast, features, last, programs>>

(* Another dataset of that name has its labels mapped.                       *)
OthersMap == /\ map.readable
             /\ \E l \in Foreign : map' = [map EXCEPT !.labels = WithLabels({l})]
             /\ UNCHANGED <<source, parse, import, db, ast, features, job, last, mapped, programs>>

(* The rows are counted for the labels of the map as it is now.              *)
CountRows == /\ At("rows")
             /\ IF map.readable THEN job' = [job EXCEPT !.todo = Tail(@), !.labels = map.labels]
                ELSE Ends
             /\ db' = Empty(db)
             /\ UNCHANGED <<source, parse, import, ast, map, features, last, mapped, programs>>

OpenFeatures == /\ At("open")
                /\ features' = NoTable
                /\ Goes
                /\ UNCHANGED <<source, parse, import, db, ast, map, last, mapped, programs>>

(* Mutant of SameWidth: the number of labels is not compared.                *)
AnyWidth(header) == TRUE

(* The header is read from the map again, and has to be as long as the rows. *)
SameWidth(header) == Cardinality(header) = Cardinality(job.labels)

WriteFeatures ==
  /\ At("write")
  /\ IF map.readable /\ db.nodes # {} /\ SameWidth(map.labels)
     THEN features' = [complete |-> TRUE, header |-> map.labels, rows |-> job.labels,
                       mapped |-> mapped]
     ELSE UNCHANGED features
  /\ Ends
  /\ UNCHANGED <<source, parse, import, db, ast, map, last, mapped, programs>>
-------------------------------------------------------------------------------
Next == \/ Start \/ Ended \/ CleanSources
        \/ Parse \/ WriteNodes \/ WriteEdges \/ Import \/ Annotate \/ Parse031 \/ Convert
        \/ Find \/ Mark \/ MarkupEnds \/ Join
        \/ FindLabels \/ SaveMap \/ DumpMap \/ OthersMap
        \/ CountRows \/ OpenFeatures \/ WriteFeatures

Spec == Init /\ [][Next]_vars
-------------------------------------------------------------------------------
(* Joern's database, the files of the import and the graph are always of one *)
(* and the same version of the sources, however often run_joern.py is run,   *)
(* stopped and run again after a cleaning: the image for 0.4.0 and the       *)
(* converter refuse to replace what is there.                                *)
OneParse ==
  /\ {import.nodes, import.edges} \subseteq {None, parse.ver}
  /\ db.nodes # {} => db.ver = parse.ver

(* A markup run that came to its end without a failed bundle leaves no node  *)
(* unmarked that it is to mark, whatever earlier runs have left undone       *)
(* (the bundles of AbstractASTMarkup.send_commands).                         *)
MarkupComplete ==
  last.version # 0 /\ ~last.failed => \A n \in Roots(last.version) : ast[n] # Unmarked

(* The markup of a node never becomes that of another version: the labels    *)
(* that were mapped with it stay valid (WHERE NOT EXISTS in v01 to v03).     *)
MarkupKept == [][\A n \in Id : ast[n] # Unmarked => ast'[n][1] = ast[n][1]]_vars

(* A complete features.csv has the values under the labels they were counted *)
(* for, though the map may have grown meanwhile (write_extraction_outputs).  *)
HeaderMatchesRows == features.complete => features.header = features.rows

(* A label that was mapped for this dataset is a column of all features that *)
(* are extracted later: nothing that other datasets do with the map takes it *)
(* away (save_labels_to_feature_map).                                        *)
MappedIsCounted == features.complete => features.mapped \subseteq features.header
===============================================================================
