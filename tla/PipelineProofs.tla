---------------------------- MODULE PipelineProofs ----------------------------
(* Proofs of properties of Pipeline, for any graph, labels and bounds.       *)
EXTENDS Pipeline, FiniteSetTheorems, SequenceTheorems, TLAPS

(* What may be left of a program.                                            *)
Todos == { <<>>, RunJoern040, <<"nodes", "edges", "import", "annotate">>,
           <<"edges", "import", "annotate">>, <<"import", "annotate">>, <<"annotate">>,
           RunJoern031, <<"convert", "annotate">>, RunMarkup, <<"mark">>, RunInterproc,
           MapFeatures, <<"save", "dump">>, <<"dump">>,
           Extract, <<"open", "write">>, <<"write">>, Clean }
Programs == {RunJoern040, RunJoern031, RunMarkup, RunInterproc, MapFeatures, Extract, Clean}
Versions == {None} \union 0..MaxVersion

(* The state has the fields that the steps change.                           *)
ShapeInv ==
  /\ source \in 0..MaxVersion
  /\ parse \in [ver : Versions, whole : BOOLEAN]
  /\ import \in [nodes : Versions, edges : Versions, lost : SUBSET Id]
  /\ db \in [exists : BOOLEAN, ver : Versions, nodes : SUBSET Id, annotated : BOOLEAN,
             joined : BOOLEAN]
  /\ DOMAIN job = {"todo", "labels", "bundles", "version", "failed"}
  /\ DOMAIN map = {"labels", "readable"}
  /\ job.todo \in Todos

Successive == { <<"parse", "nodes">>, <<"nodes", "edges">>, <<"edges", "import">>,
                <<"import", "annotate">>, <<"parse031", "convert">>, <<"convert", "annotate">>,
                <<"find", "mark">>, <<"labels", "save">>, <<"save", "dump">>,
                <<"rows", "open">>, <<"open", "write">> }
First == {"parse", "parse031", "find", "join", "labels", "rows", "clean"}

(* Which version the files and the graph are of, and what the steps of       *)
(* run_joern.py that are left may rely on.                                   *)
ParseInv ==
  /\ OneParse
  /\ db.nodes # {} => parse.ver # None
  /\ At("parse031") => parse.ver = None
  /\ At("nodes") \/ At("edges") \/ At("import") \/ At("convert") => parse.ver # None
  /\ At("edges") \/ At("import") => import.nodes = parse.ver
-------------------------------------------------------------------------------
(* The first step of what is left of a program, and what comes after it.     *)
LEMMA Tails ==
  /\ Head(RunJoern040) = "parse"
  /\ Tail(RunJoern040) = <<"nodes", "edges", "import", "annotate">>
  /\ Head(<<"nodes", "edges", "import", "annotate">>) = "nodes"
  /\ Tail(<<"nodes", "edges", "import", "annotate">>) = <<"edges", "import", "annotate">>
  /\ Head(<<"edges", "import", "annotate">>) = "edges"
  /\ Tail(<<"edges", "import", "annotate">>) = <<"import", "annotate">>
  /\ Head(<<"import", "annotate">>) = "import"
  /\ Tail(<<"import", "annotate">>) = <<"annotate">>
  /\ Head(<<"annotate">>) = "annotate"
  /\ Tail(<<"annotate">>) = <<>>
  /\ Head(RunJoern031) = "parse031"
  /\ Tail(RunJoern031) = <<"convert", "annotate">>
  /\ Head(<<"convert", "annotate">>) = "convert"
  /\ Tail(<<"convert", "annotate">>) = <<"annotate">>
  /\ Head(RunMarkup) = "find"
  /\ Tail(RunMarkup) = <<"mark">>
  /\ Head(<<"mark">>) = "mark"
  /\ Tail(<<"mark">>) = <<>>
  /\ Head(RunInterproc) = "join"
  /\ Tail(RunInterproc) = <<>>
  /\ Head(MapFeatures) = "labels"
  /\ Tail(MapFeatures) = <<"save", "dump">>
  /\ Head(<<"save", "dump">>) = "save"
  /\ Tail(<<"save", "dump">>) = <<"dump">>
  /\ Head(<<"dump">>) = "dump"
  /\ Tail(<<"dump">>) = <<>>
  /\ Head(Extract) = "rows"
  /\ Tail(Extract) = <<"open", "write">>
  /\ Head(<<"open", "write">>) = "open"
  /\ Tail(<<"open", "write">>) = <<"write">>
  /\ Head(<<"write">>) = "write"
  /\ Tail(<<"write">>) = <<>>
  /\ Head(Clean) = "clean"
  /\ Tail(Clean) = <<>>
<1>1. Head(RunJoern040) = "parse"
      /\ Tail(RunJoern040) = <<"nodes", "edges", "import", "annotate">>
  BY DEF RunJoern040
<1>2. Head(<<"nodes", "edges", "import", "annotate">>) = "nodes"
      /\ Tail(<<"nodes", "edges", "import", "annotate">>) = <<"edges", "import", "annotate">>
  OBVIOUS
<1>3. Head(<<"edges", "import", "annotate">>) = "edges"
      /\ Tail(<<"edges", "import", "annotate">>) = <<"import", "annotate">>
  OBVIOUS
<1>4. Head(<<"import", "annotate">>) = "import"
      /\ Tail(<<"import", "annotate">>) = <<"annotate">>
  OBVIOUS
<1>5. Head(<<"annotate">>) = "annotate"
      /\ Tail(<<"annotate">>) = <<>>
  OBVIOUS
<1>6. Head(RunJoern031) = "parse031"
      /\ Tail(RunJoern031) = <<"convert", "annotate">>
  BY DEF RunJoern031
<1>7. Head(<<"convert", "annotate">>) = "convert"
      /\ Tail(<<"convert", "annotate">>) = <<"annotate">>
  OBVIOUS
<1>8. Head(RunMarkup) = "find"
      /\ Tail(RunMarkup) = <<"mark">>
  BY DEF RunMarkup
<1>9. Head(<<"mark">>) = "mark"
      /\ Tail(<<"mark">>) = <<>>
  OBVIOUS
<1>10. Head(RunInterproc) = "join"
      /\ Tail(RunInterproc) = <<>>
  BY DEF RunInterproc
<1>11. Head(MapFeatures) = "labels"
      /\ Tail(MapFeatures) = <<"save", "dump">>
  BY DEF MapFeatures
<1>12. Head(<<"save", "dump">>) = "save"
      /\ Tail(<<"save", "dump">>) = <<"dump">>
  OBVIOUS
<1>13. Head(<<"dump">>) = "dump"
      /\ Tail(<<"dump">>) = <<>>
  OBVIOUS
<1>14. Head(Extract) = "rows"
      /\ Tail(Extract) = <<"open", "write">>
  BY DEF Extract
<1>15. Head(<<"open", "write">>) = "open"
      /\ Tail(<<"open", "write">>) = <<"write">>
  OBVIOUS
<1>16. Head(<<"write">>) = "write"
      /\ Tail(<<"write">>) = <<>>
  OBVIOUS
<1>17. Head(Clean) = "clean"
      /\ Tail(Clean) = <<>>
  BY DEF Clean
<1> QED
  BY <1>1, <1>2, <1>3, <1>4, <1>5, <1>6, <1>7, <1>8, <1>9, <1>10, <1>11, <1>12, <1>13,
     <1>14, <1>15, <1>16, <1>17

(* A step is followed by another one of its program, or by none.             *)
LEMMA Steps ==
  ASSUME NEW t \in Todos, t # <<>>
  PROVE  /\ Tail(t) \in Todos
         /\ Tail(t) = <<>> \/ <<Head(t), Head(Tail(t))>> \in Successive
BY Tails, Zenon DEF Todos, Successive

LEMMA Starts ==
  ASSUME NEW p \in Programs
  PROVE  p \in Todos /\ Head(p) \in First
BY Tails, Zenon DEF Todos, Programs, First

LEMMA InitShape == Init => ShapeInv
BY PipelineAssumption DEF Init, ShapeInv, Idle, NoDb, Versions, None, Todos

(* Every step keeps the fields and what they hold.                           *)
LEMMA NextShape == ShapeInv /\ [Next]_vars => ShapeInv'
<1> SUFFICES ASSUME ShapeInv, [Next]_vars PROVE ShapeInv'
  OBVIOUS
<1>a. job.todo # <<>> => Tail(job.todo) \in Todos
  BY Steps DEF ShapeInv
<1>b. <<>> \in Todos /\ \A p \in Programs : p \in Todos
  BY Starts DEF Todos
<1>c. job.todo # <<>> /\ (Goes \/ Ends) =>
        DOMAIN job' = {"todo", "labels", "bundles", "version", "failed"} /\ job'.todo \in Todos
  <2>1. DOMAIN Idle = {"todo", "labels", "bundles", "version", "failed"} /\ Idle.todo = <<>>
    BY DEF Idle
  <2>2. ASSUME job.todo # <<>>, Goes
        PROVE  DOMAIN job' = {"todo", "labels", "bundles", "version", "failed"}
               /\ job'.todo \in Todos
    BY <2>2, <1>a DEF ShapeInv, Goes
  <2> QED
    BY <1>b, <2>1, <2>2 DEF Ends
<1> USE PipelineAssumption, <1>a, <1>b
    DEF ShapeInv, Versions, Idle, NoDb, Empty, At, Goes, Ends
<1>1. CASE Start
  BY <1>1 DEF Start, Programs
<1>2. CASE Ended
  BY <1>2 DEF Ended
<1>3. CASE CleanSources
  BY <1>3 DEF CleanSources
<1>4. CASE Parse
  <2>1. parse' \in [ver : Versions, whole : BOOLEAN]
    BY <1>4 DEF Parse
  <2>2. job.todo # <<>> /\ (Goes \/ Ends)
    BY <1>4, Zenon DEF Parse, At
  <2> QED
    BY <1>4, <1>c, <2>1, <2>2 DEF Parse
<1>5. CASE WriteNodes
  BY <1>5 DEF WriteNodes
<1>6. CASE WriteEdges
  BY <1>6 DEF WriteEdges
<1>7. CASE Import
  <2>1. CASE db' = Empty(db)
    BY <1>7, <2>1 DEF Import
  <2>2. CASE db' = [NoDb EXCEPT !.exists = TRUE, !.ver = import.nodes,
                                !.nodes = Id \ import.lost]
    BY <1>7, <2>2 DEF Import
  <2> QED
    BY <1>7, <2>1, <2>2, Zenon DEF Import
<1>8. CASE Annotate
  BY <1>8 DEF Annotate
<1>9. CASE Parse031
  BY <1>9 DEF Parse031
<1>10. CASE Convert
  <2>1. db' \in [exists : BOOLEAN, ver : Versions, nodes : SUBSET Id, annotated : BOOLEAN,
               joined : BOOLEAN]
    BY <1>10 DEF Convert
  <2>2. job.todo # <<>> /\ (Goes \/ Ends)
    BY <1>10, Zenon DEF Convert, At
  <2> QED
    BY <1>10, <1>c, <2>1, <2>2 DEF Convert
<1>11. CASE Find
  BY <1>11 DEF Find
<1>12. CASE Mark
  BY <1>12 DEF Mark
<1>13. CASE MarkupEnds
  BY <1>13 DEF MarkupEnds
<1>14. CASE Join
  BY <1>14 DEF Join
<1>15. CASE FindLabels
  BY <1>15 DEF FindLabels
<1>16. CASE SaveMap
  <2>1. DOMAIN map' = {"labels", "readable"}
    BY <1>16 DEF SaveMap
  <2>2. job.todo # <<>> /\ (Goes \/ Ends)
    BY <1>16, Zenon DEF SaveMap, At
  <2> QED
    BY <1>16, <1>c, <2>1, <2>2 DEF SaveMap
<1>17. CASE DumpMap
  BY <1>17 DEF DumpMap
<1>18. CASE OthersMap
  BY <1>18 DEF OthersMap
<1>19. CASE CountRows
  <2>1. CASE map.readable
    BY <1>19, <2>1 DEF CountRows
  <2>2. CASE ~map.readable
    <3>1. job.todo # <<>> /\ Ends
      BY <1>19, <2>2, Zenon DEF CountRows, At
    <3> QED
      BY <1>19, <1>c, <3>1 DEF CountRows
  <2> QED
    BY <2>1, <2>2
<1>20. CASE OpenFeatures
  BY <1>20 DEF OpenFeatures
<1>21. CASE WriteFeatures
  BY <1>21 DEF WriteFeatures
<1>22. CASE UNCHANGED vars
  BY <1>22 DEF vars
<1> QED
  BY <1>1, <1>2, <1>3, <1>4, <1>5, <1>6, <1>7, <1>8, <1>9, <1>10, <1>11, <1>12, <1>13,
     <1>14, <1>15, <1>16, <1>17, <1>18, <1>19, <1>20, <1>21, <1>22 DEF Next

(* Every step keeps what is said of the versions.                            *)
LEMMA NextParse == ShapeInv /\ ParseInv /\ [Next]_vars => ParseInv'
<1> SUFFICES ASSUME ShapeInv, ParseInv, [Next]_vars PROVE ParseInv'
  OBVIOUS
<1>a. job.todo # <<>> => \/ Tail(job.todo) = <<>>
                         \/ <<Head(job.todo), Head(Tail(job.todo))>> \in Successive
  BY Steps DEF ShapeInv
<1>b. /\ DOMAIN job = {"todo", "labels", "bundles", "version", "failed"}
      /\ parse \in [ver : Versions, whole : BOOLEAN]
      /\ import \in [nodes : Versions, edges : Versions, lost : SUBSET Id]
      /\ db \in [exists : BOOLEAN, ver : Versions, nodes : SUBSET Id, annotated : BOOLEAN,
                 joined : BOOLEAN]
      /\ source # None
  BY PipelineAssumption DEF ShapeInv, None
<1>c. Idle.todo = <<>>
  BY DEF Idle
<1> HIDE DEF Idle
<1> USE <1>a, <1>b, <1>c DEF ParseInv, OneParse, Successive, NoDb, Empty, At, Goes, Ends
<1>1. CASE Start
  <2>1. PICK p \in Programs, v \in 1..3 :
          /\ p = RunJoern031 => parse.ver = None
          /\ job' = [Idle EXCEPT !.todo = p, !.version = v]
    BY <1>1, Zenon DEF Start, Programs
  <2>2. job'.todo = p
    BY <2>1 DEF Idle
  <2>3. Head(p) \in First /\ (Head(p) = "parse031" => p = RunJoern031)
    BY Starts, Tails, Zenon DEF Programs
  <2>4. UNCHANGED <<parse, import, db>>
    BY <1>1 DEF Start
  <2> QED
    BY <2>1, <2>2, <2>3, <2>4 DEF First
<1>2. CASE Ended
  BY <1>2 DEF Ended
<1>3. CASE CleanSources
  BY <1>3 DEF CleanSources
<1>4. CASE Parse
  BY <1>4 DEF Parse
<1>5. CASE WriteNodes
  BY <1>5 DEF WriteNodes
<1>6. CASE WriteEdges
  BY <1>6 DEF WriteEdges
<1>7. CASE Import
  BY <1>7 DEF Import
<1>8. CASE Annotate
  BY <1>8 DEF Annotate
<1>9. CASE Parse031
  BY <1>9 DEF Parse031
<1>10. CASE Convert
  BY <1>10 DEF Convert
<1>11. CASE Find
  BY <1>11 DEF Find
<1>12. CASE Mark
  BY <1>12 DEF Mark
<1>13. CASE MarkupEnds
  BY <1>13 DEF MarkupEnds
<1>14. CASE Join
  BY <1>14 DEF Join
<1>15. CASE FindLabels
  BY <1>15 DEF FindLabels
<1>16. CASE SaveMap
  BY <1>16 DEF SaveMap
<1>17. CASE DumpMap
  BY <1>17 DEF DumpMap
<1>18. CASE OthersMap
  BY <1>18 DEF OthersMap
<1>19. CASE CountRows
  BY <1>19 DEF CountRows
<1>20. CASE OpenFeatures
  BY <1>20 DEF OpenFeatures
<1>21. CASE WriteFeatures
  BY <1>21 DEF WriteFeatures
<1>22. CASE UNCHANGED vars
  BY <1>22 DEF vars
<1> QED
  BY <1>1, <1>2, <1>3, <1>4, <1>5, <1>6, <1>7, <1>8, <1>9, <1>10, <1>11, <1>12, <1>13,
     <1>14, <1>15, <1>16, <1>17, <1>18, <1>19, <1>20, <1>21, <1>22 DEF Next
-------------------------------------------------------------------------------
(* The labels, and what was counted for them.                                *)
LabelInv ==
  /\ IsFiniteSet(map.labels) /\ IsFiniteSet(job.labels)
  /\ mapped \subseteq map.labels
  /\ At("open") \/ At("write") => job.labels \subseteq map.labels
  /\ HeaderMatchesRows /\ MappedIsCounted

LEMMA InitLabels == Init => LabelInv
BY FS_EmptySet DEF Init, LabelInv, Idle, NoTable, At, HeaderMatchesRows, MappedIsCounted

LEMMA LabelsFinite == ShapeInv => IsFiniteSet(Labels)
<1> SUFFICES ASSUME ShapeInv PROVE IsFiniteSet(Labels)
  OBVIOUS
<1>1. Flows \subseteq Id \X Id
  BY PipelineAssumption DEF Flows, ShapeInv, Versions, None
<1>2. IsFiniteSet(Flows)
  BY <1>1, PipelineAssumption, FS_Product, FS_Subset
<1> DEFINE L == {<<ast[f[1]], ast[f[2]]>> : f \in Flows}
           g == [f \in Flows |-> <<ast[f[1]], ast[f[2]]>>]
<1>3. g \in Surjection(Flows, L)
  BY DEF Surjection
<1>4. IsFiniteSet(L)
  BY <1>2, <1>3, FS_Surjection
<1> QED
  BY <1>4, FS_EmptySet DEF Labels

(* What is larger by nothing has nothing new; what is as wide as the map     *)
(* that it is part of is the map.                                            *)
LEMMA SameSize ==
  ASSUME NEW S, NEW T, IsFiniteSet(T), S \subseteq T, Cardinality(S) = Cardinality(T)
  PROVE  S = T
BY FS_Subset

(* Every step keeps what is said of the labels.                              *)
LEMMA NextLabels == ShapeInv /\ LabelInv /\ [Next]_vars => LabelInv'
<1> SUFFICES ASSUME ShapeInv, LabelInv, [Next]_vars PROVE LabelInv'
  OBVIOUS
<1>a. job.todo # <<>> => \/ Tail(job.todo) = <<>>
                         \/ <<Head(job.todo), Head(Tail(job.todo))>> \in Successive
  BY Steps DEF ShapeInv
<1>b. /\ DOMAIN job = {"todo", "labels", "bundles", "version", "failed"}
      /\ DOMAIN map = {"labels", "readable"}
  BY DEF ShapeInv
<1>c. Idle.todo = <<>> /\ Idle.labels = {} /\ IsFiniteSet({})
  BY FS_EmptySet DEF Idle
<1> HIDE DEF Idle
<1> USE <1>a, <1>b, <1>c
    DEF LabelInv, Successive, At, Goes, Ends, HeaderMatchesRows, MappedIsCounted
<1>1. CASE Start
  <2>1. PICK p \in Programs, v \in 1..3 : job' = [Idle EXCEPT !.todo = p, !.version = v]
    BY <1>1, Zenon DEF Start, Programs
  <2>2. job'.todo = p /\ job'.labels = {}
    BY <2>1 DEF Idle
  <2>3. Head(p) \in First
    BY Starts
  <2>4. UNCHANGED <<map, features, mapped>>
    BY <1>1 DEF Start
  <2> QED
    BY <2>2, <2>3, <2>4 DEF First
<1>2. CASE Ended
  BY <1>2 DEF Ended
<1>3. CASE CleanSources
  BY <1>3 DEF CleanSources
<1>4. CASE Parse
  BY <1>4 DEF Parse
<1>5. CASE WriteNodes
  BY <1>5 DEF WriteNodes
<1>6. CASE WriteEdges
  BY <1>6 DEF WriteEdges
<1>7. CASE Import
  BY <1>7 DEF Import
<1>8. CASE Annotate
  BY <1>8 DEF Annotate
<1>9. CASE Parse031
  BY <1>9 DEF Parse031
<1>10. CASE Convert
  BY <1>10 DEF Convert
<1>11. CASE Find
  BY <1>11 DEF Find
<1>12. CASE Mark
  BY <1>12 DEF Mark
<1>13. CASE MarkupEnds
  BY <1>13 DEF MarkupEnds
<1>14. CASE Join
  BY <1>14 DEF Join
<1>15. CASE FindLabels
  <2>1. job'.labels = Labels /\ job'.todo = Tail(job.todo) /\ At("labels")
    BY <1>15 DEF FindLabels
  <2>2. IsFiniteSet(job'.labels)
    BY <2>1, LabelsFinite
  <2>3. UNCHANGED <<map, features, mapped>>
    BY <1>15 DEF FindLabels
  <2> HIDE DEF HeaderMatchesRows, MappedIsCounted
  <2>4. (HeaderMatchesRows /\ MappedIsCounted)'
    BY <2>3 DEF HeaderMatchesRows, MappedIsCounted
  <2> QED
    BY <2>1, <2>2, <2>3, <2>4
<1>16. CASE SaveMap
  <2>1. UNCHANGED features /\ At("save") /\ map'.labels = map.labels /\ (Goes \/ Ends)
    BY <1>16 DEF SaveMap
  <2>2. job'.labels \in {job.labels, {}} /\ (job'.todo = <<>> \/ job'.todo = Tail(job.todo))
    BY <2>1
  <2>3. mapped' \subseteq map'.labels
    <3>1. CASE mapped' = mapped
      BY <3>1, <2>1
    <3>2. CASE /\ Cardinality(WithLabels(job.labels)) = Cardinality(map.labels)
               /\ mapped' = mapped \union job.labels
      <4>1. IsFiniteSet(map.labels \union job.labels)
        BY FS_Union
      <4>2. map.labels = map.labels \union job.labels
        BY <3>2, <4>1, SameSize DEF WithLabels
      <4> QED
        BY <2>1, <3>2, <4>2
    <3> QED
      BY <1>16, <3>1, <3>2 DEF SaveMap
  <2> QED
    BY <2>1, <2>2, <2>3
<1>17. CASE DumpMap
  <2>1. /\ map'.labels = map.labels \union job.labels /\ mapped' = mapped \union job.labels
        /\ job' = Idle /\ UNCHANGED features
    BY <1>17 DEF DumpMap, WithLabels
  <2>2. IsFiniteSet(map'.labels)
    <3>1. IsFiniteSet(map.labels \union job.labels)
      BY FS_Union
    <3> QED
      BY <2>1, <3>1, Zenon
  <2>3. mapped' \subseteq map'.labels /\ UNCHANGED features
    BY <2>1
  <2>4. job'.todo = <<>> /\ IsFiniteSet(job'.labels)
    BY <2>1
  <2> QED
    BY <2>2, <2>3, <2>4
<1>18. CASE OthersMap
  <2>1. PICK l \in Foreign : map' = [map EXCEPT !.labels = map.labels \union {l}]
    BY <1>18 DEF OthersMap, WithLabels
  <2>2. map'.labels = map.labels \union {l}
    BY <2>1
  <2>3. IsFiniteSet(map'.labels)
    BY <2>2, FS_AddElement
  <2>4. UNCHANGED <<features, job, mapped>>
    BY <1>18 DEF OthersMap
  <2> QED
    BY <2>2, <2>3, <2>4
<1>19. CASE CountRows
  <2>1. UNCHANGED <<map, features, mapped>> /\ At("rows")
    BY <1>19 DEF CountRows
  <2>2. CASE job' = [job EXCEPT !.todo = Tail(@), !.labels = map.labels]
    <3>1. job'.labels = map'.labels /\ job'.todo = Tail(job.todo)
      BY <2>1, <2>2
    <3> QED
      BY <2>1, <3>1
  <2>3. CASE job' = Idle
    BY <2>1, <2>3
  <2> QED
    BY <1>19, <2>2, <2>3, Zenon DEF CountRows, Ends
<1>20. CASE OpenFeatures
  <2>1. /\ features'.complete = FALSE /\ At("open") /\ UNCHANGED <<map, mapped>>
        /\ job'.labels = job.labels /\ job'.todo = Tail(job.todo)
    BY <1>20 DEF OpenFeatures, NoTable
  <2> QED
    BY <2>1
<1>21. CASE WriteFeatures
  <2>1. At("write") /\ job' = Idle /\ UNCHANGED <<map, mapped>>
    BY <1>21 DEF WriteFeatures
  <2>2. (HeaderMatchesRows /\ MappedIsCounted)'
    <3>1. CASE UNCHANGED features
      BY <3>1
    <3>2. CASE /\ SameWidth(map.labels)
               /\ features' = [complete |-> TRUE, header |-> map.labels, rows |-> job.labels,
                               mapped |-> mapped]
      <4>1. job.labels = map.labels
        BY <2>1, <3>2, SameSize DEF SameWidth
      <4> QED
        BY <3>2, <4>1
    <3> QED
      BY <1>21, <3>1, <3>2, Zenon DEF WriteFeatures
  <2> QED
    BY <2>1, <2>2
<1>22. CASE UNCHANGED vars
  BY <1>22 DEF vars
<1> QED
  BY <1>1, <1>2, <1>3, <1>4, <1>5, <1>6, <1>7, <1>8, <1>9, <1>10, <1>11, <1>12, <1>13,
     <1>14, <1>15, <1>16, <1>17, <1>18, <1>19, <1>20, <1>21, <1>22 DEF Next
-------------------------------------------------------------------------------
(* The rows that a markup program holds are of its version, and so is what   *)
(* has become of their nodes meanwhile.                                      *)
RowOK(r) == /\ r[1] \in Id /\ r[2][1] = job.version /\ r[2] # Unmarked
            /\ ast[r[1]] = Unmarked \/ ast[r[1]][1] = job.version
MarkInv == /\ DOMAIN ast = Id
           /\ job.todo # <<>> => job.version \in 1..3
           /\ \E R : job.bundles \in Seq(Seq(R)) /\ \A r \in R : RowOK(r)

LEMMA InitMarks == Init => MarkInv
<1> SUFFICES ASSUME Init PROVE MarkInv
  OBVIOUS
<1>1. job.bundles \in Seq(Seq({})) /\ job.todo = <<>>
  BY DEF Init, Idle
<1> QED
  BY <1>1 DEF Init, MarkInv

LEMMA MaxIn ==
  ASSUME NEW n \in Nat, NEW S \in SUBSET (1..n), S # {}
  PROVE  Max(S) \in S
<1> DEFINE T == {t \in Nat : n - t \in S}
<1>1. T # {}
  <2>1. PICK k : k \in S
    OBVIOUS
  <2>2. n - k \in Nat /\ n - (n - k) = k
    BY <2>1
  <2> QED
    BY <2>1, <2>2
<1>2. PICK t \in T : \A u \in T : <<u, t>> \notin OpToRel(<, Nat)
  BY <1>1, WFMin, NatLessThanWellFounded, Zenon
<1>3. \A u \in T : ~(u < t)
  BY <1>2, Zenon DEF OpToRel
<1>4. ASSUME NEW j \in S PROVE n - t >= j
  <2>1. j \in Nat /\ n - j \in Nat /\ n - (n - j) = j
    OBVIOUS
  <2>2. n - j \in T
    BY <2>1
  <2>3. ~(n - j < t) /\ t \in Nat
    BY <1>3, <2>2
  <2> QED
    BY <2>1, <2>3
<1>5. \E x \in S : \A y \in S : x >= y
  <2>1. n - t \in S
    BY Zenon
  <2> QED
    BY <1>4, <2>1, Zenon
<1> QED
  BY <1>5, Zenon DEF Max

(* The markups of a node by a version bear its number.                       *)
LEMMA MarkupsOf ==
  ASSUME NEW v \in 1..3, NEW n, NEW m \in Markups(v, n)
  PROVE  m[1] = v /\ m # Unmarked
<1> \A x : Len(<<v, x>>) = 2 /\ Len(Unmarked) = 1
  BY DEF Unmarked
<1>1. CASE v = 1
  BY <1>1 DEF Markups, Markup1
<1>2. CASE v = 2
  BY <1>2 DEF Markups, Markup2
<1>3. CASE v = 3
  BY <1>3 DEF Markups, Markups3
<1> QED
  BY <1>1, <1>2, <1>3

LEMMA RowsOf ==
  ASSUME ShapeInv, NEW v \in 1..3, NEW r \in Rows(v)
  PROVE  r[1] \in Id /\ ast[r[1]] = Unmarked /\ r[2][1] = v /\ r[2] # Unmarked
<1>0. PICK n \in Roots(v) : ast[n] = Unmarked /\ r \in {<<n, m>> : m \in Markups(v, n)}
  BY Zenon DEF Rows
<1>1. PICK m \in Markups(v, n) : ast[n] = Unmarked /\ r = <<n, m>>
  BY <1>0
<1>2. n \in Id
  <2>1. n \in db.nodes /\ db.nodes \subseteq Id
    BY DEF Roots, ShapeInv
  <2> QED BY <2>1
<1> QED
  BY <1>1, <1>2, MarkupsOf

LEMMA RowsFinite ==
  ASSUME ShapeInv, NEW v \in 1..3
  PROVE  IsFiniteSet(Rows(v))
<1>1. IsFiniteSet(db.nodes)
  BY PipelineAssumption, FS_Subset DEF ShapeInv
<1>2. ASSUME NEW n PROVE IsFiniteSet(Markups(v, n))
  <2>1. CASE v = 1
    <3>1. Markups(v, n) = {Markup1(n)}
      BY <2>1 DEF Markups
    <3> QED BY <3>1, FS_Singleton, Zenon
  <2>2. CASE v = 2
    <3>1. Markups(v, n) = {Markup2(n)}
      BY <2>2 DEF Markups
    <3> QED BY <3>1, FS_Singleton, Zenon
  <2>3. CASE v = 3
    <3> DEFINE e(c) == IF Type[c] = "Call" \/ Type[n] = "Expression" THEN Type[c] ELSE Type[n]
               g == [c \in Children(n) |-> <<3, e(c)>>]
    <3>1. IsFiniteSet(Children(n))
      BY <1>1, FS_Subset DEF Children
    <3>2. g \in Surjection(Children(n), {<<3, e(c)>> : c \in Children(n)})
      BY DEF Surjection
    <3>3. IsFiniteSet({<<3, e(c)>> : c \in Children(n)})
      BY <3>1, <3>2, FS_Surjection
    <3>4. IsFiniteSet({<<3, Type[n]>>})
      BY FS_Singleton
    <3> QED
      BY <2>3, <3>3, <3>4 DEF Markups, Markups3
  <2> QED
    BY <2>1, <2>2, <2>3
<1> DEFINE U == {r \in Roots(v) : ast[r] = Unmarked}
           P(x) == {<<x, m>> : m \in Markups(v, x)}
<1>3. ASSUME NEW n PROVE IsFiniteSet(P(n))
  <2> DEFINE g == [m \in Markups(v, n) |-> <<n, m>>]
  <2>1. g \in Surjection(Markups(v, n), P(n))
    BY DEF Surjection
  <2> QED
    BY <1>2, <2>1, FS_Surjection
<1>4. IsFiniteSet(U)
  <2>1. U \subseteq db.nodes
    BY DEF Roots
  <2> QED BY <1>1, <2>1, FS_Subset
<1> DEFINE h == [x \in U |-> P(x)]
<1>5. h \in Surjection(U, {P(x) : x \in U})
  BY DEF Surjection
<1>6. IsFiniteSet({P(x) : x \in U})
  BY <1>4, <1>5, FS_Surjection
<1> DEFINE W == {P(x) : x \in U}
<1>7. \A T \in W : IsFiniteSet(T)
  BY <1>3
<1>8. Rows(v) = UNION W
  BY Zenon DEF Rows
<1> HIDE DEF W
<1>9. IsFiniteSet(UNION W)
  <2>1. IsFiniteSet(W)
    BY <1>6 DEF W
  <2> QED
    BY <2>1, <1>7, FS_UNION
<1> QED
  BY <1>8, <1>9, Zenon

LEMMA BundlesOf ==
  ASSUME NEW R, NEW s \in Seq(R)
  PROVE  Bundles(s) \in Seq(Seq(R))
<1> DEFINE k == Len(s) \div Limit + 1
           b(i) == SubSeq(s, (i - 1) * Limit + 1, Min({i * Limit, Len(s)}))
<1>1. Len(s) \in Nat /\ k \in Nat
  <2>1. Len(s) \in Nat /\ Limit \in Nat \ {0}
    BY PipelineAssumption
  <2>2. Len(s) \div Limit \in Int /\ Len(s) \div Limit >= 0
    BY <2>1
  <2> QED
    BY <2>1, <2>2
<1>2. ASSUME NEW i \in 1..k PROVE b(i) \in Seq(R)
  <2> DEFINE m == (i - 1) * Limit + 1
             n == Min({i * Limit, Len(s)})
  <2>1. m \in Int /\ m >= 1
    <3>1. i - 1 \in Nat /\ Limit \in Nat
      BY <1>1, PipelineAssumption
    <3>2. (i - 1) * Limit \in Nat
      BY <3>1
    <3> QED
      BY <3>2
  <2>2. n \in Int /\ n <= Len(s)
    <3>1. i * Limit \in Int
      BY <1>1, PipelineAssumption
    <3>2. \A x \in Int : Min({x, Len(s)}) \in Int /\ Min({x, Len(s)}) <= Len(s)
      BY <1>1 DEF Min
    <3> QED
      BY <3>1, <3>2
  <2> HIDE DEF m, n
  <2>3. \A j \in m..n : s[j] \in R
    BY <2>1, <2>2, ElementOfSeq
  <2>4. SubSeq(s, m, n) \in Seq(R)
    BY <2>1, <2>2, <2>3, SubSeqProperties
  <2> QED
    BY <2>4 DEF m, n
<1>3. Bundles(s) = [i \in 1..k |-> b(i)]
  BY DEF Bundles
<1> HIDE DEF b, k
<1>4. Bundles(s) \in [1..k -> Seq(R)]
  BY <1>2, <1>3
<1> QED
  BY <1>1, <1>4

(* A markup program begins with rows of its version, of unmarked nodes.      *)
LEMMA FoundRows ==
  ASSUME ShapeInv, NEW v \in 1..3, NEW s \in SetToSeqs(Rows(v))
  PROVE  Bundles(s) \in Seq(Seq(Rows(v)))
<1>1. s \in [1..Cardinality(Rows(v)) -> Rows(v)]
  BY Zenon DEF SetToSeqs
<1>2. IsFiniteSet(Rows(v))
  BY RowsFinite
<1> DEFINE R == Rows(v)
<1>3. Cardinality(R) \in Nat
  BY <1>2, FS_CardinalityType, Zenon
<1> HIDE DEF R
<1>4. s \in Seq(R)
  BY <1>1, <1>3 DEF R
<1> QED
  BY <1>4, BundlesOf DEF R

(* What a bundle makes of a node.                                            *)
LEMMA MarkedBy ==
  ASSUME NEW R, NEW s \in Seq(R), NEW n \in Id
  PROVE  Marked(s)[n] = ast[n] \/ \E r \in R : r[1] = n /\ Marked(s)[n] = r[2]
<1> DEFINE mine == {k \in DOMAIN s : s[k][1] = n}
<1>1. Marked(s)[n] = IF mine = {} THEN ast[n] ELSE s[Max(mine)][2]
  BY DEF Marked
<1>2. CASE mine = {}
  BY <1>1, <1>2
<1>3. CASE mine # {}
  <2>1. Len(s) \in Nat /\ mine \in SUBSET (1..Len(s))
    OBVIOUS
  <2> DEFINE k == Max(mine)
  <2>2. k \in mine
    BY <1>3, <2>1, MaxIn
  <2> HIDE DEF k
  <2>3. s[k] \in R /\ s[k][1] = n
    BY <2>2, ElementOfSeq
  <2> QED
    BY <1>1, <1>3, <2>3 DEF k
<1> QED
  BY <1>2, <1>3

(* Every step keeps what is said of the rows.                                *)
LEMMA NextMarks == ShapeInv /\ MarkInv /\ [Next]_vars => MarkInv'
<1> SUFFICES ASSUME ShapeInv, MarkInv, [Next]_vars PROVE MarkInv'
  OBVIOUS
<1>a. DOMAIN job = {"todo", "labels", "bundles", "version", "failed"}
  BY DEF ShapeInv
<1>b. PICK R : job.bundles \in Seq(Seq(R)) /\ \A r \in R : RowOK(r)
  BY DEF MarkInv
<1>c. Idle.todo = <<>> /\ Idle.bundles \in Seq(Seq({}))
  BY DEF Idle
<1>d. ASSUME UNCHANGED ast, job.todo # <<>> \/ job'.todo = <<>>, job'.version = job.version,
             job'.bundles = job.bundles \/ job'.bundles \in Seq(Seq({}))
      PROVE  MarkInv'
  <2>1. DOMAIN ast' = Id /\ (job'.todo # <<>> => job'.version \in 1..3)
    BY <1>d DEF MarkInv
  <2>2. \A r \in R : RowOK(r)'
    BY <1>b, <1>d DEF RowOK
  <2>3. CASE job'.bundles = job.bundles
    BY <1>b, <2>1, <2>2, <2>3 DEF MarkInv
  <2>4. CASE job'.bundles \in Seq(Seq({}))
    BY <2>1, <2>4 DEF MarkInv
  <2> QED
    BY <1>d, <2>3, <2>4
<1>e. ASSUME UNCHANGED ast, job' = Idle PROVE MarkInv'
  BY <1>c, <1>e DEF MarkInv
<1>f. ASSUME UNCHANGED ast, job.todo # <<>>, Goes \/ Ends PROVE MarkInv'
  <2>1. CASE Goes
    <3>1. job'.version = job.version /\ job'.bundles = job.bundles
      BY <1>a, <2>1 DEF Goes
    <3> QED
      BY <1>d, <1>f, <3>1
  <2>2. CASE Ends
    BY <1>e, <1>f, <2>2 DEF Ends
  <2> QED
    BY <1>f, <2>1, <2>2
<1>1. CASE Start
  <2>1. PICK p \in Programs, v \in 1..3 : job' = [Idle EXCEPT !.todo = p, !.version = v]
    BY <1>1, Zenon DEF Start, Programs
  <2>2. job'.version \in 1..3 /\ job'.bundles \in Seq(Seq({}))
    BY <2>1 DEF Idle
  <2>3. DOMAIN ast' = Id
    BY <1>1 DEF Start, MarkInv
  <2> QED
    BY <2>2, <2>3 DEF MarkInv
<1>2. CASE Ended
  <2>1. job.todo # <<>> /\ (Goes \/ Ends) /\ UNCHANGED ast
    BY <1>2, Zenon DEF Ended, At
  <2> QED
    BY <1>f, <2>1
<1>3. CASE CleanSources
  <2>1. job.todo # <<>> /\ (Goes \/ Ends) /\ UNCHANGED ast
    BY <1>3, Zenon DEF CleanSources, At
  <2> QED
    BY <1>f, <2>1
<1>4. CASE Parse
  <2>1. job.todo # <<>> /\ (Goes \/ Ends) /\ UNCHANGED ast
    BY <1>4, Zenon DEF Parse, At
  <2> QED
    BY <1>f, <2>1
<1>5. CASE WriteNodes
  <2>1. job.todo # <<>> /\ (Goes \/ Ends) /\ UNCHANGED ast
    BY <1>5, Zenon DEF WriteNodes, At
  <2> QED
    BY <1>f, <2>1
<1>6. CASE WriteEdges
  <2>1. job.todo # <<>> /\ (Goes \/ Ends) /\ UNCHANGED ast
    BY <1>6, Zenon DEF WriteEdges, At
  <2> QED
    BY <1>f, <2>1
<1>7. CASE Import
  <2>1. job.todo # <<>> /\ (Goes \/ Ends) /\ UNCHANGED ast
    BY <1>7, Zenon DEF Import, At
  <2> QED
    BY <1>f, <2>1
<1>8. CASE Annotate
  <2>1. job.todo # <<>> /\ (Goes \/ Ends) /\ UNCHANGED ast
    BY <1>8, Zenon DEF Annotate, At
  <2> QED
    BY <1>f, <2>1
<1>9. CASE Parse031
  <2>1. job.todo # <<>> /\ (Goes \/ Ends) /\ UNCHANGED ast
    BY <1>9, Zenon DEF Parse031, At
  <2> QED
    BY <1>f, <2>1
<1>10. CASE Convert
  <2>1. job.todo # <<>> /\ (Goes \/ Ends) /\ UNCHANGED ast
    BY <1>10, Zenon DEF Convert, At
  <2> QED
    BY <1>f, <2>1
<1>11. CASE Find
  <2>1. job.todo # <<>> /\ UNCHANGED ast
    BY <1>11, Zenon DEF Find, At
  <2>2. job.version \in 1..3
    BY <2>1 DEF MarkInv
  <2>3. PICK s \in SetToSeqs(Rows(job.version)) :
          job' = [job EXCEPT !.todo = Tail(@), !.bundles = Bundles(s)]
    BY <1>11, Zenon DEF Find
  <2>4. job'.version = job.version /\ job'.bundles = Bundles(s)
    BY <1>a, <2>3
  <2>5. job'.bundles \in Seq(Seq(Rows(job.version)))
    BY <2>2, <2>4, FoundRows
  <2>6. \A r \in Rows(job.version) :
          /\ r[1] \in Id /\ ast[r[1]] = Unmarked
          /\ r[2][1] = job.version /\ r[2] # Unmarked
    BY <2>2, RowsOf
  <2>7. \A r \in Rows(job.version) : RowOK(r)'
    BY <2>1, <2>4, <2>6 DEF RowOK
  <2>8. \E S : job'.bundles \in Seq(Seq(S)) /\ \A r \in S : RowOK(r)'
    BY <2>5, <2>7, Zenon
  <2> QED
    BY <2>1, <2>2, <2>4, <2>8 DEF MarkInv
<1>12. CASE Mark
  <2>1. job.todo # <<>> /\ job.bundles # <<>>
    BY <1>12, Zenon DEF Mark, At
  <2>2. Head(job.bundles) \in Seq(R) /\ Tail(job.bundles) \in Seq(Seq(R))
    BY <1>b, <2>1, HeadTailProperties
  <2>3. /\ job'.version = job.version /\ job'.bundles = Tail(job.bundles)
        /\ job'.todo = job.todo
    BY <1>12, <1>a DEF Mark
  <2>4. ast' = Marked(Head(job.bundles)) \/ UNCHANGED ast
    BY <1>12, Zenon DEF Mark
  <2>5. ASSUME NEW n \in Id PROVE ast'[n] = ast[n] \/ \E r \in R : r[1] = n /\ ast'[n] = r[2]
    <3>1. CASE ast' = Marked(Head(job.bundles))
      BY <2>2, <3>1, MarkedBy
    <3> QED
      BY <2>4, <3>1
  <2>6. ASSUME NEW q \in R PROVE RowOK(q)'
    <3>1. q[1] \in Id /\ q[2][1] = job'.version /\ q[2] # Unmarked
      BY <1>b, <2>3 DEF RowOK
    <3>2. CASE ast'[q[1]] = ast[q[1]]
      BY <1>b, <2>3, <3>1, <3>2 DEF RowOK
    <3>3. CASE ast'[q[1]] # ast[q[1]]
      <4>1. PICK r \in R : ast'[q[1]] = r[2]
        BY <2>5, <3>1, <3>3
      <4>2. r[2][1] = job.version
        BY <1>b DEF RowOK
      <4> QED
        BY <2>3, <3>1, <4>1, <4>2 DEF RowOK
    <3> QED
      BY <3>2, <3>3
  <2>7. DOMAIN ast' = Id
    BY <2>4 DEF Marked, MarkInv
  <2>8. \E S : job'.bundles \in Seq(Seq(S)) /\ \A r \in S : RowOK(r)'
    BY <2>2, <2>3, <2>6
  <2>9. job'.todo # <<>> => job'.version \in 1..3
    BY <2>1, <2>3 DEF MarkInv
  <2> QED
    BY <2>7, <2>8, <2>9 DEF MarkInv
<1>13. CASE MarkupEnds
  <2>1. job.todo # <<>> /\ (Goes \/ Ends) /\ UNCHANGED ast
    BY <1>13, Zenon DEF MarkupEnds, At
  <2> QED
    BY <1>f, <2>1
<1>14. CASE Join
  <2>1. job.todo # <<>> /\ (Goes \/ Ends) /\ UNCHANGED ast
    BY <1>14, Zenon DEF Join, At
  <2> QED
    BY <1>f, <2>1
<1>15. CASE FindLabels
  <2>1. job.todo # <<>> /\ UNCHANGED ast
    BY <1>15, Zenon DEF FindLabels, At
  <2>2. job'.version = job.version /\ job'.bundles = job.bundles
    BY <1>15, <1>a DEF FindLabels
  <2> QED
    BY <1>d, <2>1, <2>2
<1>16. CASE SaveMap
  <2>1. job.todo # <<>> /\ (Goes \/ Ends) /\ UNCHANGED ast
    BY <1>16, Zenon DEF SaveMap, At
  <2> QED
    BY <1>f, <2>1
<1>17. CASE DumpMap
  <2>1. job.todo # <<>> /\ (Goes \/ Ends) /\ UNCHANGED ast
    BY <1>17, Zenon DEF DumpMap, At
  <2> QED
    BY <1>f, <2>1
<1>18. CASE OthersMap
  BY <1>18, <1>b DEF OthersMap, MarkInv, RowOK
<1>19. CASE CountRows
  <2>1. job.todo # <<>> /\ UNCHANGED ast
    BY <1>19, Zenon DEF CountRows, At
  <2>2. CASE job' = [job EXCEPT !.todo = Tail(@), !.labels = map.labels]
    <3>1. job'.version = job.version /\ job'.bundles = job.bundles
      BY <1>a, <2>2
    <3> QED
      BY <1>d, <2>1, <3>1
  <2>3. CASE Ends
    BY <1>f, <2>1, <2>3
  <2> QED
    BY <1>19, <2>2, <2>3, Zenon DEF CountRows
<1>20. CASE OpenFeatures
  <2>1. job.todo # <<>> /\ (Goes \/ Ends) /\ UNCHANGED ast
    BY <1>20, Zenon DEF OpenFeatures, At
  <2> QED
    BY <1>f, <2>1
<1>21. CASE WriteFeatures
  <2>1. job.todo # <<>> /\ (Goes \/ Ends) /\ UNCHANGED ast
    BY <1>21, Zenon DEF WriteFeatures, At
  <2> QED
    BY <1>f, <2>1
<1>22. CASE UNCHANGED vars
  BY <1>22, <1>b DEF vars, MarkInv, RowOK
<1> QED
  BY <1>1, <1>2, <1>3, <1>4, <1>5, <1>6, <1>7, <1>8, <1>9, <1>10, <1>11, <1>12, <1>13,
     <1>14, <1>15, <1>16, <1>17, <1>18, <1>19, <1>20, <1>21, <1>22 DEF Next

(* A node that has a markup gets none but of the same version.               *)
LEMMA KeepsMarkup ==
  ASSUME ShapeInv, MarkInv, [Next]_vars, NEW n \in Id, ast[n] # Unmarked
  PROVE  ast'[n][1] = ast[n][1]
<1>1. CASE Mark
  <2>1. PICK R : job.bundles \in Seq(Seq(R)) /\ \A r \in R : RowOK(r)
    BY DEF MarkInv
  <2>2. job.bundles # <<>>
    BY <1>1, Zenon DEF Mark
  <2>3. Head(job.bundles) \in Seq(R)
    BY <2>1, <2>2, HeadTailProperties
  <2>4. ast' = Marked(Head(job.bundles)) \/ UNCHANGED ast
    BY <1>1, Zenon DEF Mark
  <2>5. CASE UNCHANGED ast
    BY <2>5
  <2>6. CASE ast' = Marked(Head(job.bundles))
    <3>1. ast'[n] = ast[n] \/ \E r \in R : r[1] = n /\ ast'[n] = r[2]
      BY <2>3, <2>6, MarkedBy
    <3>2. ASSUME NEW r \in R, r[1] = n, ast'[n] = r[2] PROVE ast'[n][1] = ast[n][1]
      <4>1. RowOK(r)
        BY <2>1
      <4> QED
        BY <3>2, <4>1 DEF RowOK
    <3> QED
      BY <3>1, <3>2
  <2> QED
    BY <2>4, <2>5, <2>6
<1>2. CASE ~Mark
  <2>1. UNCHANGED ast
    BY <1>2, Zenon
       DEF Next, vars, Start, Ended, CleanSources, Parse, WriteNodes, WriteEdges, Import,
           Annotate, Parse031, Convert, Find, MarkupEnds, Join, FindLabels,
           SaveMap, DumpMap, OthersMap, CountRows, OpenFeatures, WriteFeatures
  <2> QED
    BY <2>1
<1> QED
  BY <1>1, <1>2
-------------------------------------------------------------------------------
PipelineInv == ShapeInv /\ ParseInv /\ LabelInv /\ MarkInv

LEMMA InitParse == Init => ParseInv
BY DEF Init, ParseInv, OneParse, Idle, NoDb, At

LEMMA Inductive == Spec => []PipelineInv
<1>1. Init => PipelineInv
  BY InitShape, InitParse, InitLabels, InitMarks DEF PipelineInv
<1>2. PipelineInv /\ [Next]_vars => PipelineInv'
  BY NextShape, NextParse, NextLabels, NextMarks DEF PipelineInv
<1> QED
  BY <1>1, <1>2, PTL DEF Spec

(* The files of Joern, of the import and of the graph stay of one version of *)
(* the sources: nothing replaces a part of the chain, and its first link is  *)
(* there before the others are made (convert.sh, neo4j-admin, converter.py). *)
THEOREM VersionsAgree == Spec => []OneParse
<1>1. PipelineInv => OneParse
  BY DEF PipelineInv, ParseInv
<1> QED
  BY <1>1, Inductive, PTL

(* The values of a complete features.csv are under the labels they were      *)
(* counted for: the map only grows, so a map of the same size is the same.   *)
THEOREM HeadersMatch == Spec => []HeaderMatchesRows
<1>1. PipelineInv => HeaderMatchesRows
  BY DEF PipelineInv, LabelInv
<1> QED
  BY <1>1, Inductive, PTL

(* What was mapped for the dataset is in the features extracted later.       *)
THEOREM LabelsAreCounted == Spec => []MappedIsCounted
<1>1. PipelineInv => MappedIsCounted
  BY DEF PipelineInv, LabelInv
<1> QED
  BY <1>1, Inductive, PTL

(* A markup keeps its version, for any graph and any order of the rows: the  *)
(* rows of a program are of nodes that only the program itself has marked.   *)
THEOREM MarkupsStay == Spec => MarkupKept
<1>1. PipelineInv /\ [Next]_vars =>
        [\A n \in Id : ast[n] # Unmarked => ast'[n][1] = ast[n][1]]_vars
  BY KeepsMarkup DEF PipelineInv
<1> QED
  BY <1>1, Inductive, PTL DEF Spec, MarkupKept
-------------------------------------------------------------------------------
(* That a markup which came to its end without a failed bundle has left no   *)
(* node out (MarkupComplete), for any graph and any size of the bundles.     *)

(* A node is in a bundle that the program still holds.                       *)
InBundles(n, b) == \E i \in DOMAIN b : \E k \in DOMAIN b[i] : b[i][k][1] = n

(* Every row is in a bundle: the one of its place, divided by the limit.     *)
LEMMA Quotient ==
  ASSUME NEW L \in Nat \ {0}, NEW x \in Nat, NEW y \in Nat, x <= y
  PROVE  /\ x \div L \in Nat /\ x \div L <= y \div L
         /\ (x \div L) * L <= x /\ x < (x \div L + 1) * L
<1>1. \A z \in Nat : z \div L \in Nat /\ (z \div L) * L <= z /\ z < (z \div L + 1) * L
  OBVIOUS
<1> DEFINE p == x \div L
           q == y \div L
<1>2. p \in Nat /\ q \in Nat /\ p * L <= x /\ y < (q + 1) * L
  BY <1>1
<1> HIDE DEF p, q
<1>3. p * L < (q + 1) * L
  BY <1>2
<1>4. p < q + 1
  BY <1>2, <1>3
<1> QED
  BY <1>1, <1>2, <1>4 DEF p, q

LEMMA EveryRow ==
  ASSUME NEW R, NEW s \in Seq(R), NEW j \in 1..Len(s)
  PROVE  InBundles(s[j][1], Bundles(s))
<1> DEFINE q == (j - 1) \div Limit
           k == Len(s) \div Limit + 1
           i == q + 1
           m == q * Limit + 1
           n == Min({i * Limit, Len(s)})
<1>1. Limit \in Nat \ {0} /\ Len(s) \in Nat /\ j - 1 \in Nat /\ j - 1 <= Len(s)
  BY PipelineAssumption
<1>2. /\ q \in Nat /\ q <= Len(s) \div Limit
      /\ q * Limit <= j - 1 /\ j - 1 < (q + 1) * Limit
  BY <1>1, Quotient
<1>3. k \in Nat
  BY <1>1, Quotient
<1>4. i \in 1..k /\ i - 1 = q
  <2> HIDE DEF q
  <2> DEFINE p == Len(s) \div Limit
  <2>1. q \in Nat /\ q <= p /\ p + 1 \in Nat /\ p \in Nat
    BY <1>1, <1>2, <1>3, Quotient
  <2> HIDE DEF p
  <2>2. q + 1 \in 1..(p + 1) /\ (q + 1) - 1 = q
    BY <2>1
  <2> QED
    BY <2>2 DEF p
<1>5. i * Limit \in Nat /\ j <= i * Limit
  BY <1>1, <1>2
<1>6. n \in Int /\ j <= n /\ n <= Len(s)
  <2>1. \A x \in Int : /\ Min({x, Len(s)}) \in {x, Len(s)}
                       /\ Min({x, Len(s)}) <= Len(s)
    BY <1>1 DEF Min
  <2> QED
    BY <1>1, <1>5, <2>1
<1>7. m \in Int /\ 1 <= m /\ m <= j
  <2>1. q * Limit \in Nat
    BY <1>1, <1>2
  <2> QED
    BY <1>2, <2>1
<1>8. Bundles(s)[i] = SubSeq(s, m, n) /\ i \in DOMAIN Bundles(s)
  <2>1. Bundles(s) = [t \in 1..k |->
                        SubSeq(s, (t - 1) * Limit + 1, Min({t * Limit, Len(s)}))]
    BY DEF Bundles
  <2> HIDE DEF i, k, q
  <2>2. i \in DOMAIN Bundles(s)
        /\ Bundles(s)[i] = SubSeq(s, (i - 1) * Limit + 1, Min({i * Limit, Len(s)}))
    BY <1>4, <2>1
  <2> QED
    BY <1>4, <2>2
<1> HIDE DEF m, n, i, k
<1>9. \A t \in m..n : s[t] \in R
  BY <1>6, <1>7, ElementOfSeq
<1> DEFINE u == SubSeq(s, m, n)
<1>10. /\ u \in Seq(R) /\ Len(u) = n - m + 1
       /\ \A t \in 1..(n - m + 1) : u[t] = s[m + t - 1]
  BY <1>6, <1>7, <1>9, SubSeqProperties
<1>11. j - m + 1 \in 1..(n - m + 1) /\ m + (j - m + 1) - 1 = j
  BY <1>6, <1>7
<1> HIDE DEF u
<1>12. j - m + 1 \in DOMAIN u /\ u[j - m + 1] = s[j]
  BY <1>10, <1>11
<1> QED
  BY <1>8, <1>12 DEF InBundles, u

(* All nodes that a markup program is to mark are in its bundles.            *)
LEMMA FoundAll ==
  ASSUME ShapeInv, NEW v \in 1..3, NEW s \in SetToSeqs(Rows(v)),
         NEW n \in Roots(v), ast[n] = Unmarked
  PROVE  InBundles(n, Bundles(s))
<1>1. PICK m : m \in Markups(v, n)
  <2>1. CASE v = 1
    <3>1. Markups(v, n) = {Markup1(n)}
      BY <2>1 DEF Markups
    <3> QED
      BY <3>1
  <2>2. CASE v = 2
    <3>1. Markups(v, n) = {Markup2(n)}
      BY <2>2 DEF Markups
    <3> QED
      BY <3>1
  <2>3. CASE v = 3
    <3>1. Markups(v, n) = Markups3(n)
      BY <2>3 DEF Markups
    <3>2. Markups3(n) # {}
      BY DEF Markups3
    <3> QED
      BY <3>1, <3>2
  <2> QED
    BY <2>1, <2>2, <2>3
<1> DEFINE R == Rows(v)
           D == 1..Cardinality(R)
<1>2. <<n, m>> \in R
  BY <1>1 DEF Rows
<1>3. IsFiniteSet(R)
  BY RowsFinite
<1>4. s \in [D -> R] /\ \A i, j \in D : i # j => s[i] # s[j]
  BY Zenon DEF SetToSeqs
<1> HIDE DEF R
<1>5. Cardinality(R) \in Nat
  BY <1>3, FS_CardinalityType, Zenon
<1>6. s \in Injection(D, R)
  BY <1>4 DEF Injection, IsInjective
<1>7. IsFiniteSet(D) /\ Cardinality(D) = Cardinality(R)
  BY <1>5, FS_Interval
<1>8. s \in Surjection(D, R)
  BY <1>3, <1>6, <1>7, FS_Injection
<1>9. PICK j \in D : s[j] = <<n, m>>
  BY <1>2, <1>8 DEF Surjection
<1>10. s \in Seq(R) /\ Len(s) = Cardinality(R)
  BY <1>4, <1>5
<1>11. InBundles(s[j][1], Bundles(s))
  BY <1>5, <1>10, EveryRow
<1> QED
  BY <1>9, <1>11
-------------------------------------------------------------------------------
(* The graph does not change once there are nodes in it and a markup has     *)
(* ended; what a markup is to mark and has not marked, it holds.             *)
Marks(v) == \A n \in Roots(v) : ast[n] # Unmarked
GraphInv ==
  /\ db.nodes # {} \/ last.version # 0 \/ At("mark") => db.exists
  /\ At("nodes") \/ At("edges") \/ At("import") \/ At("parse031") \/ At("convert") =>
       db.nodes = {}
  /\ At("annotate") /\ db.nodes # {} => last.version = 0
HoldInv ==
  At("mark") /\ ~job.failed =>
    \A v \in 1..3 : v = job.version =>
      \A n \in Roots(v) : ast[n] = Unmarked => InBundles(n, job.bundles)
LastInv ==
  /\ last.version \in 0..3
  /\ \A v \in 1..3 : v = last.version /\ ~last.failed => Marks(v)

LEMMA RootsSame ==
  ASSUME NEW v \in 1..3, UNCHANGED <<db.nodes, db.ver, db.joined, db.annotated>>
  PROVE  Roots(v)' = Roots(v)
<1>1. Flows' = Flows /\ \A n : Children(n)' = Children(n)
  BY DEF Flows, Children
<1>2. CASE v = 1
  BY <1>1, <1>2 DEF Roots
<1>3. CASE v = 2
  BY <1>1, <1>3 DEF Roots
<1>4. CASE v = 3
  BY <1>1, <1>4 DEF Roots
<1> QED
  BY <1>2, <1>3, <1>4

(* Every step keeps what is said of the graph.                               *)
LEMMA NextGraph == ShapeInv /\ ParseInv /\ GraphInv /\ LastInv /\ [Next]_vars => GraphInv'
<1> SUFFICES ASSUME ShapeInv, ParseInv, GraphInv, LastInv, [Next]_vars PROVE GraphInv'
  OBVIOUS
<1>a. job.todo # <<>> => \/ Tail(job.todo) = <<>>
                         \/ <<Head(job.todo), Head(Tail(job.todo))>> \in Successive
  BY Steps DEF ShapeInv
<1>b. /\ DOMAIN job = {"todo", "labels", "bundles", "version", "failed"}
      /\ db \in [exists : BOOLEAN, ver : Versions, nodes : SUBSET Id, annotated : BOOLEAN,
                 joined : BOOLEAN]
  BY DEF ShapeInv
<1>c. Idle.todo = <<>>
  BY DEF Idle
<1>d. /\ db.nodes # {} => parse.ver # None
      /\ At("parse031") => parse.ver = None
  BY DEF ParseInv
<1> HIDE DEF Idle
<1> USE <1>a, <1>b, <1>c, <1>d DEF GraphInv, Successive, NoDb, Empty, At, Goes, Ends
<1>1. CASE Start
  <2>1. PICK p \in Programs, v \in 1..3 :
          /\ p = RunJoern031 => parse.ver = None
          /\ job' = [Idle EXCEPT !.todo = p, !.version = v]
    BY <1>1, Zenon DEF Start, Programs
  <2>2. job'.todo = p
    BY <2>1 DEF Idle
  <2>3. Head(p) \in First /\ (Head(p) = "parse031" => p = RunJoern031)
    BY Starts, Tails, Zenon DEF Programs
  <2>4. UNCHANGED <<db, last>>
    BY <1>1 DEF Start
  <2> QED
    BY <2>1, <2>2, <2>3, <2>4 DEF First
<1>2. CASE Ended
  BY <1>2 DEF Ended
<1>3. CASE CleanSources
  BY <1>3 DEF CleanSources
<1>4. CASE Parse
  BY <1>4 DEF Parse
<1>5. CASE WriteNodes
  BY <1>5 DEF WriteNodes
<1>6. CASE WriteEdges
  BY <1>6 DEF WriteEdges
<1>7. CASE Import
  BY <1>7 DEF Import
<1>8. CASE Annotate
  BY <1>8 DEF Annotate
<1>9. CASE Parse031
  BY <1>9 DEF Parse031
<1>10. CASE Convert
  BY <1>10 DEF Convert
<1>11. CASE Find
  BY <1>11 DEF Find
<1>12. CASE Mark
  BY <1>12 DEF Mark
<1>13. CASE MarkupEnds
  BY <1>13 DEF MarkupEnds
<1>14. CASE Join
  BY <1>14 DEF Join, LastInv
<1>15. CASE FindLabels
  BY <1>15 DEF FindLabels
<1>16. CASE SaveMap
  BY <1>16 DEF SaveMap
<1>17. CASE DumpMap
  BY <1>17 DEF DumpMap
<1>18. CASE OthersMap
  BY <1>18 DEF OthersMap
<1>19. CASE CountRows
  <2>1. At("rows") /\ db' = Empty(db) /\ UNCHANGED last
    BY <1>19, Zenon DEF CountRows
  <2>2. job'.todo = Tail(job.todo) \/ job'.todo = <<>>
    <3>1. CASE job' = [job EXCEPT !.todo = Tail(@), !.labels = map.labels]
      BY <3>1
    <3>2. CASE Ends
      BY <3>2
    <3> QED
      BY <1>19, <3>1, <3>2, Zenon DEF CountRows
  <2> QED
    BY <2>1, <2>2
<1>20. CASE OpenFeatures
  BY <1>20 DEF OpenFeatures
<1>21. CASE WriteFeatures
  BY <1>21 DEF WriteFeatures
<1>22. CASE UNCHANGED vars
  BY <1>22 DEF vars
<1> QED
  BY <1>1, <1>2, <1>3, <1>4, <1>5, <1>6, <1>7, <1>8, <1>9, <1>10, <1>11, <1>12, <1>13,
     <1>14, <1>15, <1>16, <1>17, <1>18, <1>19, <1>20, <1>21, <1>22 DEF Next

(* A bundle leaves none of its nodes unmarked.                               *)
LEMMA MarkedAll ==
  ASSUME NEW R, NEW s \in Seq(R), \A r \in R : r[2] # Unmarked,
         NEW n \in Id, Marked(s)[n] = Unmarked
  PROVE  ast[n] = Unmarked /\ \A k \in DOMAIN s : s[k][1] # n
<1> DEFINE mine == {k \in DOMAIN s : s[k][1] = n}
<1>1. Marked(s)[n] = IF mine = {} THEN ast[n] ELSE s[Max(mine)][2]
  BY DEF Marked
<1>2. CASE mine = {}
  BY <1>1, <1>2
<1>3. CASE mine # {}
  <2>1. Len(s) \in Nat /\ mine \in SUBSET (1..Len(s))
    OBVIOUS
  <2> DEFINE k == Max(mine)
  <2>2. k \in mine
    BY <1>3, <2>1, MaxIn
  <2> HIDE DEF k
  <2>3. s[k] \in R
    BY <2>2, ElementOfSeq
  <2> QED
    BY <1>1, <1>3, <2>3 DEF k
<1> QED
  BY <1>2, <1>3

LEMMA MarkStep ==
  ASSUME ShapeInv, MarkInv, Mark, NEW n \in Id, ast'[n] = Unmarked
  PROVE  /\ ast[n] = Unmarked
         /\ ~job'.failed /\ InBundles(n, job.bundles) => InBundles(n, job'.bundles)
<1> DEFINE b == job.bundles
           OK == ast' = Marked(Head(b)) /\ job' = [job EXCEPT !.bundles = Tail(@)]
           Fails == UNCHANGED ast /\ job' = [job EXCEPT !.bundles = Tail(@), !.failed = TRUE]
<1>1. PICK R : b \in Seq(Seq(R)) /\ \A r \in R : RowOK(r)
  BY DEF MarkInv
<1>2. b # <<>> /\ (OK \/ Fails)
  BY Zenon DEF Mark
<1>3. DOMAIN job = {"todo", "labels", "bundles", "version", "failed"}
  BY DEF ShapeInv
<1>4. CASE Fails
  BY <1>3, <1>4
<1>5. CASE OK
  <2> DEFINE s == Head(b)
             t == Tail(b)
  <2>1. /\ s \in Seq(R) /\ t \in Seq(Seq(R)) /\ Len(t) = Len(b) - 1
        /\ \A i \in 1..Len(t) : t[i] = b[i + 1]
    BY <1>1, <1>2, HeadTailProperties
  <2>2. s = b[1]
    BY <1>1, <1>2
  <2>3. ast' = Marked(s) /\ job'.bundles = t
    BY <1>3, <1>5
  <2> HIDE DEF b, s, t
  <2>4. ast[n] = Unmarked /\ \A k \in DOMAIN s : s[k][1] # n
    BY <1>1, <2>1, <2>3, MarkedAll DEF RowOK
  <2>5. ASSUME InBundles(n, b) PROVE InBundles(n, t)
    <3>1. PICK i \in DOMAIN b : \E k \in DOMAIN b[i] : b[i][k][1] = n
      BY <2>5 DEF InBundles
    <3>2. i # 1
      BY <2>2, <2>4, <3>1
    <3>3. i - 1 \in 1..Len(t) /\ (i - 1) + 1 = i /\ DOMAIN t = 1..Len(t)
      BY <1>1, <2>1, <3>1, <3>2
    <3>4. t[i - 1] = b[i]
      BY <2>1, <3>3
    <3> QED
      BY <3>1, <3>3, <3>4 DEF InBundles
  <2> QED
    BY <2>3, <2>4, <2>5 DEF b
<1> QED
  BY <1>2, <1>4, <1>5

(* Every step keeps what a markup program is said to hold.                   *)
LEMMA NextHold == ShapeInv /\ MarkInv /\ HoldInv /\ [Next]_vars => HoldInv'
<1> SUFFICES ASSUME ShapeInv, MarkInv, HoldInv, [Next]_vars PROVE HoldInv'
  OBVIOUS
<1>a. job.todo # <<>> => \/ Tail(job.todo) = <<>>
                         \/ <<Head(job.todo), Head(Tail(job.todo))>> \in Successive
  BY Steps DEF ShapeInv
<1>b. DOMAIN job = {"todo", "labels", "bundles", "version", "failed"}
  BY DEF ShapeInv
<1>c. Idle.todo = <<>>
  BY DEF Idle
<1>d. job.todo # <<>> => job.version \in 1..3
  BY DEF MarkInv
<1>e. \A v \in 1..3 : Roots(v) \subseteq Id
  BY DEF Roots, ShapeInv
<1>f. ASSUME job.todo # <<>>, ~At("find"), job'.todo = Tail(job.todo) \/ job'.todo = <<>>
      PROVE  HoldInv'
  <2>1. ~At("mark")'
    BY <1>a, <1>f DEF At, Successive
  <2> QED
    BY <2>1, Zenon DEF HoldInv
<1>g. Goes \/ Ends => job'.todo = Tail(job.todo) \/ job'.todo = <<>>
  BY <1>b, <1>c DEF Goes, Ends
<1>1. CASE Start
  <2>1. PICK p \in Programs, v \in 1..3 : job' = [Idle EXCEPT !.todo = p, !.version = v]
    BY <1>1, Zenon DEF Start, Programs
  <2>2. job'.todo = p
    BY <2>1 DEF Idle
  <2>3. Head(p) \in First
    BY Starts
  <2>4. ~At("mark")'
    BY <2>2, <2>3 DEF At, First
  <2> QED
    BY <2>4, Zenon DEF HoldInv
<1>2. CASE Ended
  <2>1. ~At("mark")'
    BY <1>2, <1>c DEF Ended, Ends, At
  <2> QED
    BY <2>1, Zenon DEF HoldInv
<1>3. CASE CleanSources
  <2>1. job.todo # <<>> /\ ~At("find") /\ (Goes \/ Ends)
    BY <1>3 DEF CleanSources, At
  <2> QED
    BY <1>f, <1>g, <2>1
<1>4. CASE Parse
  <2>1. job.todo # <<>> /\ ~At("find") /\ (Goes \/ Ends)
    BY <1>4 DEF Parse, At
  <2> QED
    BY <1>f, <1>g, <2>1
<1>5. CASE WriteNodes
  <2>1. job.todo # <<>> /\ ~At("find") /\ (Goes \/ Ends)
    BY <1>5 DEF WriteNodes, At
  <2> QED
    BY <1>f, <1>g, <2>1
<1>6. CASE WriteEdges
  <2>1. job.todo # <<>> /\ ~At("find") /\ (Goes \/ Ends)
    BY <1>6 DEF WriteEdges, At
  <2> QED
    BY <1>f, <1>g, <2>1
<1>7. CASE Import
  <2>1. job.todo # <<>> /\ ~At("find") /\ (Goes \/ Ends)
    BY <1>7 DEF Import, At
  <2> QED
    BY <1>f, <1>g, <2>1
<1>8. CASE Annotate
  <2>1. job.todo # <<>> /\ ~At("find") /\ (Goes \/ Ends)
    BY <1>8 DEF Annotate, At
  <2> QED
    BY <1>f, <1>g, <2>1
<1>9. CASE Parse031
  <2>1. job.todo # <<>> /\ ~At("find") /\ (Goes \/ Ends)
    BY <1>9 DEF Parse031, At
  <2> QED
    BY <1>f, <1>g, <2>1
<1>10. CASE Convert
  <2>1. job.todo # <<>> /\ ~At("find") /\ (Goes \/ Ends)
    BY <1>10 DEF Convert, At
  <2> QED
    BY <1>f, <1>g, <2>1
<1>11. CASE Find
  <2>1. PICK s \in SetToSeqs(Rows(job.version)) :
          job' = [job EXCEPT !.todo = Tail(@), !.bundles = Bundles(s)]
    BY <1>11, Zenon DEF Find
  <2>2. job'.version = job.version /\ job'.bundles = Bundles(s)
    BY <1>b, <2>1
  <2>3. job.version \in 1..3 /\ UNCHANGED ast
    BY <1>11, <1>d, Zenon DEF Find, At
  <2>4. UNCHANGED <<db.nodes, db.ver, db.joined, db.annotated>>
    BY <1>11 DEF Find, Empty, ShapeInv
  <2>5. \A v \in 1..3 : Roots(v)' = Roots(v)
    BY <2>4, RootsSame
  <2>6. \A n \in Roots(job.version) : ast[n] = Unmarked => InBundles(n, Bundles(s))
    BY <2>3, FoundAll
  <2>7. ASSUME NEW v \in 1..3, v = job'.version
        PROVE  \A n \in Roots(v)' : ast'[n] = Unmarked => InBundles(n, job'.bundles)
    BY <2>2, <2>3, <2>5, <2>6, <2>7
  <2> QED
    BY <2>7 DEF HoldInv, InBundles
<1>12. CASE Mark
  <2>1. job.version \in 1..3 /\ UNCHANGED db /\ At("mark")
    BY <1>12, <1>d, Zenon DEF Mark, At
  <2>2. job'.version = job.version /\ (~job'.failed => ~job.failed)
    BY <1>12, <1>b DEF Mark
  <2>3. \A v \in 1..3 : Roots(v)' = Roots(v)
    BY <2>1, RootsSame
  <2>4. ASSUME ~job'.failed, NEW v \in 1..3, v = job'.version,
               NEW n \in Roots(v), ast'[n] = Unmarked
        PROVE  InBundles(n, job'.bundles)
    <3>1. n \in Id
      BY <1>e
    <3>2. ast[n] = Unmarked /\ (InBundles(n, job.bundles) => InBundles(n, job'.bundles))
      BY <1>12, <2>4, <3>1, MarkStep
    <3> QED
      BY <2>1, <2>2, <2>4, <3>2 DEF HoldInv
  <2> QED
    BY <2>3, <2>4 DEF HoldInv, InBundles
<1>13. CASE MarkupEnds
  <2>1. job.todo # <<>> /\ ~At("find") /\ (Goes \/ Ends)
    BY <1>13 DEF MarkupEnds, At
  <2> QED
    BY <1>f, <1>g, <2>1
<1>14. CASE Join
  <2>1. job.todo # <<>> /\ ~At("find") /\ (Goes \/ Ends)
    BY <1>14 DEF Join, At
  <2> QED
    BY <1>f, <1>g, <2>1
<1>15. CASE FindLabels
  <2>1. job.todo # <<>> /\ ~At("find")
    BY <1>15 DEF FindLabels, At
  <2>2. job'.todo = Tail(job.todo)
    BY <1>15, <1>b DEF FindLabels
  <2> QED
    BY <1>f, <2>1, <2>2
<1>16. CASE SaveMap
  <2>1. job.todo # <<>> /\ ~At("find") /\ (Goes \/ Ends)
    BY <1>16 DEF SaveMap, At
  <2> QED
    BY <1>f, <1>g, <2>1
<1>17. CASE DumpMap
  <2>1. job.todo # <<>> /\ ~At("find") /\ (Goes \/ Ends)
    BY <1>17 DEF DumpMap, At
  <2> QED
    BY <1>f, <1>g, <2>1
<1>18. CASE OthersMap
  <2>1. UNCHANGED <<job, ast, db>>
    BY <1>18 DEF OthersMap
  <2>2. \A v \in 1..3 : Roots(v)' = Roots(v)
    BY <2>1, RootsSame
  <2> QED
    BY <1>d, <2>1, <2>2 DEF HoldInv, At, InBundles
<1>19. CASE CountRows
  <2>1. job.todo # <<>> /\ ~At("find")
    BY <1>19 DEF CountRows, At
  <2>2. CASE job' = [job EXCEPT !.todo = Tail(@), !.labels = map.labels]
    BY <1>b, <1>f, <2>1, <2>2
  <2>3. CASE Ends
    BY <1>f, <1>g, <2>1, <2>3
  <2> QED
    BY <1>19, <2>2, <2>3, Zenon DEF CountRows
<1>20. CASE OpenFeatures
  <2>1. job.todo # <<>> /\ ~At("find") /\ (Goes \/ Ends)
    BY <1>20 DEF OpenFeatures, At
  <2> QED
    BY <1>f, <1>g, <2>1
<1>21. CASE WriteFeatures
  <2>1. job.todo # <<>> /\ ~At("find") /\ (Goes \/ Ends)
    BY <1>21 DEF WriteFeatures, At
  <2> QED
    BY <1>f, <1>g, <2>1
<1>22. CASE UNCHANGED vars
  <2>1. UNCHANGED <<job, ast, db>>
    BY <1>22 DEF vars
  <2>2. \A v \in 1..3 : Roots(v)' = Roots(v)
    BY <2>1, RootsSame
  <2> QED
    BY <1>d, <2>1, <2>2 DEF HoldInv, At, InBundles
<1> QED
  BY <1>1, <1>2, <1>3, <1>4, <1>5, <1>6, <1>7, <1>8, <1>9, <1>10, <1>11, <1>12, <1>13,
     <1>14, <1>15, <1>16, <1>17, <1>18, <1>19, <1>20, <1>21, <1>22 DEF Next

(* Every step keeps what is said of the last markup.                         *)
LEMMA NextLast ==
  ShapeInv /\ MarkInv /\ GraphInv /\ HoldInv /\ LastInv /\ [Next]_vars => LastInv'
<1> SUFFICES ASSUME ShapeInv, MarkInv, GraphInv, HoldInv, LastInv, [Next]_vars PROVE LastInv'
  OBVIOUS
<1>a. db \in [exists : BOOLEAN, ver : Versions, nodes : SUBSET Id, annotated : BOOLEAN,
              joined : BOOLEAN]
  BY DEF ShapeInv
<1>b. ASSUME UNCHANGED last, last.version = 0 PROVE LastInv'
  BY <1>b DEF LastInv
<1>c. ASSUME UNCHANGED <<ast, last>>, db' = db \/ db' = Empty(db) PROVE LastInv'
  <2>1. UNCHANGED <<db.nodes, db.ver, db.joined, db.annotated>>
    BY <1>a, <1>c DEF Empty
  <2>2. \A v \in 1..3 : Roots(v)' = Roots(v)
    BY <2>1, RootsSame
  <2>3. \A v \in 1..3 : Marks(v) => Marks(v)'
    BY <1>c, <2>2 DEF Marks
  <2> QED
    BY <1>c, <2>3 DEF LastInv
<1>1. CASE Start
  BY <1>1, <1>c DEF Start
<1>2. CASE Ended
  BY <1>2, <1>c DEF Ended
<1>3. CASE CleanSources
  BY <1>3, <1>c DEF CleanSources
<1>4. CASE Parse
  BY <1>4, <1>c DEF Parse
<1>5. CASE WriteNodes
  BY <1>5, <1>c DEF WriteNodes
<1>6. CASE WriteEdges
  BY <1>6, <1>c DEF WriteEdges
<1>7. CASE Import
  <2>1. UNCHANGED <<ast, last>>
    BY <1>7 DEF Import
  <2>2. CASE db' = Empty(db)
    BY <1>c, <2>1, <2>2
  <2>3. CASE ~db.exists
    BY <1>b, <2>1, <2>3 DEF GraphInv
  <2> QED
    BY <1>7, <2>2, <2>3, Zenon DEF Import
<1>8. CASE Annotate
  <2>1. UNCHANGED <<ast, last>> /\ db'.nodes = db.nodes
    BY <1>8, <1>a DEF Annotate, Empty
  <2>2. CASE last.version = 0
    BY <1>b, <2>1, <2>2
  <2>3. CASE db.nodes = {}
    <3>1. \A v \in 1..3 : Roots(v)' = {}
      BY <2>1, <2>3 DEF Roots
    <3>2. \A v \in 1..3 : Marks(v)'
      BY <3>1 DEF Marks
    <3> QED
      BY <2>1, <3>2 DEF LastInv
  <2> QED
    BY <1>8, <2>2, <2>3 DEF Annotate, GraphInv
<1>9. CASE Parse031
  BY <1>9, <1>c DEF Parse031
<1>10. CASE Convert
  <2>1. UNCHANGED <<ast, last>>
    BY <1>10 DEF Convert
  <2>2. CASE db.exists
    BY <1>10, <1>c, <2>1, <2>2 DEF Convert
  <2>3. CASE ~db.exists
    BY <1>b, <2>1, <2>3 DEF GraphInv
  <2> QED
    BY <2>2, <2>3
<1>11. CASE Find
  BY <1>11, <1>c DEF Find
<1>12. CASE Mark
  <2>1. UNCHANGED <<db, last>>
    BY <1>12 DEF Mark
  <2>2. \A v \in 1..3 : Roots(v)' = Roots(v)
    BY <2>1, RootsSame
  <2>3. \A v \in 1..3 : Roots(v) \subseteq Id
    BY DEF Roots, ShapeInv
  <2>4. \A n \in Id : ast[n] # Unmarked => ast'[n] # Unmarked
    BY <1>12, MarkStep
  <2>5. \A v \in 1..3 : Marks(v) => Marks(v)'
    BY <2>2, <2>3, <2>4 DEF Marks
  <2> QED
    BY <2>1, <2>5 DEF LastInv
<1>13. CASE MarkupEnds
  <2>1. /\ last' = [version |-> job.version, failed |-> job.failed]
        /\ At("mark") /\ job.bundles = <<>> /\ UNCHANGED <<db, ast>>
    BY <1>13 DEF MarkupEnds
  <2>2. job.version \in 1..3
    BY <2>1 DEF MarkInv, At
  <2>3. \A n : ~InBundles(n, job.bundles)
    BY <2>1 DEF InBundles
  <2>4. \A v \in 1..3 : v = job.version /\ ~job.failed => Marks(v)
    BY <2>1, <2>3 DEF HoldInv, Marks
  <2>5. \A v \in 1..3 : Roots(v)' = Roots(v)
    BY <2>1, RootsSame
  <2>6. \A v \in 1..3 : Marks(v) => Marks(v)'
    BY <2>1, <2>5 DEF Marks
  <2>7. last'.version = job.version /\ last'.failed = job.failed
    BY <2>1
  <2>8. \A v \in 1..3 : v = last'.version /\ ~last'.failed => Marks(v)'
    BY <2>4, <2>6, <2>7
  <2> QED
    BY <2>2, <2>7, <2>8 DEF LastInv
<1>14. CASE Join
  BY <1>14 DEF Join, LastInv
<1>15. CASE FindLabels
  BY <1>15, <1>c DEF FindLabels
<1>16. CASE SaveMap
  BY <1>16, <1>c DEF SaveMap
<1>17. CASE DumpMap
  BY <1>17, <1>c DEF DumpMap
<1>18. CASE OthersMap
  BY <1>18, <1>c DEF OthersMap
<1>19. CASE CountRows
  BY <1>19, <1>c DEF CountRows
<1>20. CASE OpenFeatures
  BY <1>20, <1>c DEF OpenFeatures
<1>21. CASE WriteFeatures
  BY <1>21, <1>c DEF WriteFeatures
<1>22. CASE UNCHANGED vars
  BY <1>22, <1>c DEF vars
<1> QED
  BY <1>1, <1>2, <1>3, <1>4, <1>5, <1>6, <1>7, <1>8, <1>9, <1>10, <1>11, <1>12, <1>13,
     <1>14, <1>15, <1>16, <1>17, <1>18, <1>19, <1>20, <1>21, <1>22 DEF Next
-------------------------------------------------------------------------------
(* A markup that has ended without a failed bundle has left no node out:     *)
(* the bundles are all of the rows, none is dropped but with an error, and   *)
(* what Neo4J holds changes no more once there are nodes.                    *)
THEOREM MarkupsAreComplete == Spec => []MarkupComplete
<1> DEFINE Inv == PipelineInv /\ GraphInv /\ HoldInv /\ LastInv
<1>1. Init => GraphInv /\ HoldInv /\ LastInv
  BY DEF Init, Idle, NoDb, At, GraphInv, HoldInv, LastInv
<1>2. PipelineInv /\ GraphInv /\ HoldInv /\ LastInv /\ [Next]_vars
        => (GraphInv /\ HoldInv /\ LastInv)'
  BY NextGraph, NextHold, NextLast DEF PipelineInv
<1>3. LastInv => MarkupComplete
  BY DEF LastInv, MarkupComplete, Marks
<1> QED
  BY <1>1, <1>2, <1>3, Inductive, PTL DEF Spec
===============================================================================
