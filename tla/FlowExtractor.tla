---------------------------- MODULE FlowExtractor -----------------------------
(***************************************************************************)
(* What the feature extractors read from the graph of a test case: the     *)
(* four bags of words of bugfinder/features/extraction/bag_of_words and    *)
(* the paths of the interprocedural extractor.  A label stands for its     *)
(* three parts, <<markup of the source, flow, markup of the sink>>.        *)
(***************************************************************************)
EXTENDS FlowGraph, Functions

CONSTANTS
  Control,    \* <<a, b>>: CONTROLS as imported
  Ast         \* the AST markup of each node

ASSUME ExtractorAssumption == Control \subseteq Node \X Node

FlowTypes == <<"CONTROLS", "FLOWS_TO", "REACHES">>
Mentioned == {Expression, Decl, "Condition", "ForInit", "BreakStatement", "Parameter",
              "ReturnStatement", "Label", "GotoStatement", "Statement"}

Rel(a, b, type, of) == [from |-> a, to |-> b, type |-> type, of |-> of]

(* One relationship for each of the database.                                *)
Relations(g) == {Rel(c[1], c[2], "CONTROLS", {}) : c \in Control}
                  \union {Rel(r.from, r.to, "FLOWS_TO", {r}) : r \in g.flow}
                  \union {Rel(r.from, r.to, "REACHES", {r}) : r \in g.reach}

(* The labels UpstreamNode and DownstreamNode, set before anything else.     *)
Upstream(n)   == Kind[n] \in Mentioned \union {Entry}
Downstream(n) == Kind[n] \in Mentioned \union {Exit}

SumOf(f) == FoldFunction(+, 0, f)

(* The functions without a caller, except main.                              *)
Entrypoints(g) == {n \in Node : /\ Kind[n] = Entry /\ Name[Fn[n]] # "main"
                                /\ \A r \in g.flow : r.to # n}
-------------------------------------------------------------------------------
(* HopsNFlows: what is connected to the entry point, in either direction.    *)
Subgraph(g, entry) ==
  LET E     == Pairs(Relations(g))
      nodes == {entry} \union Reached(E \union {<<e[2], e[1]>> : e \in E}, {entry})
  IN  {r \in Relations(g) : r.from \in nodes}

(* Mutant of Longer: the type of the next relationship is not looked at.     *)
LongerOfAny(R, T) ==
  {Append(p[1], p[2]) : p \in {q \in T \X R : /\ q[2].from = Last(q[1]).to
                                              /\ q[2] \notin ToSet(q[1])}}

(* One round of the loop: each trail, longer by one relationship of its type *)
(* that is not in it.                                                        *)
Longer(R, T) ==
  {Append(p[1], p[2]) : p \in {q \in T \X R : /\ q[2].from = Last(q[1]).to
                                              /\ q[2] \notin ToSet(q[1])
                                              /\ q[2].type = q[1][1].type}}

(* The limits on the number of hops are checked and then not kept: the       *)
(* program works with the defaults, from one hop to any number.              *)
Hops(g, entry) ==
  LET R == Subgraph(g, entry)
      Round[k \in 1..Cardinality(R)] ==
        IF k = 1 THEN {<<r>> : r \in R} ELSE Longer(R, Round[k - 1])
  IN  {t \in UNION Range(Round) : /\ t[1].from # Last(t).to
                                  /\ Upstream(t[1].from) /\ Downstream(Last(t).to)}

TrailLabel(t, flow) == <<Ast[t[1].from], flow, Ast[Last(t).to]>>

(* Label by label, the sum of the lengths of the trails.                     *)
HopCounts(g, entry) ==
  LET T      == Hops(g, entry)
      labels == {TrailLabel(t, t[1].type) : t \in T}
  IN  [l \in labels |-> SumOf([t \in {u \in T : TrailLabel(u, u[1].type) = l} |-> Len(t)])]
-------------------------------------------------------------------------------
(* AnyHopSingleFlow: trails that begin in the function, counted one each.    *)
SingleCounts(g, entry) ==
  LET Of(flow) == {r \in Relations(g) : r.type = flow}
      T        == {t \in UNION {Trails(Of(flow)) : flow \in ToSet(FlowTypes)} :
                     /\ Fn[t[1].from] = Fn[entry]
                     /\ Upstream(t[1].from) /\ Downstream(Last(t).to)}
      labels   == {TrailLabel(t, t[1].type) : t \in T}
  IN  [l \in labels |-> Cardinality({t \in T : TrailLabel(t, t[1].type) = l})]

(* SingleHopRaw: relationships that begin in the function.                   *)
RawCounts(g, entry) ==
  LET T      == {<<r>> : r \in {x \in Relations(g) : /\ Fn[x.from] = Fn[entry]
                                                     /\ Upstream(x.from) /\ Downstream(x.to)}}
      labels == {TrailLabel(t, t[1].type) : t \in T}
  IN  [l \in labels |-> Cardinality({t \in T : TrailLabel(t, t[1].type) = l})]

(* AnyHopAllFlows: from no more than five hops away from the function, one   *)
(* to three hops of any types.                                               *)
AllCounts(g, entry) ==
  LET R      == Relations(g)
      start  == {n \in Node : Fn[n] = Fn[entry]}
      Near[k \in 0..5] == IF k = 0 THEN start
                          ELSE LET S == Near[k - 1] IN S \union Ahead(Pairs(R), S)
      one    == {<<r>> : r \in {x \in R : x.from \in Near[5] /\ Upstream(x.from)}}
      two    == OneMore(R, one)
      T      == {t \in one \union two \union OneMore(R, two) :
                   Downstream(Last(t).to) /\ t[1].from # Last(t).to}
      Label(t) == TrailLabel(t, [i \in DOMAIN t |-> t[i].type])
  IN  [l \in {Label(t) : t \in T} |-> Cardinality({t \in T : Label(t) = l})]
-------------------------------------------------------------------------------
(* Counts as shares <<count, total>> of all counts of the same flow.         *)
Share(count, total) == IF total = 0 THEN <<0, 1>> ELSE <<count, total>>

(* HopsNFlows.finalize_features: the flow of a label is the first in it.     *)
HopShares(row) ==
  LET Total(flow) == SumOf([l \in {x \in DOMAIN row : x[2] = flow} |-> row[l]])
  IN  [l \in DOMAIN row |-> Share(row[l], Total(l[2]))]

(* Mutant of FlowIndex: the loop stops short of the last flow.               *)
FlowIndexShort(l) == IF l[2] = "REACHES" THEN 2 ELSE 1

(* AnyHopSingleFlow.finalize_features: every label is taken for CONTROLS,    *)
(* until it is found among those of another flow.                            *)
SingleFlows  == <<"CONTROLS", "REACHES", "FLOWS_TO">>
FlowIndex(l) == CHOOSE i \in DOMAIN SingleFlows :
                  SingleFlows[i] = l[2] \/ (i = 1 /\ l[2] \notin ToSet(SingleFlows))
SingleShares(row) ==
  LET summed == [i \in DOMAIN SingleFlows |->
                   SumOf([l \in {x \in DOMAIN row : x[2] = SingleFlows[i]} |-> row[l]])]
  IN  [l \in DOMAIN row |-> Share(row[l], summed[FlowIndex(l)])]
-------------------------------------------------------------------------------
(* The interprocedural extractor: control flow from the entry of main to     *)
(* where it ends.  The query asks of every relationship but the first that   *)
(* it returns to a call before the one that precedes it.                     *)
ControlFlows(g) == {t \in Trails(g.flow) : /\ t[1].from \in Main
                                           /\ \A r \in g.flow : r.from # Last(t).to}
Before(t, i)    == {<<t[j].from, t[j].to>> : j \in 1..i}
Returned(g)     == {t \in ControlFlows(g) :
                      \A i \in 2..Len(t) : /\ t[i].call # {}
                                           /\ t[i].call \subseteq Before(t, i - 2)}
-------------------------------------------------------------------------------
(* The database is at rest, between two programs, once it is annotated and   *)
(* once the functions are joined: nothing else is extracted from.            *)
AtRest == again = 0 /\ (Done("Sinks") \/ (Done("NoSpuriousDef") /\ ~Done("CopiesDefine")))

(* What Joern is expected to import: flow and control within functions, and  *)
(* every statement connected to the entry of its function, by relationships  *)
(* other than the flow from a call.                                          *)
WithinFunctions == \A e \in Flows \union Control : Fn[e[1]] = Fn[e[2]]

Lasting   == Control \union {e \in Flows : \A c \in Invoked : c[1] # e[1]}
Connected == \A f, n \in Node :
               Kind[f] = Entry /\ Fn[n] = Fn[f] /\ Upstream(n) =>
                 n \in {f} \union Reached(Lasting \union {<<e[2], e[1]>> : e \in Lasting}, {f})

(* The extractors find the same labels: whatever a trail of one flow makes a *)
(* feature of for one of them, it does for the other, except a trail that    *)
(* ends where it began (get_flowgraph_list_for_entrypoint of hops_n_flows,   *)
(* single_flow and raw).  Once functions are joined HopsNFlows finds more.   *)
ExtractorsAgree ==
  AtRest => \A e \in Entrypoints(graph) :
    LET hops   == DOMAIN HopCounts(graph, e)
        single == DOMAIN SingleCounts(graph, e)
        raw    == DOMAIN RawCounts(graph, e)
    IN  /\ raw \subseteq single
        /\ \A l \in raw : l[1] # l[3] => <<l[1], <<l[2]>>, l[3]>> \in DOMAIN AllCounts(graph, e)
        /\ \A l \in single \ hops : l[1] = l[3]
        /\ ~Done("Connect") => hops \subseteq single

(* The two ways in which counts are made into shares of their flow give the  *)
(* same row (finalize_features of hops_n_flows and of single_flow).          *)
SharesAgree ==
  AtRest => \A e \in Entrypoints(graph) :
    LET row == HopCounts(graph, e) IN HopShares(row) = SingleShares(row)

(* "Returns all control flows throughout all test cases": every path from    *)
(* the entry of main to an end is returned, if whatever returns from a call  *)
(* returns to one that the path has made (features/extraction/interproc.py). *)
AllPathsReturned ==
  Done("Sinks") =>
    \A t \in ControlFlows(graph) :
      (\A i \in DOMAIN t : t[i].call \subseteq Before(t, i - 1)) => t \in Returned(graph)
===============================================================================
