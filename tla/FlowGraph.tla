------------------------------- MODULE FlowGraph -------------------------------
(***************************************************************************)
(* The graph of one test case and the commands that are run on it, one     *)
(* after the other: the annotations (COMMANDS in                           *)
(* bugfinder/processing/neo4j/annot.py) and the commands that join the     *)
(* flows of the functions (InterprocMerger in                              *)
(* bugfinder/processing/interproc.py).  A command of the latter is run     *)
(* again when the connection is lost, whether or not it has been executed. *)
(* Test cases share no node, so one is enough.                             *)
(*                                                                         *)
(* The syntax trees are abstracted to what the commands look for in them:  *)
(* which statement calls what, declares, indexes or allocates what.  A     *)
(* variable is <<Plain, x>>, what it points to <<Pointed, x>>, its address *)
(* <<Address, x>>; each function has symbols of its own.                   *)
(***************************************************************************)
EXTENDS Naturals, FiniteSetsExt, SequencesExt

CONSTANTS
  Node,       \* nodes of the control flow graphs
  Kind,       \* the type of each node
  Fn,         \* the function each node is in
  Symbol,     \* names of variables
  Name,       \* the name of each function
  Flows,      \* <<a, b>>: FLOWS_TO as imported
  Dom,        \* <<a, b>>: DOM, from each node to what it dominates
  Calls,      \* <<n, x>>: n calls x, and not as an argument of another call
  Argument,   \* <<n, i, v>>: the i-th argument of that call uses v
  Number,     \* childNum of the parameters
  AddressOf,  \* <<n, v>>: n takes the address of v
  Copies,     \* <<n, v>>: n calls a function that writes to its argument v
  Arrays,     \* <<n, v, k>>: n declares or allocates v with size k
  Assigns,    \* nodes with an assignment
  Spurious,   \* <<n, v>>: n defines v only in the eyes of Joern
  Imported    \* the possible DEF and USE of the nodes: [def, use]

Expression == "ExpressionStatement"
Decl       == "IdentifierDeclStatement"
Entry      == "CFGEntryNode"
Exit       == "CFGExitNode"
Usable     == {Expression, Decl, "ForInit", "Condition"}
Plain      == ""
Pointed    == "*"
Address    == "&"
None       == <<Plain, "none">>

Variables  == {Plain, Pointed, Address} \X Symbol

Statements(f) == {n \in Node : Fn[n] = f /\ Kind[n] \notin {Entry, Exit}}
Main          == {n \in Node : Kind[n] = Entry /\ Name[Fn[n]] = "main"}

ASSUME GraphAssumption ==
  /\ IsFiniteSet(Node) /\ DOMAIN Kind = Node /\ DOMAIN Fn = Node
  /\ Flows \subseteq Node \X Node /\ Dom \subseteq Node \X Node
  /\ IsFiniteSet(Symbol)
  /\ Copies \subseteq Node \X Variables
  /\ AddressOf \subseteq Node \X Variables
  /\ Arrays \subseteq Node \X Variables \X Nat /\ IsFiniteSet(Arrays)
  /\ \A i \in Imported : i.def \subseteq Node \X Variables /\ i.use \subseteq Node \X Variables

VARIABLES
  graph,    \* flow, shortcut, def, use, reach, sinks: the relationships
  next,     \* index of the next command
  again,    \* times that the last command was run again
  origin    \* ghost: the graph before the redundant data flow is removed

graphVars == <<graph, next, again, origin>>

Flow(a, b, call)       == [from |-> a, to |-> b, call |-> call]
Data(a, b, v, src, sz) == [from |-> a, to |-> b, var |-> v, src |-> src, size |-> sz]
Pairs(R)               == {<<r.from, r.to>> : r \in R}

(* Nodes at the end of one or more edges that begin in S.                    *)
Ahead(E, S) == {e[2] : e \in {x \in E : x[1] \in S}}
Reached(E, S) ==
  LET n == Cardinality({e[2] : e \in E})
      Way[k \in 0..n] ==
        IF k = 0 THEN Ahead(E, S) ELSE LET T == Way[k - 1] IN T \union Ahead(E, T)
  IN  Way[n]

(* Walks that use no edge twice: what -[:T*]-> matches.                      *)
OneMore(R, T) ==
  {Append(p[1], p[2]) : p \in {q \in T \X R : q[2] \notin ToSet(q[1]) /\ Last(q[1]).to = q[2].from}}
Trails(R) ==
  LET All[k \in 1..Cardinality(R)] == IF k = 1 THEN {<<r>> : r \in R} ELSE OneMore(R, All[k - 1])
  IN  IF R = {} THEN {} ELSE UNION {All[k] : k \in DOMAIN All}

(* MERGE of a data flow of v: one that is there, with whatever else it       *)
(* carries, is enough.                                                       *)
Merge(R, new) ==
  R \union {d \in new : \A r \in R : ~(r.from = d.from /\ r.to = d.to /\ r.var = d.var)}
-------------------------------------------------------------------------------
(* Data flow as it is imported: from a definition to the uses it reaches.    *)
Unkilled(def, n, v) ==
  LET open == {e \in Flows : e[1] = n \/ <<e[1], v>> \notin def} IN Reached(open, {n})

GraphInit ==
  /\ \E i \in Imported :
       graph = [flow |-> {Flow(e[1], e[2], {}) : e \in Flows}, shortcut |-> {},
                def |-> i.def, use |-> i.use, sinks |-> {},
                reach |-> {Data(q[1][1], q[2][1], q[1][2], None, 0) :
                             q \in {p \in i.def \X i.use :
                                      /\ p[1][2] = p[2][2]
                                      /\ p[2][1] \in Unkilled(i.def, p[1][1], p[1][2])}}]
  /\ next = 1
  /\ again = 0
  /\ origin = {}
-------------------------------------------------------------------------------
(* The annotations that change the flows.                                    *)

NoNull(g) == {[g EXCEPT !.reach = {r \in @ : r.var # <<Plain, "NULL">>},
                        !.def   = {d \in @ : d[2] # <<Plain, "NULL">>}]}

NoFlowToExit(g) == {[g EXCEPT !.reach = {r \in @ : Kind[r.to] # Exit}]}

(* The edges of v that can be reached from n along edges of v.               *)
Along(g, n, v) ==
  LET R == {r \in g.reach : r.var = v}
  IN  {r \in R : r.from \in {n} \union Reached(Pairs(R), {n})}

(* Rows <<edges, size, source>> set one after the other: where two meet, the *)
(* one that the database comes to last stays.                                *)
Resized(r, x) == [r EXCEPT !.size = x[2], !.src = IF x[3] = None THEN @ ELSE x[3]]
Sized(g, rows) ==
  LET hit == UNION {x[1] : x \in rows}
      Rows(r) == {x \in rows : r \in x[1]}
  IN  {[g EXCEPT !.reach = (@ \ hit) \union {Resized(r, f[r]) : r \in hit}] :
         f \in {h \in [hit -> rows] : \A r \in hit : h[r] \in Rows(r)}}

SizeOfArrays(g) == Sized(g, {<<Along(g, a[1], a[2]), a[3], None>> : a \in Arrays})

SizeOfAssigned(g) ==
  Sized(g, {<<Along(g, x[1], x[3][2]), x[2].size, x[2].var>> : x \in
             {t \in Assigns \X g.reach \X g.def :
                /\ t[2].to = t[1] /\ t[2].size # 0 /\ <<t[1], t[2].var>> \in g.use
                /\ t[3][1] = t[1]}})

NoSpuriousDef(g) ==
  {[g EXCEPT !.def = {d \in @ : d \notin Spurious}]}
-------------------------------------------------------------------------------
(* interproc_cmds_pre: functions that copy or read define their destination. *)

CopiesDefine(g) ==
  {[g EXCEPT !.def = @ \union {c \in Copies : c \in g.use /\ Kind[c[1]] \in Usable}]}

(* interproc_cmds_tc, one operator for each.                                 *)

(* Calls and the entries of what they call.                                  *)
Invoked == {c \in Node \X Node : /\ Kind[c[1]] \in {Expression, "Condition"}
                                 /\ Kind[c[2]] = Entry
                                 /\ <<c[1], Name[Fn[c[2]]]>> \in Calls}

(* Mutant of Connect: a callee that returns nowhere.                         *)
ConnectOneWay(g) ==
  {[g EXCEPT !.flow = {r \in @ : \A c \in Invoked : c[1] # r.from}
                        \union {Flow(c[1], c[2], {}) : c \in Invoked}]}

(* Mutant of Following: the callee follows its call, too.                    *)
FollowingAny(g, n) == {r \in g.flow : r.from = n}

(* What comes after a call in the function of the call.                      *)
Following(g, n) == {r \in g.flow : r.from = n /\ Kind[r.to] # Entry}

Into(g) == {Flow(c[1], c[2], {}) : c \in {x \in Invoked : x \notin Pairs(g.flow)}}

(* An exit with a statement of f before it.                                  *)
Leaves(g, f, e) == /\ Kind[e] = Exit
                   /\ \E l \in Statements(Fn[f]) : <<l, e>> \in Pairs(g.flow \union Into(g)) \union Dom

Routed(g) == {x \in Invoked \X Node \X g.flow :
                /\ x[3] \in Following(g, x[1][1])
                /\ Leaves(g, x[1][2], x[2])}

(* From each call to the entry of the callee, from its exit to what followed *)
(* the call, and no longer from the call to what followed it.                *)
Connect(g) ==
  {[g EXCEPT !.flow = (@ \union Into(g) \union {Flow(x[2], x[3].to, {x[1]}) : x \in Routed(g)})
                        \ {x[3] : x \in Routed(g)},
             !.shortcut = @ \union {<<x[1][1], x[3].to>> : x \in Routed(g)}]}

(* Global variables: defined after the entry of main, declared nowhere, used *)
(* somewhere along the control flow before another definition.               *)
Globals(g) ==
  LET E        == Pairs(g.flow)
      local    == {d[2] : d \in {x \in g.def : Kind[x[1]] \in {Decl, "Parameter"}}}
      start    == {d \in g.def : /\ d[1] \in Reached(E, Main)
                                 /\ d[2][1] # Pointed /\ d[2] \notin local}
      Users(d) == {n \in Reached({e \in E : e[1] = d[1] \/ <<e[1], d[2]>> \notin g.def}, {d[1]}) :
                     n # d[1] /\ <<n, d[2]>> \in g.use}
  IN  {[g EXCEPT !.reach = Merge(@, UNION {{Data(d[1], n, d[2], None, 0) : n \in Users(d)} :
                                             d \in start})]}

(* What defines *x and uses x defines x.                                     *)
StarVariables(g) ==
  {[g EXCEPT !.def = @ \union {<<x[1], <<Plain, x[2][2]>>>> : x \in
      {d \in g.def : d[2][1] = Pointed /\ <<d[1], <<Plain, d[2][2]>>>> \in g.use
                     /\ Kind[d[1]] \in {Expression, "Condition"}}}]}

(* &x reaches from the declaration of x to where the address is taken, and   *)
(* what then holds the address defines what it points to.                    *)
Addresses(g) ==
  LET E     == Pairs(g.flow)
      taken == {t \in Node \X Node \X {a[2][2] : a \in AddressOf} :
                  /\ <<t[1], <<Plain, t[3]>>>> \in AddressOf /\ Kind[t[1]] \in Usable
                  /\ <<t[1], <<Address, t[3]>>>> \in g.use
                  /\ t[2] # t[1] /\ t[1] \in Reached(E, {t[2]})
                  /\ <<t[2], <<Plain, t[3]>>>> \in g.def /\ Kind[t[2]] \in {Decl, "Parameter"}}
      reach == Merge(g.reach, {Data(t[2], t[1], <<Address, t[3]>>, None, 0) : t \in taken})
      def   == g.def \union {<<t[2], <<Address, t[3]>>>> : t \in taken}
      Near(n) == Reached(E, {n}) \union {m \in Node : n \in Reached(E, {m})}
      point == {<<q[1][1], <<Pointed, q[2][2][2]>>>> : q \in
                  {p \in taken \X def : /\ p[1][1] = p[2][1]
                                        /\ \E u \in Near(p[1][1]) \ {p[1][1]} :
                                             /\ Kind[u] = Expression
                                             /\ <<u, <<Pointed, p[2][2][2]>>>> \in g.use}}
  IN  {[g EXCEPT !.reach = reach, !.def = def \union point]}

(* A definition reaches every use of its symbol further on, if it did not.   *)
MissingFlow(g) ==
  {[g EXCEPT !.reach = Merge(@, {Data(q[1][1], q[2][1], q[1][2], None, 0) : q \in
      {p \in g.def \X g.use : /\ p[1][2] = p[2][2] /\ Fn[p[1][1]] = Fn[p[2][1]]
                              /\ p[1][1] # p[2][1]
                              /\ p[2][1] \in Reached(Pairs(g.flow), {p[1][1]})}})]}

(* Mutant of ParameterOf: arguments are counted from one.                    *)
ParameterAfter(f, i) == {p \in Node : Kind[p] = "Parameter" /\ Fn[p] = Fn[f] /\ Number[p] = i + 1}

ParameterOf(f, i) == {p \in Node : Kind[p] = "Parameter" /\ Fn[p] = Fn[f] /\ Number[p] = i}

(* The flow into an argument goes into the parameter instead, and that from  *)
(* the return statements into the call.                                      *)
Arguments(g) ==
  LET rows == {x \in Node \X Node \X Argument \X g.reach :
                 /\ Kind[x[1]] \in {Expression, "Condition"} /\ Kind[x[2]] = Entry
                 /\ <<x[1], x[2]>> \in Pairs(g.flow)
                 /\ x[3][1] = x[1] /\ <<x[1], x[3][3]>> \in g.use
                 /\ x[4].to = x[1] /\ <<x[4].from, x[3][3]>> \in g.def}
      into == {i \in rows \X Node \X {d[2] : d \in g.def} :
                 /\ i[2] \in ParameterOf(i[1][2], i[1][3][2]) /\ <<i[2], i[3]>> \in g.def}
      params == {<<i[2], i[3]>> : i \in into}
      passed == Merge(g.reach \ {x[4] : x \in rows},
                      {Data(i[1][4].from, i[2], i[3], None, 0) : i \in into})
      back   == {Data(b[1], b[2][1][1], None, None, 0) : b \in
                   {q \in Node \X into : /\ Kind[q[1]] = "ReturnStatement"
                                         /\ Fn[q[1]] = Fn[q[2][1][2]]}}
      renamed == {IF \E q \in params : q[1] = r.from
                  THEN [r EXCEPT !.src = (CHOOSE q \in params : q[1] = r.from)[2]] ELSE r :
                    r \in passed}
  IN  {[g EXCEPT !.reach = Merge(renamed, back)]}

(* Of two paths of data flow with the same ends and the same last variable,  *)
(* next to each other in the order of their lengths, the shorter one loses   *)
(* what the longer has not, if the longer goes through all of its nodes.     *)
Follows(t) == \A i \in 2..Len(t) : t[i - 1].var \in {t[i].var, t[i].src} \ {None}
NodesOf(t) == {t[1].from} \union {t[i].to : i \in DOMAIN t}
Paths(g)   == {t \in Trails(g.reach) :
                 /\ t[1].from \in Reached(Pairs(g.flow), Main)
                 /\ \A r \in g.reach : r.to # t[1].from /\ r.from # Last(t).to
                 /\ Follows(t)}
Ends(t)    == <<t[1].from, Last(t).to, Last(t).var>>
ByLength(S) == {s \in SetToSeqs(S) : \A i \in 2..Len(s) : Len(s[i - 1]) <= Len(s[i])}
(* Mutant of Shortcuts: both of two paths lose what the other has not.       *)
ShortcutsOfBoth(s) ==
  UNION {IF NodesOf(s[i]) \subseteq NodesOf(s[i + 1])
         THEN (ToSet(s[i]) \union ToSet(s[i + 1])) \ (ToSet(s[i]) \intersect ToSet(s[i + 1]))
         ELSE {} : i \in 1..(Len(s) - 1)}

Shortcuts(s) == UNION {IF NodesOf(s[i]) \subseteq NodesOf(s[i + 1])
                       THEN ToSet(s[i]) \ ToSet(s[i + 1]) ELSE {} : i \in 1..(Len(s) - 1)}

Redundant(g) ==
  LET groups == {Ends(t) : t \in Paths(g)}
      Orders(e) == ByLength({t \in Paths(g) : Ends(t) = e})
      Removals == {UNION {Shortcuts(f[e]) : e \in groups} :
                     f \in {h \in [groups -> UNION {Orders(e) : e \in groups}] :
                              \A e \in groups : h[e] \in Orders(e)}}
  IN  {[g EXCEPT !.reach = @ \ X] : X \in Removals}

(* A size is passed on to data flow of the same variable that has none, and  *)
(* along whatever follows without one.                                       *)
PropagateSizes(g) ==
  LET Same(a, b) == a.to = b.from /\ a.var \in {b.var, b.src} \ {None}
      rows  == {p \in g.reach \X g.reach : /\ p[1].from \in Reached(Pairs(g.flow), Main)
                                           /\ Same(p[1], p[2])
                                           /\ p[1].size # 0 /\ p[2].size = 0}
      open  == {r \in g.reach : r.size = 0 /\ \A p \in rows : p[2] # r}
      after == {p \in g.reach \X open : Same(p[1], p[2])}
      Hit(k) == {p[2] : p \in {x \in rows : x[1].size = k}}
  IN  Sized(g, {<<Hit(k) \union Reached(after, Hit(k)), k, None>> : k \in {p[1].size : p \in rows}})

(* Post-processing: a sink is reached, and reaches nothing.                  *)
Sinks(g) == {[g EXCEPT !.sinks = {d \in Node : /\ \E r \in g.reach : r.to = d /\ r.from # d
                                               /\ \A r \in g.reach : r.from # d}]}
-------------------------------------------------------------------------------
Commands == <<"NoNull", "NoFlowToExit", "SizeOfArrays", "SizeOfAssigned", "NoSpuriousDef",
              "CopiesDefine", "Connect", "Globals", "StarVariables", "Addresses",
              "MissingFlow", "Arguments", "Redundant", "PropagateSizes", "Sinks">>
Retried  == {"Connect", "Globals", "StarVariables", "Addresses", "MissingFlow", "Arguments",
             "Redundant", "PropagateSizes"}

Outcomes(c, g) == CASE c = "NoNull"         -> NoNull(g)
                    [] c = "NoFlowToExit"   -> NoFlowToExit(g)
                    [] c = "SizeOfArrays"   -> SizeOfArrays(g)
                    [] c = "SizeOfAssigned" -> SizeOfAssigned(g)
                    [] c = "NoSpuriousDef"  -> NoSpuriousDef(g)
                    [] c = "CopiesDefine"   -> CopiesDefine(g)
                    [] c = "Connect"        -> Connect(g)
                    [] c = "Globals"        -> Globals(g)
                    [] c = "StarVariables"  -> StarVariables(g)
                    [] c = "Addresses"      -> Addresses(g)
                    [] c = "MissingFlow"    -> MissingFlow(g)
                    [] c = "Arguments"      -> Arguments(g)
                    [] c = "Redundant"      -> Redundant(g)
                    [] c = "PropagateSizes" -> PropagateSizes(g)
                    [] c = "Sinks"          -> Sinks(g)

Run == /\ next \in DOMAIN Commands
       /\ graph' \in Outcomes(Commands[next], graph)
       /\ next' = next + 1
       /\ again' = 0
       /\ origin' = graph.reach

(* The answer to the command was lost: it is run again on what it has left.  *)
RunAgain == /\ next > 1
            /\ Commands[next - 1] \in Retried
            /\ again < 1
            /\ again' = again + 1
            /\ graph' \in Outcomes(Commands[next - 1], graph)
            /\ UNCHANGED <<next, origin>>

GraphNext == Run \/ RunAgain

GraphSpec == GraphInit /\ [][GraphNext]_graphVars
-------------------------------------------------------------------------------
Done(c) == next > CHOOSE i \in DOMAIN Commands : Commands[i] = c

(* A command that is run twice, because the answer to its first run was      *)
(* lost, leaves the graph as the first run left it (the four tries of        *)
(* interproc_worker).                                                        *)
RetryHarmless == [][RunAgain => graph' = graph]_graphVars

(* What a program that ends may be expected to satisfy: each function that   *)
(* is called has, to each of its exits, a way on which it calls nothing that *)
(* has no such way without it.  A recursion has a case in which it ends.     *)
Returning ==
  LET entries == {n \in Node : Kind[n] = Entry}
  IN  \E rank \in [entries -> 0..Cardinality(Node)] : \A c \in Invoked, e \in Node :
        LET Simple == {x \in Flows : \A d \in Invoked : d[1] = x[1] => rank[d[2]] < rank[c[2]]}
        IN  /\ Kind[e] = Exit
            /\ \E l \in Statements(Fn[c[2]]) : <<l, e>> \in Flows \union Dom
            => e \in Reached(Simple, {c[2]})

(* Whatever could be reached along the control flow of a function can still  *)
(* be reached when its calls go through the callees (the first command).     *)
NoStepLost ==
  \A n \in Node : Reached(Flows, {n}) \subseteq Reached(Pairs(graph.flow), {n})

(* Whatever is defined for an argument flows into the parameter it is passed *)
(* to, once all commands on the data flow are through: those that find the   *)
(* flow, that lead it into the callee, and that remove what is redundant.    *)
ArgumentsArrive ==
  Done("Arguments") =>
    \A a \in Argument, d \in graph.def, p \in Node :
      /\ d[2] = a[3] /\ a \in Argument /\ <<a[1], a[3]>> \in graph.use
      /\ a[1] \in Reached(Flows, {d[1]}) /\ d[1] # a[1]
      /\ Kind[p] = "Parameter" /\ Number[p] = a[2] /\ <<a[1], Name[Fn[p]]>> \in Calls
      => p \in Reached(Pairs(graph.reach), {d[1]})

(* The removal of redundant data flow leaves the ends of the data flow       *)
(* connected: a source still reaches the sinks that it reached.              *)
EndsStayConnected ==
  Done("Redundant") =>
    \A t \in Paths([graph EXCEPT !.reach = origin]) :
      Last(t).to \in Reached(Pairs(graph.reach), {t[1].from})
===============================================================================
