----------------------------- MODULE MCFlowGraph -----------------------------
(* A test case of three functions for TLC: main declares x, calls f with x   *)
(* and may loop; f has the parameter y; h calls f, and nothing calls h.      *)
EXTENDS FlowExtractor, TLC

CONSTANTS Loop, Calling

V(x) == <<Plain, x>>
P(x) == <<Pointed, x>>
A(x) == <<Address, x>>

Nodes  == {"m0", "decl", "call", "last", "mx", "f0", "par", "body", "ret", "end", "fx",
           "h0", "hcall", "hx"}
Kinds  == "m0" :> Entry @@ "decl" :> Decl @@ "call" :> Expression @@ "last" :> "Condition"
          @@ "mx" :> Exit @@ "f0" :> Entry @@ "par" :> "Parameter" @@ "body" :> Expression
          @@ "ret" :> "ReturnStatement" @@ "end" :> Expression @@ "fx" :> Exit
          @@ "h0" :> Entry @@ "hcall" :> Expression @@ "hx" :> Exit
Fns    == [n \in Nodes |-> IF n \in {"m0", "decl", "call", "last", "mx"} THEN 1
                         ELSE IF n \in {"h0", "hcall", "hx"} THEN 3 ELSE 2]
Names  == <<"main", "f", "h">>
Symbols == {"x", "y", "z", "g"}
Edges  == {<<"m0", "decl">>, <<"decl", "call">>, <<"call", "last">>, <<"last", "mx">>,
           <<"f0", "par">>, <<"par", "body">>, <<"body", "ret">>, <<"body", "end">>,
           <<"ret", "fx">>, <<"end", "fx">>,
           <<"h0", "hcall">>, <<"hcall", "hx">>}
          \union (IF Loop THEN {<<"last", "call">>} ELSE {})
Doms   == {<<"last", "mx">>, <<"ret", "fx">>}
Ctrls  == {<<"m0", "decl">>, <<"m0", "call">>, <<"m0", "last">>, <<"f0", "par">>,
           <<"f0", "body">>, <<"body", "ret">>, <<"body", "end">>, <<"h0", "hcall">>}
Asts   == [n \in Nodes |-> IF n \in {"call", "hcall", "body"} THEN "call" ELSE Kinds[n]]
Called == {<<n, "f">> : n \in Calling}
Args   == {<<n, 0, V("x")>> : n \in Calling}
Nums   == [n \in {"par"} |-> 0]
Adr    == {<<"call", V("x")>>}
Copy   == {<<"last", V("z")>>}
Arr    == {<<"decl", V("x"), 10>>}
Spur   == {<<"decl", P("x")>>}
AlwaysDef == {<<"decl", V("x")>>, <<"par", V("y")>>, <<"decl", P("x")>>}
AlwaysUse == {<<"call", V("x")>>, <<"body", V("y")>>, <<"last", V("z")>>}
MayDef == {<<"decl", V("g")>>, <<"body", V("g")>>, <<"body", V("y")>>, <<"body", P("y")>>}
MayUse == {<<"call", A("x")>>, <<"last", V("x")>>, <<"end", V("y")>>,
           <<"ret", V("y")>>}
Sets   == {[def |-> AlwaysDef \union d, use |-> AlwaysUse \union u] :
             d \in SUBSET MayDef, u \in SUBSET MayUse}
OneSet == {[def |-> AlwaysDef, use |-> AlwaysUse]}

(* The test case is one that the theorems about calls and about the          *)
(* extractors speak of.                                                      *)
ASSUME TestCaseAssumption == Returning /\ WithinFunctions /\ Connected
===============================================================================
