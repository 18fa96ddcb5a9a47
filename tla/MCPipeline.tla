------------------------------ MODULE MCPipeline ------------------------------
(* Three statements for TLC: 1 flows to 2, and to 3 in the version after a   *)
(* cleaning; 3 has two children, 4 and 5, in the reverse order.              *)
EXTENDS Pipeline, TLC

Types_   == 1 :> "Entry" @@ 2 :> "Condition" @@ 3 :> "Expression" @@ 4 :> "Name" @@ 5 :> "Call"
Parents  == 1 :> 0 @@ 2 :> 0 @@ 3 :> 0 @@ 4 :> 3 @@ 5 :> 3
Places   == 1 :> 0 @@ 2 :> 0 @@ 3 :> 0 @@ 4 :> 1 @@ 5 :> 0
FlowsOf  == << {<<1, 2>>, <<2, 3>>}, {<<1, 3>>} >>
Joins    == {<<3, 1>>}
Alien    == {<<<<"a">>, <<"b">>>>}
===============================================================================
