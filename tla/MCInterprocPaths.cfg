SPECIFICATION GraphSpec
CONSTANTS
  Loop = FALSE
  Calling = {"call"}
  Node <- Nodes
  Kind <- Kinds
  Fn <- Fns
  Name <- Names
  Symbol <- Symbols
  Flows <- Edges
  Dom <- Doms
  Calls <- Called
  Argument <- Args
  Number <- Nums
  AddressOf <- Adr
  Copies <- Copy
  Arrays <- Arr
  Assigns = {"call", "last", "body"}
  Spurious <- Spur
  Imported <- OneSet
  Control <- Ctrls
  Ast <- Asts
INVARIANTS
  AllPathsReturned
CHECK_DEADLOCK FALSE
