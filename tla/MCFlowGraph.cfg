SPECIFICATION GraphSpec
CONSTANTS
  Loop = TRUE
  Calling = {"call", "hcall"}
  Node <- Nodes
  Kind <- Kinds
  Fn <- Fns
  Name <- Names
  Symbol <- Symbols
  Flows <- Edges
  Dom <- Doms
  Calls <- Called
  Argument <- Args
  Number <- Nums
  AddressOf <- Adr
  Copies <- Copy
  Arrays <- Arr
  Assigns = {"call", "last", "body"}
  Spurious <- Spur
  Imported <- Sets
  Control <- Ctrls
  Ast <- Asts
INVARIANTS
  NoStepLost
  EndsStayConnected
  
  ExtractorsAgree
  SharesAgree

  
CHECK_DEADLOCK FALSE
