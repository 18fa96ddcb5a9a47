SPECIFICATION Spec
CONSTANTS
  Files <- FileNames
  Stem <- Stems
  Sources <- AllSources
  Graphs = {"graph"}
  NodesOf <- GraphNodes
  Good = {"good/b"}
  Lengths = {1, 2}
  Width = 2
  MaxOps = 4
INVARIANTS
  NamesStayApart
  VectorsCurrent
PROPERTIES
  RenamingSettles
CHECK_DEADLOCK FALSE
