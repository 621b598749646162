\* The clients, with a child whose outputs are up to three characters each.
SPECIFICATION Spec
CONSTANTS
  Stream = {"out", "err"}
  NL = "NL"
  Char = {"c"}
  Client = {"version", "info", "b_info", "filter", "select"}
  BufSize = 2
  MaxText <- MCText
  MaxFeed = 1
  PipeCap <- MCPipeCap
INVARIANTS
  Delivered
  SkipDrains
  OutcomeTrue
PROPERTIES
  LinesImplement
  ParentEnds
