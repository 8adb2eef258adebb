SPECIFICATION FairSpec
CONSTANTS
  a = a
  b = b
  None = None
  AllFalse = AllFalse
  Sol = {a}
  Cost <- CostOne
  Inf = 9
  NegInf = 0
  NumCubeWorkers = 1
  Optimizing = TRUE
  Backend = "native"
  Share <- ShareA
  ObjMin = 1
  LowerBounds = {}
  Clauses = {}
  MaxDepth = 1
  MaxParts = 1
PROPERTIES StopHeeded
CHECK_DEADLOCK FALSE
