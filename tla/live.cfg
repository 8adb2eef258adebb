SPECIFICATION FairSpec
CONSTANTS
  a = a
  b = b
  None = None
  AllFalse = AllFalse
  Sol = {a}
  Cost <- CostOne
  Inf = 9
  NegInf = 0
  NumCubeWorkers = 2
  Optimizing = TRUE
  Backend = "native"
  Share <- ShareANone
  ObjMin = 1
  LowerBounds = {}
  Clauses = {}
  MaxDepth = 0
  MaxParts = 1
PROPERTIES Announced StopHeeded
CHECK_DEADLOCK FALSE
