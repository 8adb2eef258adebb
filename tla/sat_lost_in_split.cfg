SPECIFICATION FairSpec
CONSTANTS
  a = a
  b = b
  None = None
  AllFalse = AllFalse
  Sol = {a}
  Cost <- CostOne
  Inf = 9
  NegInf = 0
  NumCubeWorkers = 1
  Optimizing = FALSE
  Backend = "cadical"
  Share <- ShareA
  ObjMin = 1
  LowerBounds = {}
  Clauses = {}
  MaxDepth = 1
  MaxParts = 1
PROPERTIES SatAnnounced
CHECK_DEADLOCK FALSE
