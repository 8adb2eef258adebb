SPECIFICATION Spec
CONSTANTS
  a = a
  b = b
  None = None
  AllFalse = AllFalse
  Sol = {a, b}
  Cost <- CostTwo
  Inf = 9
  NegInf = 0
  NumCubeWorkers = 1
  Optimizing = TRUE
  Backend = "native"
  Share <- ShareAB
  ObjMin = 1
  LowerBounds = {}
  Clauses = {}
  MaxDepth = 0
  MaxParts = 1
INVARIANTS SolutionMatchesCost
CHECK_DEADLOCK FALSE
