SPECIFICATION Spec
CONSTANTS
  a = a
  b = b
  None = None
  AllFalse = AllFalse
  Sol = {a, b}
  Cost <- CostTwo
  Inf = 9
  NegInf = 0
  NumCubeWorkers = 1
  Optimizing = TRUE
  Backend = "roundingsat"
  Share <- ShareAB
  ObjMin = 1
  LowerBounds = {3, 4}
  Clauses = {}
  MaxDepth = 1
  MaxParts = 2
INVARIANTS Coverage LowerBoundsValid
PROPERTIES KeepsPromise
CHECK_DEADLOCK FALSE
