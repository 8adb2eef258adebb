SPECIFICATION Spec
CONSTANTS
  a = a
  b = b
  None = None
  AllFalse = AllFalse
  Sol = {a, b}
  Cost <- CostTwo
  Inf = 9
  NegInf = 0
  NumCubeWorkers = 2
  Optimizing = FALSE
  Backend = "cadical"
  Share <- ShareABNone
  ObjMin = 1
  LowerBounds = {}
  Clauses = {}
  MaxDepth = 1
  MaxParts = 2
INVARIANTS WorkConserving Coverage Books
PROPERTIES KeepsPromise
CHECK_DEADLOCK FALSE
