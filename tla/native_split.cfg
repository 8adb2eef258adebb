SPECIFICATION Spec
CONSTANTS
  a = a
  b = b
  None = None
  AllFalse = AllFalse
  Sol = {a, b}
  Cost <- CostTwo
  Inf = 9
  NegInf = 0
  NumCubeWorkers = 1
  Optimizing = TRUE
  Backend = "native"
  Share <- ShareAB
  ObjMin = 1
  LowerBounds = {}
  Clauses = {{b}}
  MaxDepth = 1
  MaxParts = 2
INVARIANTS TypeOK Coverage PruningJustified LearnedSound CostReported
PROPERTIES ReplyHeeded
CHECK_DEADLOCK FALSE
