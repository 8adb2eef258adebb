SPECIFICATION Spec
CONSTANTS
  NumVars = 3
  Problems <- SmallProblems
  WorkerCounts = {1, 3}
  Thetas = {1, 1000}
  MaxDepth = 2
  PriorityDepth = 1
  UsePriority = TRUE
  Weight <- WeightLast
INVARIANTS SatFound
CHECK_DEADLOCK FALSE
