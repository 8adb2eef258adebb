SPECIFICATION Spec
CONSTANTS
  NumVars = 3
  Problems <- SmallProblems
  WorkerCounts = {1, 3}
  Thetas = {0, 1000}
  MaxDepth = 2
  PriorityDepth = 1
  UsePriority = TRUE
  Weight <- WeightLast
INVARIANTS TypeOK Covered Disjoint LevelsMatch CountersAgree TrailEntailed SatJustified
CHECK_DEADLOCK FALSE
