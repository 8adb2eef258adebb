SPECIFICATION FairSpec
CONSTANTS
  None = None
  NumVars = 4
  CutLimit = 16
  Instances <- SmallInstances
  MaxRestarts = 1
  MaxCleanups = 1
  MaxImports = 1
INVARIANTS TypeOK LoadedRight CountersAgree NothingMissed LearnedImplied ReasonsValid AnalysisSucceeds ResultsFit HeapComplete AnswerRight
PROPERTIES SolutionsImprove Terminates
