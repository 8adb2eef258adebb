SPECIFICATION Spec
CONSTANTS
  None = None
  NumVars = 4
  CutLimit = 16
  Instances <- RepeatedTerms
  MaxRestarts = 1
  MaxCleanups = 1
  MaxImports = 1
INVARIANT LoadedRight
