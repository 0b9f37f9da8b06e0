SPECIFICATION FairSpec
CONSTANTS
  TotalSteps = 5
  Keeps = {0, 1, 2}
  MaxLaunches = 4
  None = None
  World = 3
  Accum = 2
  Batches = 12
  SaveInterval = 2
  EvalInterval = 3
  Overwrite = FALSE
  MaxFaults = 2
INVARIANT LatestLoadable
INVARIANT CollectivesAgree
INVARIANT ReturnsLastStep
 
