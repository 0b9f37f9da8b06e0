SPECIFICATION FairSpec
CONSTANTS
  j1 = j1
  j2 = j2
  c1 = c1
  c2 = c2
  Jobs = {j1, j2}
  Size <- ThreeOne
  Contract <- TwoContracts
  Worlds = {1}
  MaxLaunches = 3
  Faults = {"raise"}
  MaxFaults = 2
  Whole = Whole
  Merged = Merged
  None = None
PROPERTY EventuallyStored
PROPERTY GenerationsImmutable
