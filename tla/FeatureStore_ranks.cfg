SPECIFICATION Spec
CONSTANTS
  j1 = j1
  j2 = j2
  c1 = c1
  c2 = c2
  Jobs = {j1}
  Size <- Three
  Contract <- OneContract
  Worlds = {2, 3}
  MaxLaunches = 3
  Faults = {"raise", "kill"}
  MaxFaults = 1
  Whole = Whole
  Merged = Merged
  None = None
INVARIANT StoreWhole
