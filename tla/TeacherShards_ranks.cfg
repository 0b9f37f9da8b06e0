SPECIFICATION FairSpec
CONSTANTS
  N = 4
  Verdict <- FourRecords
  Worlds = {2, 3}
  Backend = "hf"
  Window = 2
  Faults = {"die", "torn", "window"}
  MaxFaults = 1
  Garbled = Garbled
  Cut = Cut
  Whole = Whole
  None = None
INVARIANT PublishedExact
INVARIANT TotalsMatch
PROPERTY EventuallyAccepted
