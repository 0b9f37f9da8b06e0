SPECIFICATION PreparedSpec
CONSTANTS
  Preparations <- Preps
  MaxKills = 1
  Malformed = Malformed
  NoId = NoId
  NoFile = NoFile
  N = 4
  Verdict <- NoPrompt
  Worlds = {1}
  Backend = "server"
  Window = 2
  Faults = {"die", "window"}
  MaxFaults = 3
  Garbled = Garbled
  Cut = Cut
  Whole = Whole
  None = None
INVARIANT SplitsSound
PROPERTY RowsKept
