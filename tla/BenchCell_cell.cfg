SPECIFICATION ChildrenSpec
CONSTANTS
    N = 3
    Weights <- MCWeights
    Groups = 2
    PerGroup = 2
    MaxRoom = 2
    OomRetries = 1
    SampleRetries = 2
    Modes = {"single", "parallel"}
    None = None
    ServerPhases = 2
    Grace = 3
    TermWait = 2
INVARIANT Accounted
INVARIANT FitsBudget
INVARIANT Alone
INVARIANT NothingLeft
PROPERTY ResultsKept
PROPERTY Finishes
CHECK_DEADLOCK FALSE
