SPECIFICATION FairSpec
CONSTANTS
    Methods = 2
    Samples = 2
    SampleRetries = 1
    Configs = {c1, c2}
    MaxFaults = 3
    MaxLaunches = 4
    None = None
    Torn = Torn
INVARIANT OneConfiguration
INVARIANT PassMeansAll
INVARIANT LatestReported
INVARIANT GapsExplained
PROPERTY EventuallyMeasured
CHECK_DEADLOCK FALSE
