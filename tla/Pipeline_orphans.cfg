SPECIFICATION FairSpec
CONSTANTS
    l1 = l1  l2 = l2  i1 = i1  i2 = i2
    None = None
    Launchers = {l1, l2}
    Inputs = {i1}
    Args <- FilterArgs
    Qualities = {"clean", "bad"}
    Faults = {"signal", "kill", "machine", "child", "debris"}
    MaxFaults = 2
INVARIANTS StagesInOrder CleanFeatures
PROPERTIES ImplementsStagedRun
PROPERTIES Completes
