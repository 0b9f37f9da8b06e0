SPECIFICATION Spec
CONSTANTS
    l1 = l1  l2 = l2  i1 = i1  i2 = i2
    None = None
    Launchers = {l1, l2}
    Inputs = {i1}
    Args <- ServerArgs
    Qualities = {"clean", "bad"}
    Faults = {"signal", "machine", "child"}
    MaxFaults = 2
INVARIANTS GpusReleased
CHECK_DEADLOCK FALSE
