SPECIFICATION Spec
CONSTANTS
    l1 = l1  l2 = l2  i1 = i1  i2 = i2
    None = None
    Launchers = {l1, l2}
    Inputs = {i1, i2}
    Args <- JobArgs
    Qualities = {"clean", "bad", "hopeless"}
    Faults = {"machine", "child"}
    MaxFaults = 2
INVARIANTS OneWriter
PROPERTIES ManifestFrozen
