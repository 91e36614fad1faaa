CONSTANTS
    r1 = r1
    r2 = r2
    l1 = l1
    l2 = l2
    k1 = k1
    k2 = k2
    None = None
    Rigs = {r1}
    Lines = {l1}
    Keys = {k1}
    MaxStops = 1
SPECIFICATION FairSpec
PROPERTIES RestartFinishes
