CONSTANTS
    r1 = r1
    r2 = r2
    l1 = l1
    l2 = l2
    k1 = k1
    k2 = k2
    None = None
    Rigs = {r1, r2}
    Lines = {l1, l2}
    Keys = {k1, k2}
    MaxStops = 2
SPECIFICATION FairSpec
INVARIANTS TypeOK FinishedIsCurrent PublishedWasApproved ResourcesBehindPolicy
PROPERTIES ImplementsGate Finishes
