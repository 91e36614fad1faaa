CONSTANTS
    p1 = p1
    p2 = p2
    u1 = u1
    u2 = u2
    r1 = r1
    None = None
    Torn = Torn
    Collectors = {p1, p2}
    Inputs = {u1, u2}
    KindOf <- KindOfUrls
    ModesOf <- BothUrls
    MaxRuns = 2
    MaxIssued = 2
SPECIFICATION Spec
CHECK_DEADLOCK FALSE
INVARIANTS CurrentIsCertified
