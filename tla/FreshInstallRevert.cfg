CONSTANTS
    m1 = m1
    m2 = m2
    a1 = a1
    a2 = a2
    Machines = {m1}
    Revisions = {a1, a2}
    RevisionsOf <- OneMachine
    None = None
    LegacyHelper = FALSE
    MaxJobs = 3
    MaxBuilds = 4
SPECIFICATION Spec
INVARIANTS WaitCanSucceed
CHECK_DEADLOCK FALSE
