CONSTANTS
    o1 = o1
    o2 = o2
    n1 = n1
    n2 = n2
    Ahead = {FALSE}
    None = None
    Operators = {o1, o2}
    Nodes = {n1, n2}
    MaxPlans = 2
    MaxConfigs = 2
    MaxErrors = 1
SPECIFICATION FairSpec
CHECK_DEADLOCK FALSE
INVARIANTS TypeOK OnlyExpectedInstalled TableIsComplete
PROPERTIES DoneIsConverged ImplementsStages Ends
