CONSTANTS
    x1 = x1
    x2 = x2
    y1 = y1
    Choices = {x1, x2, y1}
    ProjectOf <- ThreeChoices
    None = None
    MaxServers = 3
    MaxRuns = 3
SPECIFICATION Spec
CHECK_DEADLOCK FALSE
INVARIANTS TypeOK NothingOrderedTwice KeysOfMarkedRig
PROPERTIES NothingElseDeleted OnlyNewHelperUnchecked ImplementsFleet
