CONSTANTS
    x1 = x1
    x2 = x2
    y1 = y1
    Choices = {x1}
    ProjectOf <- OneChoice
    None = None
    MaxServers = 3
    MaxRuns = 2
SPECIFICATION Spec
CHECK_DEADLOCK FALSE
PROPERTIES ReadyIsChecked
