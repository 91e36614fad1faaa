CONSTANTS
    m1 = m1
    m2 = m2
    a1 = a1
    a2 = a2
    Machines = {m1, m2}
    Revisions = {a1, a2}
    RevisionsOf <- TwoMachines
    None = None
    LegacyHelper = TRUE
    MaxJobs = 3
    MaxBuilds = 4
SPECIFICATION Spec
INVARIANTS TypeOK JournalCoversProvider SuccessIsInstalled
PROPERTIES RepeatNeedsConsent PostedIsServed GateKeepsPublication ImplementsLedger
CHECK_DEADLOCK FALSE
