CONSTANTS
    c1 = c1
    c2 = c2
    Controllers = {c1, c2}
    Nobody = Nobody
    Plan <- MixedPlan
    Reviewable = {"rvps"}
    MaxReviews = 1
    LateCommits = FALSE
SPECIFICATION FairSpec
INVARIANTS TypeOK ServedChangeOwned RestorationHolds ModificationOwned
PROPERTIES ImplementsEdits ChangeUndoneOrRetained
