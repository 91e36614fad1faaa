CONSTANTS
    c1 = c1
    c2 = c2
    Controllers = {c1}
    Nobody = Nobody
    Plan <- SinglePlan
    Reviewable = {}
    MaxReviews = 1
    LateCommits = TRUE
SPECIFICATION Spec
INVARIANTS RestorationHolds
