CONSTANTS
    c1 = c1
    c2 = c2
    Controllers = {c1, c2}
    Nobody = Nobody
    Plan <- SharedPlan
    Reviewable = {"rvps"}
    MaxReviews = 1
    LateCommits = TRUE
SPECIFICATION Spec
INVARIANTS LatestReviewKept PassLeavesNothing
PROPERTIES DeniedStaysDenied DenialAttributable
