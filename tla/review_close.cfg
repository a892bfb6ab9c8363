SPECIFICATION Spec
CONSTANTS
    Exceptions = {e1, e2, q}
    WithResult = {e1, e2}
    Priced = {e1}
    Reviews = {r1, r2}
    Assessments = {a1, a2}
    Evaluations = {}
    MaxClock = 3
    Fallible = TRUE
    NoReview = NoReview
    UnknownId = UnknownId
SYMMETRY RequestSymmetry
INVARIANTS
    TypeOK
    AnsweredReviewStands
    LinksFollowDecision
    AuditTrailComplete
    StaleAfterLaterReview
    OneGeneration
PROPERTY CaseworkSpec
CHECK_DEADLOCK FALSE
