SPECIFICATION Spec
CONSTANTS
    Exceptions = {e1}
    WithResult = {e1}
    Priced = {e1}
    Reviews = {r1}
    Assessments = {a1}
    Evaluations = {}
    MaxClock = 2
    Fallible = FALSE
    NoReview = NoReview
    UnknownId = UnknownId
INVARIANT LatestBriefIsCurrent
CHECK_DEADLOCK FALSE
