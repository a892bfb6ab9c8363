SPECIFICATION Spec
CONSTANTS
    Exceptions = {e1}
    WithResult = {e1}
    Priced = {e1}
    Reviews = {r1}
    Assessments = {}
    Evaluations = {v1}
    MaxClock = 1
    Fallible = FALSE
    NoReview = NoReview
    UnknownId = UnknownId
INVARIANT MetricsCountOpenExceptions
CHECK_DEADLOCK FALSE
