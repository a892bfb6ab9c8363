SPECIFICATION DraftFairSpec
CONSTANTS
    e1 = e1
    e2 = e2
    x1 = x1
    x2 = x2
    None = None
    Exceptions = {e1, e2}
    WithResult = {e1, e2}
    Priced = {e1}
    Reviews = {r1, r2}
    Assessments = {a1, a2}
    Evaluations = {v1}
    MaxClock = 1
    Fallible = FALSE
    NoReview = NoReview
    UnknownId = UnknownId
    Amount <- MCAmount
    SourceOf <- MCSourceOf
    KindOf <- MCKindOf
    RiskOf <- MCRiskOf
    TitleOf <- MCTitleOf
    Oversized = {}
    Configured = TRUE
    Answers <- MCAnswers
INVARIANTS
    MetricsNeverUndercount
    BriefsCoverOpenWork
    BriefAccountsForOpenWork

PROPERTIES
    ReviewsAnswered
    GenerationsComplete
CHECK_DEADLOCK FALSE
