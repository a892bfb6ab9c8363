SPECIFICATION MetricSpec
CONSTANTS
    l1 = l1
    o1 = o1
    p1 = p1
    d1 = d1
    s1 = s1
    b1 = b1
    None = None
    Source = {l1, o1, p1, d1, s1, b1}
    SourceType <- MCSourceType
    OrderOf <- MCOrderOf
    Outcomes <- MCOutcomeTables
    Truth <- MCTruth
    Quarantined = {q1}
    MaxRuns = 2
    FastRuns = TRUE
    MaxVersion = 2
INVARIANTS
    OpenCountsExact
    MatcherScoresStand
    ViewShowsOpenWork
CHECK_DEADLOCK FALSE
