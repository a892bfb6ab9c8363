SPECIFICATION FairSpec
CONSTANTS
    x = x
    y = y
    pay = pay
    setl = setl
    line = line
    nid = nid
    r2 = r2
    None = None
    Requests = {r1, r2}
    Reviews = {v1}
    Exceptions = {x, y}
    Amount <- MCAmount
    Mentions <- MCMentions
    References <- MCReferences
    Records <- MCRecords
    LinesOf <- MCLinesOf
    Ids = {pay, setl, line, nid}
    NotAnId = nid
    Answers <- MCAnswers
    Providers = 2
    MaxRounds = 2
    MaxIds = 2
    MaxRows = 2
    Fallible = TRUE
INVARIANTS
    RecommendationsGrounded
    JournalTellsInvestigations
PROPERTY InvestigationsEnd
CHECK_DEADLOCK FALSE
