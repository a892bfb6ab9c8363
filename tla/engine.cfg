SPECIFICATION EngineSpec
CONSTANTS
    References <- MCReferences
    NoReference = ""
    DigitsOf <- MCDigitsOf
    NoDigits = ""
    Ratio <- MCRatio
    TextRatio <- MCTextRatio
    Currencies = {"INR", "USD"}
    Batches <- MCBatches
    Utrs = {1, 2, 9}
INVARIANTS
    TypeOK
    NoRecordTwice
    MatchesAreSupported
    IdentifiersAreUnrivalled
    MissingIsUnclaimed
    SettleTypeOK
    SettledOnce
    SettledIsFunded
    HoldsAreReleased
CHECK_DEADLOCK FALSE
