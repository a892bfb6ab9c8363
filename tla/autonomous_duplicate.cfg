SPECIFICATION EngineSpec
CONSTANTS
    References <- MCReferences
    NoReference = ""
    DigitsOf <- MCDigitsOf
    NoDigits = ""
    Ratio <- MCRatio
    TextRatio <- MCTextRatio
    Currencies = {"INR", "USD"}
    Batches <- MCBatches
    Utrs = {1, 2, 9}
INVARIANT DuplicatesAreReviewed
CHECK_DEADLOCK FALSE
