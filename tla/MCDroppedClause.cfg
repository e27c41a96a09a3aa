SPECIFICATION Spec
CONSTANTS
    Tables = {"r", "s"}
    Keys = {1, 2}
    Null = Null
    Vals = {0, 1}
    Tids = {1, 2, 3}
    NewRows <- MCNewRows
    MaxWrites = 0
    HT_MAX_ROWS = 2
    GRACE_MAX_K = 2
    GRACE_DDR2_TOTAL_WORDS = 20
    UINT32_RANGE = 64
    lowercase <- MCLowercase
    Gucs <- MCSmallGucs
    Queries <- MCFilteredQueries
    Databases <- MCDatabases
    Estimates = {1, 2, 3}
INVARIANT AnswersQuery
