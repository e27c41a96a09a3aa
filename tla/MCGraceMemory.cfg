SPECIFICATION Spec
CONSTANTS
    HT_MAX_ROWS = 2
    GRACE_MAX_K = 2
    GRACE_DDR2_TOTAL_WORDS = 16
    UINT32_RANGE = 16
    OFFNO_RANGE = 4
    Totals <- MCTotals
    Rows <- MCRows
INVARIANT RowsInMemory
PROPERTY ImplementsPartitions
