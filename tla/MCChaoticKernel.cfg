SPECIFICATION Spec
CONSTANTS
    RX_CREDIT_TUPLES = 4
    ACK_BATCH_FRAMES = 2
    MaxDrops = 0
    MaxDups = 0
    RX_BUF_TUPLES = 2
    RESET_ATTEMPTS = 2
    Configs <- MCConfigs
    Inputs <- MCInputs
    Replies <- MCReplies
INVARIANTS TypeOK WindowAccounting RowsSentInOrder ResetOnceOnExit
PROPERTY ClientEnds
