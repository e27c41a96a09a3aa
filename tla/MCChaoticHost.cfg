SPECIFICATION Spec
CONSTANTS
    Keys = {"a", "b"}
    Tids = {"t1", "t2", "t3"}
    HT_SLOTS = 3
    HT_MAX_ROWS = 2
    MAX_PROBE_DIST = 3
    slot_of <- MCSlotOf
    ZeroKey = "a"
    ZeroTid = "t1"
    GRACE_MAX_K = 2
    GRACE_DDR2_TOTAL_WORDS = 24
    UINT32_RANGE = 32
    part_hash <- MCPartHash
    TX_BUF_SIZE = 3
    MAX_TX_PAIRS = 2
    RX_BUF_TUPLES = 3
    RX_CREDIT_TUPLES = 2
    ACK_BATCH_FRAMES = 2
    MaxDrops = 0
    MaxDups = 0
    RESULT_FLUSH_PAIRS = 2
    CONFIGURE_PAYLOAD_BYTES = 4
    TUPLE_BYTES = 2
    MAX_PROBE_FRAMES = 3
    Repertoires <- MCRepertoires
INVARIANTS TypeOK MemoryIsOfSession ReportsCountResults DoneMeansJoined
PROPERTY SessionsEnd
