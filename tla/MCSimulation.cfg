SPECIFICATION Spec
CONSTANTS
    Keys = {1, 2, 3}
    Tids = {1, 2, 3}
    HT_SLOTS = 4
    HT_MAX_ROWS = 3
    MAX_PROBE_DIST = 3
    slot_of <- MCOneSlot
    ZeroKey = 1
    ZeroTid = 1
    GRACE_MAX_K = 2
    GRACE_DDR2_TOTAL_WORDS = 48
    UINT32_RANGE = 256
    part_hash <- MCPartHash
    TX_BUF_SIZE = 3
    MAX_TX_PAIRS = 2
    RX_CREDIT_TUPLES = 4
    ACK_BATCH_FRAMES = 2
    MaxDrops = 0
    MaxDups = 0
    RX_BUF_TUPLES = 2
    RESET_ATTEMPTS = 2
    RESULT_FLUSH_PAIRS = 2
    CONFIGURE_PAYLOAD_BYTES = 13
    TUPLE_BYTES = 10
    MAX_PROBE_FRAMES = 10
    Transports = {"simulation"}
    max_batch_tuples = 1
    ack_window_frames = 2
    Inputs <- MCSimulationInputs
    SESSION_IDS = 2
    MaxSessions = 1
INVARIANT SimulationSucceeds
