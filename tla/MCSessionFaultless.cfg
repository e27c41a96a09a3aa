SPECIFICATION Spec
CONSTANTS
    Keys = {1, 2, 3, 4, 5, 6, 7, 8, 9, 10, 11, 12, 13}
    Tids = {1, 2, 3, 4, 5, 6, 7, 8, 9, 10, 11, 12, 13}
    HT_SLOTS = 8
    HT_MAX_ROWS = 6
    MAX_PROBE_DIST = 3
    slot_of <- MCTwoSlots
    ZeroKey = 1
    ZeroTid = 1
    GRACE_MAX_K = 3
    GRACE_DDR2_TOTAL_WORDS = 84
    UINT32_RANGE = 256
    part_hash <- MCPartHash
    TX_BUF_SIZE = 3
    MAX_TX_PAIRS = 2
    RX_CREDIT_TUPLES = 8
    ACK_BATCH_FRAMES = 2
    MaxDrops = 0
    MaxDups = 0
    RX_BUF_TUPLES = 2
    RESET_ATTEMPTS = 2
    RESULT_FLUSH_PAIRS = 2
    CONFIGURE_PAYLOAD_BYTES = 4
    TUPLE_BYTES = 2
    MAX_PROBE_FRAMES = 10
    Transports = {"udp", "simulation", "none"}
    max_batch_tuples = 2
    ack_window_frames = 3
    Inputs <- MCFlowInputs
    SESSION_IDS = 2
    MaxSessions = 2
INVARIANTS NoSpuriousFailure InFlightBounded
PROPERTIES ImplementsJoinService RequestsEnd
