SPECIFICATION Spec
CONSTANTS
    Keys = {"k1", "k2", "k3"}
    Tids = {"t1", "t2"}
    NoTid = NoTid
    HT_SLOTS = 4
    HT_MAX_ROWS = 4
    MAX_PROBE_DIST = 3
    slot_of <- MCSlotOf
    ZeroKey = "k1"
    ZeroTid = "t1"
INVARIANTS TypeOK RowCountExact ChainsUnbroken RowsReachable
PROPERTY ImplementsJoinTable
