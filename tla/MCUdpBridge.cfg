\* Replies, of which the longest does not fit, go out while packets of two
\* hosts come in.
SPECIFICATION Spec
CONSTANTS
    MAX_PAYLOAD_BYTES = 1
    MAX_TX_PAYLOAD_BYTES = 2
    Frames <- MCTwoHosts
    FRAME_IDS = 1
    ReplyLengths = {1, 2, 3}
    Endpoints = {1, 2}
    REMOTE = 1
INVARIANT
    RepliesWhole
PROPERTY
    RepliesSent
