\* The receiver alone, with every kind of frame.
SPECIFICATION ReceiverSpec
CONSTANTS
    MAX_PAYLOAD_BYTES = 2
    Frames <- MCFrames
    FRAME_IDS = 3
    Endpoints = {1, 2}
    REMOTE = 1
INVARIANT
    StreamShowsHead
PROPERTIES
    ReceivesDatagrams
    ReceiverHearsAgain
