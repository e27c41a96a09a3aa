\* Two frames, which may be lost or doubled, and two stray datagrams or
\* interrupted calls.
SPECIFICATION Spec
CONSTANTS
    Kinds <- MCKinds
    RX_PACKET_SIZE = 6
    MaxFrames = 2
    MaxStrays = 2
INVARIANT
    DecoderInStep
PROPERTY
    WaitsEnd
