\* Five bytes a direction, of three clocks each.
SPECIFICATION Spec
CONSTANTS
    BYTE_CLOCKS = 3
    MaxBytes = 5
INVARIANTS
    BytesInOrder
    StreamIntact
    RepliesHeard
