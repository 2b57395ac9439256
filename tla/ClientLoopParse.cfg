CONSTANTS
    Kinds = {"call", "silent", "mixed", "throws", "garbage"}
    TxCap = 2
    MaxFrames = 2
    MaxTimeouts = 0
SPECIFICATION Spec
INVARIANT
    RequestsDispatched
CHECK_DEADLOCK FALSE
