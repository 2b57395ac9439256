CONSTANTS
    kHeaderLen = 2
    kMaxMessageLen = 3
    kDiscardChunk = 2
    RxCap = 4
    TxCap = 4
    FrameLens = {1, 3}
    PushLens = {1}
    MaxFrames = 2
SPECIFICATION Spec
INVARIANTS
    PausedOnlyUnderBackpressure
CHECK_DEADLOCK FALSE
