CONSTANTS
    kHeaderLen = 2
    kMaxMessageLen = 2
    kDiscardChunk = 2
    RxCap = 9
    TxCap = 4
    FrameLens = {0, 2, 3}
    PushLens = {1}
    MaxFrames = 3
SPECIFICATION FairSpec
INVARIANTS
    TypeOK
    RxWithinCapacity
    SourceArmed
    PausedOnlyUnderBackpressure
    NoLostWakeup
    InStep
    InOrder
    BatchIsWhole
PROPERTIES
    CloseAnswersFirst
    EveryFrameDelivered
CHECK_DEADLOCK FALSE
