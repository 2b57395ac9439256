CONSTANTS
    kHeaderLen = 2
    kMaxMessageLen = 3
    capacity_ = 7
    PushLens = {0, 1, 2, 3, 4}
    MaxPushes = 4
SPECIFICATION Spec
INVARIANTS
    TailFollowsHead
PROPERTIES
    FifoSpec
CHECK_DEADLOCK FALSE
