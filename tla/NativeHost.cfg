CONSTANTS
    HeaderLen = 2
    MAX_MESSAGE = 1
    Lens = {0, 1, 2}
    MaxFrames = 2
SPECIFICATION Spec
PROPERTIES
    EveryFrameForwarded
INVARIANTS
    Verbatim
    WholeFrames
CHECK_DEADLOCK FALSE
