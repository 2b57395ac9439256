CONSTANTS
    Kinds = {"call", "silent", "mixed", "throws", "garbage"}
    TxCap = 1
    MaxFrames = 3
    MaxTimeouts = 2
SPECIFICATION Spec
PROPERTIES
    EveryCallAnswered
    LoopEnds
INVARIANTS
    EffectsInOrder
    ResponsesInOrder
    NoneVanishes
CHECK_DEADLOCK FALSE
