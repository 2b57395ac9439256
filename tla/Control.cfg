CONSTANTS
    max_clients_ = 2
    QueueCap = 3
    MaxId = 3
    MaxTimeouts = 2
SPECIFICATION FairSpec
PROPERTIES
    ScriptCatchesUp
INVARIANTS
    TypeOK
    EventsAddUp
    OneCallAwaited
