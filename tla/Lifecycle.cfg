CONSTANTS
    LoadRetries = 2
    MaxFaults = 3
    MaxBacklog = 2
SPECIFICATION FairSpec
INVARIANTS
    TypeOK
    StoppedLeavesNoScript
    ServedScriptRuns
    NoForeignScript
PROPERTIES
    ServesOrStops
    StopStops
