CONSTANTS
    LoadRetries = 1
    MaxFaults = 1
    MaxBacklog = 2
SPECIFICATION FairSpec
PROPERTIES
    NameLostShutsDown
