SPECIFICATION FairSpec
CONSTANTS
    VMs = {v1, v2}
    Titles = {"a", "b"}
    External = "external"
    MaxPerRepro = 2
    MaxReproAttempts = 1
    HubQueueCap = 1
    MaxPending = 1
    Configs <- MCConfigs
INVARIANTS
    TypeOK
    InstancesAccounted
    OneReproPerTitle
    FailuresNoted
    StopIsAnswered
PROPERTIES
    ReproServed
    HubServed
    ShutdownEnds
