SPECIFICATION Spec
CONSTANTS
    VMs = {v1, v2}
    Titles = {"a"}
    External = "external"
    MaxPerRepro = 2
    MaxReproAttempts = 1
    HubQueueCap = 1
    MaxPending = 1
    Configs <- MCConfigs
INVARIANT
    ManagerSurvives
