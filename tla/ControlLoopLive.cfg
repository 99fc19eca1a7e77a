CONSTANTS
    Pod <- MCPod
    Controller <- MCController
    KindOf <- MCKindOf
    MinReplicas = 1
    EvictionFraction = 100
    Loads = {6}
    MaxPods = 2
    MaxEdits = 1
    MaxMoves = 0
    MaxFaults = 2
    Prompt = FALSE
SPECIFICATION UpdaterFairSpec
PROPERTIES UpdaterComesToRest AnnouncedIsScaled
