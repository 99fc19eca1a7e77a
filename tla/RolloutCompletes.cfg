CONSTANTS
    Pod <- MCPod
    Controller <- MCController
    KindOf <- MCKindOf
    MinReplicas = 1
    EvictionFraction = 100
    Loads = {6}
    MaxPods = 2
    MaxEdits = 0
    MaxMoves = 0
    MaxFaults = 0
    Prompt = TRUE
SPECIFICATION FairSpec
PROPERTY RolloutCompletes
