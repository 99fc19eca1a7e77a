CONSTANTS
    Pod <- MCPod
    Controller <- MCController
    KindOf <- MCKindOf
    MinReplicas = 1
    EvictionFraction = 100
    Loads = {3, 6}
    MaxPods = 2
    MaxEdits = 1
    MaxMoves = 1
    MaxFaults = 1
    Prompt = FALSE
SPECIFICATION Spec
INVARIANTS TypeOK NeverScaledToZero 
PROPERTIES NoEditUndone DecisionsAtomic
