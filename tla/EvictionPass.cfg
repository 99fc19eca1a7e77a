CONSTANTS
    rs = rs  job = job  other = other
    Pod = {p1, p2, p3, p4, p5}
    Controller <- MCController
    KindOf <- MCKindOf
    MinReplicas = 1
    EvictionFraction = 100
    MaxReplicas = 5
    MaxLost = 1
SPECIFICATION Spec
SYMMETRY PodSymmetry
INVARIANTS TypeOK CounterExact BudgetHeld PassMakesProgress EvictedWillBeReplaced
PROPERTY BudgetSpec
