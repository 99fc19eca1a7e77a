CONSTANTS
    rs = rs  job = job  other = other
    Pod = {p1, p2, p3, p4}
    Controller <- MCController
    KindOf <- MCKindOf
    MinReplicas = 2
    EvictionFraction = 100
    MaxReplicas = 4
    MaxLost = 1
SPECIFICATION Spec
SYMMETRY PodSymmetry
INVARIANT MinReplicasHonoured
