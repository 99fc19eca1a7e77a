CONSTANTS
    r1 = r1  r2 = r2
    Replica <- MCReplica
    MaxFaults = 1
    MaxInt64 = 5000
    Template <- MCTemplate
    LimitItems <- MCLimitItems
    Target <- MCTarget
SPECIFICATION Spec
INVARIANT UnspecifiedRequestGetsPlan
