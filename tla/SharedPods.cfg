CONSTANTS
    web = web  web2 = web2  api = api  far = far
    podW = podW  podA = podA  rsW = rsW  rsA = rsA
    NoMpa = NoMpa
    Mpa <- MCMpa
    Pod <- MCPod
    Label <- MCLabel
    MpaNamespace <- MCMpaNamespace
    PodNamespace <- MCPodNamespace
    LabelsOf <- MCLabelsOf
    CreatedAt <- MCCreatedAt
    NameRank <- MCNameRank
    TargetRef <- MCTargetRef
    Objects <- MCObjects
    Answers <- MCAnswers
    Controller <- MCController
    KindOf <- MCKindOf
    OwnerOf <- MCOwnerOf
    MinReplicas = 1
    EvictionFraction = 100
    Broken <- MCBroken
    MaxEdits = 1
    MaxFaults = 1
SPECIFICATION FairSpec
INVARIANTS TypeOK ControllingIsStrongest ShadowedNeverActs
PROPERTY EveryControllerServed
