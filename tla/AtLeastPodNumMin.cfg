CONSTANTS
    Loads = {0, 3, 6, 11, 100, 880, 930, 1000}
    ExpRespTimes = {0, 300}
SPECIFICATION Spec
INVARIANT AtLeastPodNumMin
