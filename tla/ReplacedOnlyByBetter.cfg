CONSTANTS
    Loads = {3, 9}
    ExpRespTimes = {300}
SPECIFICATION Spec
PROPERTY ReplacedOnlyByBetter
