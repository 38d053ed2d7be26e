SPECIFICATION Spec
CONSTANTS
    Target = "PULPOpen"
    LenLimit = 4
    NumJobs = 2
    MaxSize = 8
INVARIANTS
    TypeOK
    FlagsSurvive
    WaitedIsMoved
PROPERTIES
    Returns
