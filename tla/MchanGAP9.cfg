SPECIFICATION Spec
CONSTANTS
    Target = "GAP9"
    LenLimit = 4
    NumJobs = 2
    MaxSize = 8
INVARIANTS
    FlagsSurvive
