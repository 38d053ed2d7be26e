\* Two compute cores, one input and one output, every tensor tiled.
SPECIFICATION ClusterSpec
CONSTANTS
    NIn = 1
    NOut = 1
    NumTiles = 3
    BufferCount = 2
    WaitingStrategy = "PerTensor"
    Tiled = {1, 2}
    Channel = {x1, x2, x3, x4}
    NoChannel = NoChannel
    L3Tensor = {}
    Accumulates = FALSE
    Compute = {k1, k2}
    Dm = dm
INVARIANTS
    ClusterTypeOK
    ComputeSeesInputs
    NoClusterRace
    SameBarrier
    ResultsVisible
PROPERTIES
    AllReturn
    StreamSpec
