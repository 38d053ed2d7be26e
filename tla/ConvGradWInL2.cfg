SPECIFICATION Spec
CONSTANTS
    NIn = 2
    NOut = 1
    NumTiles = 3
    BufferCount = 1
    WaitingStrategy = "Direction"
    Tiled <- MCInputsTiled
    Channel <- MCTwoChannels
    NoChannel = NoChannel
    L3Tensor = {}
    Accumulates = TRUE
    c1 = c1  c2 = c2
INVARIANT
    OutputsComplete
