SPECIFICATION Spec
CONSTANTS
    NIn = 1
    NOut = 1
    NumTiles = 3
    BufferCount = 2
    WaitingStrategy = "Direction"
    Tiled <- MCAllTiled
    Channel <- MCTwoChannels
    NoChannel = NoChannel
    L3Tensor <- MCAllL3
    Accumulates = FALSE
    c1 = c1  c2 = c2
INVARIANT
    KernelInputsCurrent
