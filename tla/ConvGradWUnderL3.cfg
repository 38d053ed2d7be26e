SPECIFICATION Spec
CONSTANTS
    NIn = 2
    NOut = 1
    NumTiles = 4
    BufferCount = 1
    WaitingStrategy = "Direction"
    Tiled <- MCInputsTiled
    Channel <- MCTwoChannels
    NoChannel = NoChannel
    L3Tensor <- MCAllL3
    Accumulates = TRUE
    c1 = c1  c2 = c2
INVARIANTS
    TypeOK
    KernelIsAlone
    ChannelsAccounted
    OutputsComplete
PROPERTIES
    Terminates
    StreamSpec
