SPECIFICATION Spec
CONSTANTS
    c1 = c1  c2 = c2
    NIn = 2
    NOut = 1
    NumTiles = 4
    BufferCount = 2
    WaitingStrategy = "Direction"
    Tiled <- MCTiled
    Channel <- MCTwoChannels
    NoChannel = NoChannel
    L3Tensor = {}
    Accumulates = FALSE
INVARIANTS
    TypeOK
    KernelInputsCurrent
    NoBufferRace
    ChannelsAccounted
    OutputsComplete
PROPERTIES
    Terminates
    StreamSpec
