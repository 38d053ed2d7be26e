SPECIFICATION TileSpec
CONSTANTS
    Problems <- MCProblems
    Tilings <- MCTilings
INVARIANTS
    TileTypeOK
    TilesApart
    WordAligned
    ArenaSound
CHECK_DEADLOCK FALSE
