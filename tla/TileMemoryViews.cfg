SPECIFICATION TileSpec
CONSTANTS
    Problems <- MCViewProblems
    Tilings <- MCTilings
INVARIANT
    ArenaCovers
CHECK_DEADLOCK FALSE
