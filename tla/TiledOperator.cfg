CONSTANTS
    NumCores = 2
    HW_PIN_BUDGET_BYTES = 12
    L1_DY_BUDGET_BYTES = 80
    Nodes <- MCNodes
    Networks <- MCNetworks
SPECIFICATION Spec
INVARIANT DeploymentExact
INVARIANT TilesFit
PROPERTY KeepsPromise
