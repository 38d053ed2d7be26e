SPECIFICATION Spec
CONSTANTS
    Deployments <- MCDeployments
    Accum = 2
    Updates = 2
    DataSize = 3
    Orders <- MCOrders
    Top = 20
INVARIANTS
    TypeOK
    InputsIntact
    ResultsExact
    HeapSound
    PlanSound
