SPECIFICATION Spec
CONSTANTS
    Networks <- MCNetworks
    Widens <- MCWidens
INVARIANTS
    ContextIsReplay
    SearchExact
PROPERTY
    Terminates
