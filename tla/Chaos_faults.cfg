SPECIFICATION FairChaosSpec
CONSTANTS
    Scenarios <- MCScenarios
    Window = 3
    Watchdog = 2
    MaxDaemons = 2
INVARIANTS
    TokenSurvives
    FaultsUndone
    RestartsReal
PROPERTIES
    OrphanOnly
    ChaosStops
CHECK_DEADLOCK FALSE
