SPECIFICATION FairRunSpec
CONSTANTS
    w1 = w1
    w2 = w2
    Workers = {w1, w2}
    MaxResources = 1
    MaxConsecutive = 2
    MaxBatches = 3
    Attempts = 2
    Scenarios <- MCScenarios
    None = None
INVARIANT SlotAccounting CreatedIsTracked CompleteUnlessFailed EarlyStopFails
PROPERTY RunEnds DoubleFaultStops
CHECK_DEADLOCK FALSE
