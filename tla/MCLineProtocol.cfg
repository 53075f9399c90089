CONSTANTS
    Units = {1, 4, 6}
    MinTime <- MCMinTime
    MaxTime = 15
    Batches <- MCBatches
    TimeToken <- MCTimeToken
SPECIFICATION Spec
INVARIANTS RoundTrip NoPartialBatch
CHECK_DEADLOCK FALSE
