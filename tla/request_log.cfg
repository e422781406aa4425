CONSTANTS
    w1 = w1  w2 = w2
    Workers = {w1, w2}
    BatchSize = 2
    MaxBuffer = 2
    WindowMax = 2
    Closes = TRUE
    MaxRecords = 4
    MaxFaults = 2
    MaxCrashes = 1
SPECIFICATION FairSpec
INVARIANTS NothingVanishes OldestDropped CloseKeeps
PROPERTIES Persisted
CHECK_DEADLOCK FALSE
