CONSTANTS
    Capacity = 2
    MaxChunks = 4
    MaxAttempts = 3
SPECIFICATION FairSpec
INVARIANTS InOrder NoGap EndMeansAll ChatOneAnswer ErrorMeansSilence
PROPERTIES WorkerEnds Ends
CHECK_DEADLOCK FALSE
