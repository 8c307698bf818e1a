SPECIFICATION Spec
CONSTANTS
    Keys = {1, 2}
    Forks = {f}
    Main = main
    MCBatchLen = 1
    Batches <- MCBatches
    Ranges <- MCNoRanges
    MaxRead = 2
    MaxItems = 2
    MaxStops = 1
    MaxCloses = 1
    MaxFails = 0
INVARIANTS NoLoss IndexesFit KeptWhileNeeded
CHECK_DEADLOCK FALSE
