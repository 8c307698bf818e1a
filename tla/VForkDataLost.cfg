SPECIFICATION Spec
CONSTANTS
    Keys = {1, 2}
    Forks = {f}
    Main = main
    MCBatchLen = 2
    Batches <- MCBatches
    Ranges <- MCRanges
    MaxRead = 2
    MaxItems = 1
    MaxStops = 1
    MaxCloses = 0
    MaxFails = 0
INVARIANT KeptForForks
CHECK_DEADLOCK FALSE
