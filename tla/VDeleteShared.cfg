SPECIFICATION Spec
CONSTANTS
    Keys = {1, 2}
    Forks = {}
    Main = main
    MCBatchLen = 2
    Batches <- MCBatches
    Ranges <- MCRanges
    MaxRead = 2
    MaxItems = 3
    MaxStops = 0
    MaxCloses = 0
    MaxFails = 0
INVARIANT DeleteKeepsTheRest
CHECK_DEADLOCK FALSE
