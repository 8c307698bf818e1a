SPECIFICATION Spec
CONSTANTS
    Keys = {1}
    Forks = {f}
    Main = main
    MCBatchLen = 2
    Batches <- MCBatches
    Ranges <- MCRanges
    MaxRead = 1
    MaxItems = 2
    MaxStops = 0
    MaxCloses = 1
    MaxFails = 1
INVARIANTS NoLoss IndexesFit
PROPERTY OperationsEnd
CHECK_DEADLOCK FALSE
