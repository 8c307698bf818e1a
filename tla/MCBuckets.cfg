SPECIFICATION Spec
CONSTANTS
    Width = 8
    SplitConf <- MCSplitConf
    Keys <- MCKeys
    Forks = {f}
    Main = main
    MCLimits = {0, 1, 2}
    Batches <- MCBatches
    Ranges <- MCRanges
    Ns <- MCNs
    Options <- MCOptions
    Careful = TRUE
    MaxItems = 3
    MaxRestarts = 1
INVARIANTS TypeOK OpenLimit InPlace LenAgrees PopsUpTo
PROPERTY ImplementsQueue
CHECK_DEADLOCK FALSE
