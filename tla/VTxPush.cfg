SPECIFICATION Spec
CONSTANTS
    Width = 8
    SplitConf <- MCSplitConf
    Keys <- MCKeys
    Forks = {f}
    Main = main
    MCLimits = {1}
    Batches <- MCBatches
    Ranges <- MCRanges
    Ns <- MCNs
    Options <- MCOptions
    Careful = FALSE
    MaxItems = 3
    MaxRestarts = 1
INVARIANT ItemsStayMapped
CHECK_DEADLOCK FALSE
