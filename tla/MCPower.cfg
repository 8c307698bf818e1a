SPECIFICATION PowerSpec
CONSTANTS
    Keys = {1, 2}
    Forks = {}
    Main = main
    Batches <- MCBatches
    Ranges <- MCRanges
    MaxRead = 2
    MaxItems = 3
    MaxStops = 2
    MaxCloses = 0
    MaxFails = 0
INVARIANTS TypeOK NoLoss NoGhosts IndexesFit DrainedGoes ReplayAgrees IndexAfterData
CHECK_DEADLOCK FALSE
