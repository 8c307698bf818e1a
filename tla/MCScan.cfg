SPECIFICATION Spec
CONSTANTS
    Keys <- MCKeys
    Blobs = {0, 3}
    Fragments = {12, 13, 25}
    MaxLog = 4
INVARIANTS RunsOfTheLog WholeItemsOnce BeforeFragmentServed AscendingRuns
PROPERTY ScanTerminates
CHECK_DEADLOCK FALSE
