SPECIFICATION Spec
CONSTANTS
    Keys = {1, 2, 3}
    MCLen = 5
    MCBatches = 4
    Logs <- MCLogs
    Indexes <- MCIndexes
    Ns = {0, 3, 6}
INVARIANTS LoopInv MinFirst Ascending ShortOnlyWhenDrained Conserved
PROPERTY Terminates
CHECK_DEADLOCK FALSE
