SPECIFICATION Spec
CONSTANTS
    Main = main
    Fork = fork
    MaxBatches = 4
INVARIANT OthersUnaffected
CHECK_DEADLOCK FALSE
