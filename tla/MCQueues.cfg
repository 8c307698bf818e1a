SPECIFICATION Spec
CONSTANTS
    Procs = {p1, p2}
    qa = qa
    qb = qb
    Qs = {qa, qb}
    Nested <- MCNested
    Buckets = {0, 1}
    Forks = {f}
    Main = main
    Free = free
    Counts = {1, 4}
    MaxItems = 2
INVARIANTS Delivered InOneQueue NoDeadlock
SYMMETRY MCSymmetry
