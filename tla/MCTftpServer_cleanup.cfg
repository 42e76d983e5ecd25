CONSTANTS
    Threads = {t1, t2}
    Paths = {f}
    NBlocks = 2
    Faults = {}
SPECIFICATION Spec
SYMMETRY ThreadSymmetry
INVARIANT ShutdownCleansUp
CHECK_DEADLOCK FALSE
