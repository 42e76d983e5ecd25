CONSTANTS
    Threads = {t1, t2, t3}
    Paths = {f}
    NBlocks = 2
    Faults = {"full", "denied"}
SPECIFICATION FairSpec
INVARIANTS TypeOK LoneUploadIntact BlocksInPlace ServedPrefix
PROPERTIES ExistingFileKept Stops
CHECK_DEADLOCK FALSE
