\* Two handlers, an unreliable network that never forgets, every fault.
CONSTANTS
    h1 = h1
    h2 = h2
    Handlers = {h1, h2}
    Modulus = 5
    NBlocks = 3
    MaxRetries = 2
    NegotiatedTimeout = 255
    Late <- LateDatagrams
    Timely = FALSE
    Lossy = {}
    MaxLoss = 0
    Faults = {"sigint", "full", "denied", "read"}
    Weather = {FALSE}
SPECIFICATION Spec
SYMMETRY Sym
INVARIANTS
    TypeOK
    Prefix
    WholeFile
    Lockstep
    ServerReport
    Backoff
PROPERTY Refinement
CHECK_DEADLOCK FALSE
