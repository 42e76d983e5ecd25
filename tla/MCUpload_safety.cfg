CONSTANTS
    h1 = h1
    h2 = h2
    Handlers = {h1, h2}
    Modulus = 4
    NBlocks = 2
    MaxRetries = 2
    NegotiatedTimeout = 255
    RequestOptions = {TRUE, FALSE}
    Late <- LateDatagrams
    Timely = FALSE
    Lossy <- NoDatagrams
    MaxLoss = 0
    Faults = {"sigint", "full", "denied", "stdin"}
    Weather = {FALSE}
SPECIFICATION Spec
SYMMETRY Sym
INVARIANTS
    TypeOK
    StoredPrefix
    SingleWriter
    ServerReport
    Lockstep
    Backoff
PROPERTY Refinement
CHECK_DEADLOCK FALSE
