CONSTANTS
    h1 = h1
    h2 = h2
    Handlers = {h1, h2}
    Modulus = 5
    NBlocks = 3
    MaxRetries = 3
    NegotiatedTimeout = 255
    RequestOptions = {TRUE, FALSE}
    Late <- NoDatagrams
    Timely = FALSE
    Lossy <- NoDatagrams
    MaxLoss = 0
    Faults = {}
    Weather = {FALSE}
SPECIFICATION Spec
INVARIANT DataFollowsResponse
CHECK_DEADLOCK FALSE
