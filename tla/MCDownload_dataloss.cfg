CONSTANTS
    h1 = h1
    h2 = h2
    Handlers = {h1, h2}
    Modulus = 5
    NBlocks = 3
    MaxRetries = 3
    NegotiatedTimeout = 255
    Late <- NoDatagrams
    Timely = TRUE
    Lossy = {"DATA"}
    MaxLoss = 1
    Faults = {}
    Weather = {FALSE}
SPECIFICATION FairSpec
PROPERTY DataLossRepaired
CHECK_DEADLOCK FALSE
