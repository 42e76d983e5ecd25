\* Two losses of any packet, an interrupt, a failing read and left-overs that no
\* retry counter sees; and calm behaviours, where the file has to arrive.
CONSTANTS
    h1 = h1
    h2 = h2
    Handlers = {h1, h2}
    Modulus = 5
    NBlocks = 3
    MaxRetries = 3
    NegotiatedTimeout = 255
    Late <- UncountedDatagrams
    Timely = TRUE
    Lossy = {"RRQ", "OACK", "DATA", "ACK"}
    MaxLoss = 2
    Faults = {"sigint", "read"}
    Weather = {TRUE, FALSE}
SPECIFICATION FairSpec
PROPERTIES Termination Completes
CHECK_DEADLOCK FALSE
