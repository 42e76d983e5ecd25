\* Two losses of any answer or DATA, an interrupt and left-overs that no retry
\* counter sees; and calm behaviours, where the input has to arrive.
CONSTANTS
    h1 = h1
    h2 = h2
    Handlers = {h1, h2}
    Modulus = 5
    NBlocks = 3
    MaxRetries = 3
    NegotiatedTimeout = 255
    RequestOptions = {TRUE, FALSE}
    Late <- UncountedDatagrams
    Timely = TRUE
    Lossy <- AnyAnswer
    MaxLoss = 2
    Faults = {"sigint"}
    Weather = {TRUE, FALSE}
SPECIFICATION FairSpec
PROPERTIES Termination Completes
CHECK_DEADLOCK FALSE
