\* Liveness with read committed transactions: a crash or a stalled lease, and a
\* node that may take the request over from itself.
CONSTANTS
    n1 = n1
    n2 = n2
    w1 = w1
    w2 = w2
    w3 = w3
    Nodes = {n1, n2}
    NoNode = NoNode
    Workers = {w1, w2, w3}
    NodeOf <- TwoAndOne
    Modes = {"unary", "stream", "control"}
    ControlTarget = n1
    MaxAttempts = 2
    MaxChunks = 1
    StreamMax = 1
    Hazards = {{"crash", "stall"}}
    MaxFaults = 1
SPECIFICATION FairSpec
PROPERTIES
    RequestSettles
