\* Read committed transactions: a zombie's write lands on the new owner's row.
CONSTANTS
    n1 = n1
    n2 = n2
    w1 = w1
    w2 = w2
    w3 = w3
    Nodes = {n1, n2}
    NoNode = NoNode
    Workers = {n1, n2}
    NodeOf <- OnePerNode
    Modes = {"unary"}
    ControlTarget = n1
    MaxAttempts = 2
    MaxChunks = 1
    StreamMax = 2
    Hazards = {{"stall"}}
    MaxFaults = 1
SPECIFICATION FairSpec
PROPERTY HolderSettles
