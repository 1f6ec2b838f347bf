\* Three requests, one of them for an engine installed nowhere, two nodes.
CONSTANTS
    n1 = n1
    n2 = n2
    r1 = r1
    r2 = r2
    r3 = r3
    e1 = e1
    e2 = e2
    NoNode = NoNode
    Unfit = Unfit
    Absent = Absent
    Nodes = {n1, n2}
    Requests = {r1, r2, r3}
    Engines = {e1, e2}
    MaxAttempts = 2
    Place <- Ordered
    EngineOf <- Missing
    Limit <- One
    PageSize = 2
    Rank <- Ranked
    Scores = {1}
    Views <- Fresh
    Installed <- Everywhere
    MaxFaults = 1
    Hazards = {"crash", "stall", "fail", "publish"}
SPECIFICATION FairSpec
INVARIANTS
    TypeOK
    CapacityRespected
    TasksHoldLeases
PROPERTIES
    RowsSettle
