\* The only node with the engine of the request in front dies with it.
CONSTANTS
    n1 = n1
    n2 = n2
    r1 = r1
    r2 = r2
    r3 = r3
    e1 = e1
    e2 = e2
    NoNode = NoNode
    Unfit = Unfit
    Absent = Absent
    Nodes = {n1, n2}
    Requests = {r1, r2}
    Engines = {e1, e2}
    MaxAttempts = 1
    Place <- Two
    EngineOf <- Apart
    Limit <- One
    PageSize = 2
    Rank <- Ranked
    Scores = {1}
    Views <- Fresh
    Installed <- Split
    MaxFaults = 1
    Hazards = {"crash"}
SPECIFICATION FairSpec
PROPERTIES
    ServableSettles
