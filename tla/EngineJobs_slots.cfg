\* Two requests contend for one slot and a queue of one, until a stop.
CONSTANTS
    c1 = c1
    c2 = c2
    c3 = c3
    r1 = r1
    r2 = r2
    NoCall = NoCall
    Calls = {c1, c2, c3}
    Requests = {r1, r2}
    RequestOf <- TwoAndOne
    Modes = {"unary"}
    Waits = {FALSE}
    Slots = 1
    QueueDepth = 1
    OutputSize = 3
    MaxChunks = 0
    Hazards = {"cancel", "dropUnary", "stop"}
SPECIFICATION Spec
\* The calls are finitely many, and a caller whose task was dropped waits.
CHECK_DEADLOCK FALSE
INVARIANTS
    SlotsAccounted
    RunningIsRegistered
    StopEndsJobs
