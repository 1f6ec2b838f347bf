\* Two calls for one request: the second joins, is refused or starts afresh.
CONSTANTS
    c1 = c1
    c2 = c2
    c3 = c3
    r1 = r1
    r2 = r2
    NoCall = NoCall
    Calls = {c1, c2}
    Requests = {r1}
    RequestOf <- Two
    Modes = {"unary", "stream"}
    Waits = {TRUE, FALSE}
    Slots = 1
    QueueDepth = 1
    OutputSize = 3
    MaxChunks = 2
    Hazards = {"cancel", "leave", "dropUnary"}
SPECIFICATION FairSpec
\* The calls are finitely many: the system stops when they are over.
CHECK_DEADLOCK FALSE
INVARIANTS
    TypeOK
    StreamComplete
PROPERTIES
    OutcomeIsFinal
    JobsEnd
    CallsReturn
