\* Every kind of disturbance in three scenarios, one fault in each; store methods
\* at read committed, as everywhere.
CONSTANTS
    n1 = n1
    n2 = n2
    w1 = w1
    w2 = w2
    w3 = w3
    Nodes = {n1, n2}
    NoNode = NoNode
    Workers = {n1, n2}
    NodeOf <- OnePerNode
    Modes = {"unary", "stream"}
    ControlTarget = n1
    MaxAttempts = 2
    MaxChunks = 1
    StreamMax = 2
    Hazards = {{"crash", "stop", "stall", "provider", "cancel"},
               {"crash", "stop", "stall", "provider", "uninstall"},
               {"cancel", "giveup", "uninstall"}}
    MaxFaults = 1
SPECIFICATION Spec
SYMMETRY Symmetric
INVARIANTS
    TypeOK
    AttemptsBounded
    AnswersAgree
    ErrorIsSettledOrCancelled
    DuplicatesOnlyAfterExpiry
    AnsweredIsNotRequeued
PROPERTIES
    SettledByHolder
    ImplementsDurableRequest
