\* Two submissions of one key and an extraction, any fault once.
CONSTANTS
    n1 = n1
    n2 = n2
    t1 = t1
    t2 = t2
    x1 = x1
    k = k
    kx = kx
    Nodes = {n1, n2}
    Tasks = {t1, t2, x1}
    External = {x1}
    Home <- AllOnFirst
    KeyOf <- Keys
    MaxRounds = 1
    MaxCalls = 2
    Bridges = {TRUE, FALSE}
    Hazards = {"crash", "persist", "publish", "ingest", "drop", "late"}
    MaxFaults = 1
SPECIFICATION FairSpec
INVARIANTS
    TypeOK
    KeysAreHeldByLiveTasks
PROPERTIES
    OutcomesStand
    OutcomesAreTold
    TasksEnd
