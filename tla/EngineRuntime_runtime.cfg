\* Three callers of one engine with two models, any one fault.
SPECIFICATION FairSpec
CONSTANTS
    a = a
    b = b
    c = c
    nobody = nobody
    Callers = {a, b, c}
    Models = {"m", "n"}
    Configs = {"exclusive", "shared"}
    Exclusive = {"exclusive"}
    Asked <- MCAsked
    Nobody = nobody
    MaxFaults = 1
    Hazards = {"init", "crash", "cancel"}
INVARIANTS
    TypeOK
    ResidentIsReachable
    ConvergesUnderLock
    UndisturbedCallsSucceed
PROPERTIES
    CallsReturn
    NodeStateConverges
