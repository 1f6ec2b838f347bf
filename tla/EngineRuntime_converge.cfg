\* Three callers of one engine with two models, no fault.
SPECIFICATION Spec
CONSTANTS
    a = a
    b = b
    c = c
    nobody = nobody
    Callers = {a, b, c}
    Models = {"m", "n"}
    Configs = {"exclusive", "shared"}
    Exclusive = {"exclusive"}
    Asked <- MCAsked
    Nobody = nobody
    MaxFaults = 0
    Hazards = {}
INVARIANTS
    Converges
