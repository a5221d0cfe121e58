SPECIFICATION Spec
CONSTANTS
    w1 = w1
    w2 = w2
    w3 = w3
    Writer = {w1, w2, w3}
    Cap = 2
    MaxWrites = 5
    MaxFaults = 1
SYMMETRY Symmetry
CHECK_DEADLOCK FALSE
INVARIANTS
    CapHolds
    ForgetsTheOldest
