SPECIFICATION Spec
CONSTANTS
    i1 = i1
    i2 = i2
    f1 = f1
    f2 = f2
    NoLink = NoLink
    Ids = {i1, i2}
    Sources = {f1, f2}
    Weight <- MCWeight
    Pages <- MCPages
    PerPage = 2
    ListMax = 4
    SeenMax = 1
    SeenKeep = 1
    MaxCycles = 3
    MaxLives = 2
INVARIANTS TypeOK PushedOnce KeysInStep
CHECK_DEADLOCK FALSE
