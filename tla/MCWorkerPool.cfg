SPECIFICATION Spec
CONSTANTS
    Keys = {k1, k2}
    Workers = {w1, w2, w3}
    NoWorker = NoWorker
    NoKey = NoKey
    Passes = {p1, p2, p3}
    NoPass = NoPass
    Caps = {1, 2}
    MaxLoads = 2
SYMMETRY Symmetry
INVARIANTS
    TypeOK
    EntriesAreLive
    WorkersAreBounded
