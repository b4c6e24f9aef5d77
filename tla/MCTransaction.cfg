SPECIFICATION Spec
CONSTANTS
    c1 = c1
    c2 = c2
    c3 = c3
    w1 = w1
    w2 = w2
    w3 = w3
    Root = root
    None = None
    Calls <- ThreeCalls
    Writes <- ThreeWrites
    Concurrent = FALSE
    MaxFails = 2
SYMMETRY Symmetry
CHECK_DEADLOCK FALSE
INVARIANTS
    TypeOK
    DepthCounts
PROPERTIES
    KeepsPromise
