SPECIFICATION CheckSpec
CONSTANTS
    n1 = n1
    n2 = n2
    c1 = c1
    c2 = c2
    k1 = k1
    k2 = k2
    Empty = Empty
    Missing = Missing
    Idle = Idle
    NoRef = NoRef
    Node = {n1, n2}
    Client = {c1, c2}
    Home <- TwoHomes
    Dialled <- FullMesh
    Key = {k1, k2}
    Data = {a, Empty}
    Wall = {1}
    MaxLogical = 9
    MaxWrites = 2
    Lossy = FALSE
    Addrs <- TwoAddrs
    Keys <- TwoKeys
    Flaky = TRUE
INVARIANTS
    CheckTypeOK
    VerdictExact
PROPERTIES
    CheckerEnds
    ConvergenceSeen
