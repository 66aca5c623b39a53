SPECIFICATION Spec
CONSTANTS
    n1 = n1
    n2 = n2
    n3 = n3
    c1 = c1
    c2 = c2
    Empty = Empty
    Missing = Missing
    Idle = Idle
    Free = Free
    Node = {n1, n2}
    Client = {c1, c2}
    Home <- TwoHomes
    Dialled <- OneWay
    Key = {k1, k2}
    Data = {a}
    Wall = {1, 2}
    MaxLogical = 2
    MaxWrites = 3
    Lossy = TRUE
INVARIANTS
    CausalVisibility
    DrainComplete
    NoneForgotten
    HeldForAReason
SYMMETRY KeySymmetry
