SPECIFICATION Spec
CONSTANTS
    n1 = n1
    n2 = n2
    n3 = n3
    c1 = c1
    c2 = c2
    Empty = Empty
    Missing = Missing
    Idle = Idle
    Free = Free
    Node = {n1, n2}
    Client = {c1, c2}
    Home <- OneHome
    Dialled <- FullMesh
    Key = {k1, k2}
    Data = {a}
    Wall = {1}
    MaxLogical = 19
    MaxWrites = 3
    Lossy = FALSE
INVARIANT ReadsVisibleFirst
