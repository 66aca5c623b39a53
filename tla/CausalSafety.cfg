SPECIFICATION FairSpec
CONSTANTS
    n1 = n1
    n2 = n2
    n3 = n3
    c1 = c1
    c2 = c2
    Empty = Empty
    Missing = Missing
    Idle = Idle
    Free = Free
    Node = {n1, n2, n3}
    Client = {c1, c2}
    Home <- TwoHomes
    Dialled <- FullMesh
    Key = {k1, k2}
    Data = {a}
    Wall = {1}
    MaxLogical = 6
    MaxWrites = 2
    Lossy = FALSE
INVARIANTS
    CausalVisibility
PROPERTY ImplementsLastWriteWins
PROPERTY SingleWriterConverges
