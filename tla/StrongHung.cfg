SPECIFICATION FairSpec
CONSTANTS
    n1 = n1
    n2 = n2
    n3 = n3
    c1 = c1
    c2 = c2
    Empty = Empty
    Missing = Missing
    Idle = Idle
    Node = {n1, n2, n3}
    Client = {c1}
    Home <- SoloHome
    Dialled <- FullMesh
    Key = {k1}
    Data = {a}
    Wall = {1}
    MaxLogical = 9
    MaxWrites = 1
    Lossy = FALSE
    Hung = {n3}
PROPERTY QuorumReturns
CHECK_DEADLOCK FALSE
