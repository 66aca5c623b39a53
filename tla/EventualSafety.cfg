SPECIFICATION ProcSpec
CONSTANTS
    n1 = n1
    n2 = n2
    n3 = n3
    c1 = c1
    c2 = c2
    c3 = c3
    Empty = Empty
    Missing = Missing
    Idle = Idle
    Node = {n1, n2, n3}
    Client = {c1, c2, c3}
    Home <- SharedHome
    Dialled <- FullMesh
    Key = {k1}
    Data = {a, Empty}
    Wall = {1}
    MaxLogical = 5
    MaxWrites = 2
    Lossy = FALSE
    Stoppable = {n1, n2}
INVARIANTS
    StampsUnique
    PassiveLatest
PROPERTIES
    OnlyLocalWriteRegresses
    ImplementsLastWriteWins
    SurvivorsConverge
    StopsInTime
