SPECIFICATION FairSpec
CONSTANTS
    n1 = n1
    n2 = n2
    n3 = n3
    c1 = c1
    c2 = c2
    Empty = Empty
    Missing = Missing
    Idle = Idle
    Node = {n1, n2, n3}
    Client = {c1, c2}
    Home <- TwoHomes
    Dialled <- FullMesh
    Key = {k1}
    Data = {a}
    Wall = {1, 2}
    MaxLogical = 1
    MaxWrites = 2
    Lossy = TRUE
    Hung = {}
INVARIANTS
    TypeOK
    AckedOnQuorum
    QuorumsMeet
    OwnVersionAcked
    SingleWriterDurable
PROPERTIES
    ImplementsQuorumStore
    CallsReturn
