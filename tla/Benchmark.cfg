SPECIFICATION BenchSpec
CONSTANTS
    n1 = n1
    n2 = n2
    c1 = c1
    k1 = k1
    k2 = k2
    k3 = k3
    Empty = Empty
    Missing = Missing
    Idle = Idle
    Node = {n1, n2}
    Client = {c1}
    Home <- Target
    Dialled <- FullMesh
    Key = {k1, k2, k3}
    Data = {a, Empty}
    Wall = {1}
    MaxLogical = 3
    MaxWrites = 5
    Lossy = TRUE
    Bench = c1
    Workloads <- Files
    KeyFor <- Keys
    HashBits = 4
    Hash <- SmallHash
    Latency = {1, 2}
    NoFile = NoFile
INVARIANTS
    TypeOK
    RecordsStay
    RunHitsRecords
    ResultAddsUp
    PercentilesExact
