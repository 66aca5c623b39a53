SPECIFICATION TrialsSpec
CONSTANTS
    n1 = n1
    n2 = n2
    w = w
    p = p
    k1 = k1
    k2 = k2
    k3 = k3
    k4 = k4
    Empty = Empty
    Missing = Missing
    Idle = Idle
    Free = Free
    Node = {n1, n2}
    Client = {w, p}
    Home <- OriginAndReplica
    Dialled <- FullMesh
    Key = {k1, k2, k3, k4}
    Data = {a, b}
    Wall = {1, 2}
    MaxLogical = 2
    MaxWrites = 4
    Lossy = TRUE
    Writer = w
    Poller = p
    ValA = a
    ValB = b
    Stale <- TwoStale
    Chains <- OneChain
INVARIANTS
    TypeOK
    NoTrialViolated
    ChainVisible
    SamplesStayVisible
    ReportAddsUp
