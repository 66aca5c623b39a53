SPECIFICATION Spec
CONSTANTS
    n1 = n1
    n2 = n2
    Node = {n1, n2}
    Wall = {1, 2, 3}
    MaxLogical = 1
INVARIANTS
    TypeOK
    SendMonotonic
    IssuedBelowClock
    WallIsAReading
    HeardWallDominated
PROPERTY ClockAdvances
CHECK_DEADLOCK FALSE
