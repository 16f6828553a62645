SPECIFICATION BoundedSpec
CONSTANTS
    Agents = {a1, a2}
    Requests = {r1, r2, r3, r4}
    Burst = 2
    Unit = 4
    Gain = 1
    Second = 2
    MaxBuckets = 1
    IdlePrune = 2
    Horizon = 5
SYMMETRY Symmetry
INVARIANTS
    BurstPlusRate
    WaitingSuffices
PROPERTY BucketsStay
CHECK_DEADLOCK FALSE
