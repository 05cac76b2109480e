\* Execution plans of shipped schemes, forward and inverse.
CONSTANTS
    GroupElements = 4
    StickWidth = 2
    Modulus = 97
    Jobs <- MCJobs
    Signal <- MCSignal
SPECIFICATION Spec
INVARIANTS
    TypeOK
    OnlyRequestRefused
    OperandsKept
    RoutesProduce
    CoefficientsExact
    SamplesExact
    SlotsLargeEnough
    WalkDistinct
PROPERTIES
    Settles
CHECK_DEADLOCK FALSE
