\* Execution plans of the 2D transform, forward and inverse.
CONSTANTS
    Tile = 32
    GroupElements = 4
    StickWidth = 2
    Modulus = 97
    Width = 16
    Jobs <- MCJobs
    Signal <- MCSignal
    Pixel <- MCPixel
SPECIFICATION Spec
INVARIANTS
    TypeOK
    OnlyRequestRefused
    PlanesHold
    CoefficientsExist
    TransformExact
CHECK_DEADLOCK FALSE
