\* A core of the 2D transform, forward and inverse, two work items each.
CONSTANTS
    Tile = 32
    GroupElements = 4
    StickWidth = 2
    Modulus = 97
    Buffering = 2
    Junk = 99999
    Programs <- MCPrograms
    Places <- MCPlaces
    Image <- MCImage
    Lift <- MCLift
    Scale <- MCScale
SPECIFICATION Spec
INVARIANTS
    TypeOK
    ScratchOwned
    LegsExact
PROPERTIES
    Termination
\* The kernels return.
CHECK_DEADLOCK FALSE
