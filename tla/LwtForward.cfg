\* The forward transform of two work items, the last chunk of one sample and
\* the first of the next, with the hybrid tile mirror, implements
\* LiftingTransform.
CONSTANTS
    ItemCount = 2
    ChunkBegin = 1
    ChunksPerSample = 2
    IsInverse = FALSE
    DirectInterleave = FALSE
    HybridTileMirror = TRUE
    Buffering = 2
    MaxGroups = 3
    Junk = 0
    Routes <- MCForward
    Lift <- MCLift
    Scale <- MCScale
    GroupCount <- MCForwardGroups
    Input <- MCInput
SPECIFICATION Spec
INVARIANTS
    TypeOK
    NoRacingWrite
    PagesHeld
    MirrorCoherent
    Drained
    Lockstep
    Conservation
    WritesOfLeg
PROPERTIES
    ImplementsTransform
    SignalMeansLanded
