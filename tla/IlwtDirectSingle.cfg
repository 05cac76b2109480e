\* The direct interleave of chunks whose last route has one group.
CONSTANTS
    ItemCount = 3
    ChunkBegin = 1
    ChunksPerSample = 2
    IsInverse = TRUE
    DirectInterleave = TRUE
    HybridTileMirror = FALSE
    Buffering = 2
    MaxGroups = 3
    Junk = 0
    Routes <- MCInverse
    Lift <- MCLift
    Scale <- MCScale
    GroupCount <- MCSingleGroups
    Input <- MCInput
SPECIFICATION Spec
PROPERTY ImplementsTransform
