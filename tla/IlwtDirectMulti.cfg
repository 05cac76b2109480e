\* The direct interleave of chunks whose last route has two groups.
CONSTANTS
    ItemCount = 1
    ChunkBegin = 1
    ChunksPerSample = 2
    IsInverse = TRUE
    DirectInterleave = TRUE
    HybridTileMirror = FALSE
    Buffering = 2
    MaxGroups = 3
    Junk = 0
    Routes <- MCInverse
    Lift <- MCLift
    Scale <- MCScale
    GroupCount <- MCDirectGroups
    Input <- MCInput
SPECIFICATION Spec
PROPERTY ImplementsTransform
