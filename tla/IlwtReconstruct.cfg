\* The inverse transform, reconstructing from the workspace.
CONSTANTS
    ItemCount = 2
    ChunkBegin = 1
    ChunksPerSample = 2
    IsInverse = TRUE
    DirectInterleave = FALSE
    HybridTileMirror = TRUE
    Buffering = 2
    MaxGroups = 3
    Junk = 0
    Routes <- MCInverse
    Lift <- MCLift
    Scale <- MCScale
    GroupCount <- MCInverseGroups
    Input <- MCInput
SPECIFICATION Spec
PROPERTIES
    ImplementsTransform
    Termination
