\* Chunks of one signal a group of sticks at a time, of several signals stick
\* by stick.
CONSTANTS
    BlockElements = 2
    BlocksPerRow = 3
    RowsPerGroup = 2
    StickWidth = 4
    Junk = 77777
    Jobs <- MCInBounds
    Signal <- MCSignal
SPECIFICATION Spec
INVARIANTS
    StagingInBounds
    Reconstructed
CHECK_DEADLOCK FALSE
