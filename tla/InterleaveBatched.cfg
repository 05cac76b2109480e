\* A group of sticks at a time, chunks of several signals.
CONSTANTS
    BlockElements = 2
    BlocksPerRow = 3
    RowsPerGroup = 2
    StickWidth = 4
    Junk = 77777
    Jobs <- MCManySignals
    Signal <- MCSignal
SPECIFICATION Spec
INVARIANTS
    StagingInBounds
CHECK_DEADLOCK FALSE
