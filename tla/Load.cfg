\* Loading the home slots in every boundary mode, layout and page size.
CONSTANTS
    Width = 5
    BlockElements = 2
    BlocksPerRow = 3
    RowsPerGroup = 2
    StickWidth = 4
    CacheSticks = 2
    Junk = 77777
    Jobs <- MCJobs
    Signal <- MCSignal
SPECIFICATION Spec
INVARIANTS
    LoadedExact
    NarrowAgrees
    CacheInBuffer
PROPERTIES
    LoadsEnd
CHECK_DEADLOCK FALSE
