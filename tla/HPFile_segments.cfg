\* Three segments of two buffers each.
SPECIFICATION Spec
CONSTANTS
    BufferSize = 2
    BlockSize = 4
    PreReadBufSize = 4
    SliceLists <- MCSliceLists
    MaxSize = 10
INVARIANTS NothingLost WindowIsCurrent
CHECK_DEADLOCK FALSE
