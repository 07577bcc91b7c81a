\* A recovery when the youngest twig is empty.
SPECIFICATION Spec
CONSTANTS
    TwigShift = 2
    ChunkShift = 2
    MinPruneCount = 2
    MaxSN = 20
    MaxActive = 2
    MaxOps = 2
    MaxRestarts = 1
    TwigsPerSegment = 3
INVARIANT RecoveredRootIsReference
