\* Twigs of two entries, lists of at most two serial numbers, a channel for one entry.
SPECIFICATION Spec
CONSTANTS
    Base = 128
    Bodies <- MCBodies
    LeafCountInTwig = 2
    StartReapThres = 0
    KeptEntriesToActiveEntriesRatio = 2
    DeactivedSNListMaxLen = 2
    ChanCap = 1
    MaxWritten = 5
    MaxSN = 9
INVARIANTS ReadsBack LeavesAreRecovered CompactionKeepsEntries MagicOnlyAtEntries
CHECK_DEADLOCK FALSE
