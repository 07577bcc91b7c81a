\* Five blocks on one key, with prunings of two and of three twigs, a close or a
\* crash at every step, and appends that wait for the flush of the block before.
SPECIFICATION RFairSpec
CONSTANTS
    StartKey = 0
    EndKey = 9
    NoKey = NoKey
    NoValue = NoValue
    GuardValue = GuardValue
    DummyKey = DummyKey
    DummyValue = DummyValue
    NoOp = NoOp
    Keys <- MCKeys1
    Values = {v1}
    Workers = {w1}
    LeafCountInTwig = 3
    StartReapThres = 2
    KeptEntriesToActiveEntriesRatio = 2
    DeactivedSNListMaxLen = 1
    OneOpPerKey = TRUE
    MaxHeight = 5
    MinPruneCount = 2
    PruneHeights = {2, 5}
INVARIANTS RTypeOK KeepsStoredKeys RestoresActiveBits QuietRestartSucceeds PrunedIsDeadAndOld
PROPERTY EndWriteTerminates
CHECK_DEADLOCK FALSE
