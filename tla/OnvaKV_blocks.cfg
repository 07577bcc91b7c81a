\* Three keys and three blocks with twigs of two entries: dummies, compaction and eviction
\* happen, and neighbours of changed keys change too.
SPECIFICATION Spec
CONSTANTS
    StartKey = 0
    EndKey = 9
    NoKey = NoKey
    NoValue = NoValue
    GuardValue = GuardValue
    DummyKey = DummyKey
    DummyValue = DummyValue
    NoOp = NoOp
    Keys <- MCKeys3
    Values = {v1}
    Workers = {w1}
    LeafCountInTwig = 2
    StartReapThres = 2
    KeptEntriesToActiveEntriesRatio = 2
    DeactivedSNListMaxLen = 1
    OneOpPerKey = TRUE
    MaxHeight = 2
INVARIANTS ActiveIffIndexed LogExplainsActiveBits SNListFits NoActiveInEvictedTwig FullInv
PROPERTY VersionStep
