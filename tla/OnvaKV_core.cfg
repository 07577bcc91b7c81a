\* Two keys, two values, two goroutines preparing at once, two blocks.
SPECIFICATION Spec
CONSTANTS
    StartKey = 0
    EndKey = 9
    NoKey = NoKey
    NoValue = NoValue
    GuardValue = GuardValue
    DummyKey = DummyKey
    DummyValue = DummyValue
    NoOp = NoOp
    Keys <- MCKeys2
    Values = {v1, v2}
    Workers = {w1, w2}
    LeafCountInTwig = 2
    StartReapThres = 2
    KeptEntriesToActiveEntriesRatio = 2
    DeactivedSNListMaxLen = 1
    OneOpPerKey = TRUE
    MaxHeight = 1
INVARIANTS TypeOK NoPanic LinkedList
PROPERTY ImplementsKVBlockSpec
