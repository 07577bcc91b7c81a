\* Up to two changes between write-backs, by two transactions over three keys.
SPECIFICATION Spec
CONSTANTS
    Keys <- MCKeys
    Cacheable <- MCCacheable
    Vals = {11, 12}
    Txs = {t1, t2}
    CacheSizeLimit = 0
    MaxOps = 2
    None = None
SYMMETRY Sym
INVARIANTS ReadsSeeLatest IterationIsTheView RootCacheCoherent TrunkCanBeWritten BlockIsCommitted
