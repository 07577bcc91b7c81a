\* Every sequence of operations on keys 1..8 with pages of at most two items.
SPECIFICATION Spec
CONSTANTS
    Keys <- MCKeys
    ValsOf <- MCValsOf
    kd = 1
    kx = 2
    MaxPages = 14
    MaxEnumLen = 3
    EOF = EOF
INVARIANTS ImplementsMap EnumeratesInOrder
PROPERTY NeverSkips
