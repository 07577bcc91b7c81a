\* Probe chains of up to four slots for three keys.
SPECIFICATION Spec
CONSTANTS
    Keys <- MCKeys
    Slots <- MCSlots
    Path <- MCPath
    MaxFindDepth = 4
    Vals = {11}
    NoKV = NoKV
    Nil = Nil
INVARIANTS FindsTheMap PassbyCounts WritesArePrepared
