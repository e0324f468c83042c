SPECIFICATION SpecO3
CONSTANTS
    r1 = r1
    r2 = r2
    w1 = w1
    Readers = {r1, r2}
    Writers = {w1}
    Nest <- Independent
    MaxShort = 3
INVARIANTS
    MutualExclusion
