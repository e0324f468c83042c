SPECIFICATION LockedSpec
CONSTANTS
    r1 = r1
    r2 = r2
    r3 = r3
    w1 = w1
    Readers = {r1, r2, r3}
    Writers = {r3, w1}
    Nest <- Independent
    MaxShort = 3
    Groups = {g1, g2, g3}
    ChunksPerGroup = 2
    Keys = {1, 2, 3, 4, 5, 6, 7, 8, 9, 10, 11, 12}
    NULL = NULL
INVARIANTS
    MutualExclusion
    ReadersExact
    ChunksAccountedFor
    MemoryExact
    IsAVLTree
PROPERTIES
    WriterGetsIn
    ImplementsReadersWriters
    TrimIsComplete
    ImplementsChunkPool
    ChangesOneKey
