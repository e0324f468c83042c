SPECIFICATION LibrarySpec
CONSTANTS
    MAX_POOLS = 3
    BufferTuples <- MCBufferTuples
    BufferSizes <- MCBufferSizes
    BufferNULL = BufferNULL
    MAX_ADDRESS_NUMBER = 3
    LookupSizes = {1, 2, 3}
    MaxStores = 8
    NoPointer = NoPointer
    BITS_PER_INT = 2
    BitRanges <- MCBitRanges
    NoBits = NoBits
    TLV_END_TYPE = TLV_END_TYPE
    OtherType = OtherType
    MAX_TLV_VALUE_BYTES = 3
    UIntSpan = 128
    TLVLengths = {0, 1, 2, 4, 60, 120}
    TLVBuffers <- MCTLVBuffers
    MonitorThreads = {t1, t2}
    BlockSizes = {1, 2}
    MaxCalls = 4
    Root = "root"
    ObjectIds = {"root", "a", "b", "c"}
    RootsParent = "none"
    AttributeIds = {1}
    AttributeValues <- MCAttributeValues
    WalkOrders <- MCWalkOrders
    FirstFiles <- MCFirstFiles
    NamesCanFail = FALSE
    MaxWrites = 2
    MaxCreates = 2
    NoFile = NoFile
    Types = {1}
    Registrants <- MCFarRegistrants
    IntSpan = 8
    MaxDepth = 2
INVARIANT RegisteredOnce
CHECK_DEADLOCK FALSE
