SPECIFICATION Spec
CONSTANTS
    Order <- MCOrder
    Quantifiers <- MCQuantifiers
    IndexLimit = 256
    IntLimit = 64
    UIntLimit = 128
    Int64Limit = 512
    UInt64Limit = 1024
    FastLimit = 200
    SignificandDigits = 3
    MaxExponent = 6
    MaxInt = 2147483647
    DefaultCapacity = 2
    Allocators = {a1, a2}
    Pools = {p1, p2}
    Word = 2
    ChunkCapacity = 6
    Buffers = {3}
    Sizes = {0, 1, 4, 7}
    MaxChunks = 2
INVARIANTS
    BlocksApart
    PoolsAreCounted
PROPERTIES
    RegexSearches
    EncodingsAgree
    UrisResolve
    PointersReach
    TextsAreRead
    ParsersAgree
    DocumentsAreKept
    ValuesAreValues
