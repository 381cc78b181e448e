CONSTANTS
    Client = {c1, c2}
    RT_ALIGN_SIZE = 2
    SIZEOF_STRUCT_MEM = 2
    MIN_SIZE = 3
    SizeMod = 32
    mem_size_aligned = 22
    Request = {1, 5, 12, 31}
SPECIFICATION Spec
INVARIANTS
    ChainSound
    UsedMemCounts
    NoMissedBlock
PROPERTY ImplementsAllocator
