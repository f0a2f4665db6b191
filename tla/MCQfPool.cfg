CONSTANTS
    Threads = {t1, t2}
    NPools = 2
    storage <- MCStorage
    num_blocks <- MCNumBlocks
    block_size <- MCBlockSize
    Sizes <- MCSizes
    Margins <- MCMargins
    MAX_COUNT = 3
SPECIFICATION Spec
INVARIANTS
    FreeListIntact
    CountIsReferences
    NoFalseFault
PROPERTIES
    HandsOutFreeBlocks
