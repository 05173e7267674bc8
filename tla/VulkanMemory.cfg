SPECIFICATION Spec
CONSTANTS
    MaxResources = 3
    Log2MaxBlockSize = 4
    Log2MemoryBlockSize = 3
    Sizes = {1, 3, 4}
    Alignments = {1, 8}
    MaxHeaps = 2
    MaxSerial = 2
INVARIANTS
    BuddyInv
    NoAliasing
    HeapLifetimes
PROPERTIES
    FitsItsHeap
CHECK_DEADLOCK FALSE
VIEW LiveView
