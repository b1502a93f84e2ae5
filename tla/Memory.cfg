CONSTANTS
    HEAP_START = 4
    HEAP_SIZE = 24
    Header = 1
    Word = 64
    Requests = {3, 6, 12}
    PMM_FRAMES_MAX = 5
    StartFrame = 2
    MemUpper = {0, 2, 5, 9, 13, 36}
    LowMemory = 2
    AddressSpace = 32
    FrameSize = 2
SPECIFICATION MemorySpec
INVARIANTS MemoryTypeOK Tiled DoublyLinked Coalesced CounterExact NoFrameLostOrShared FramesExist
PROPERTIES ImplementsAllocator
