SPECIFICATION Spec
CONSTANTS
    Top = 13
    HeapBegin = 2
    GuestBase = 4
    StackBegin = 7
    MemoryTop = 8
    HostBase = 11
    Hints = {5, 8}
    MaxLen = 2
    MaxBrk = 8
    Calls = {"mmap", "munmap", "brk", "access"}
    Fails = {"mmap", "brk"}
    MaxMaps = 3
    MaxStores = 1
CHECK_DEADLOCK FALSE
INVARIANTS SpaceInv GuestKeepsItsMemory SliceEndReadable
