SPECIFICATION Spec
CONSTANTS
    MemoryMap <- HoleMap
    DmaCounts = {0, 1, 2, 3}
INVARIANTS NoDoubleHandOut CursorOnFreeFrame ScanFindsFirstRun
