CONSTANTS
    Process = {1, 2}
    Tty = {0, 1}
    BufferPages = 1
    Vram <- MCVram
    Usable <- MCUsable
    UnitsPerPage = 3
    USER_HEAP_INIT_SIZE = 3
    MaxHeap = 2
    Bounds <- MCBounds
    Layout = {1}
    Pixel = {0, 1}
SPECIFICATION Spec
INVARIANTS
    
    
    LostOnlyByDrop
    
    HeapBacked
CHECK_DEADLOCK FALSE
