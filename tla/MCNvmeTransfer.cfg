SPECIFICATION Spec
CONSTANTS
    Capacity = 40
    BadBlock = {5, 30}
    Kind = {"dma", "copied", "batched", "block"}
    Lba = {0, 6, 13, 37}
    Size = {1, 8, 11, 24}
    Batch = {1, 2, 8}
    MaxCalls = 2
INVARIANTS ReturnMeansDone 
CHECK_DEADLOCK FALSE
