SPECIFICATION Spec
CONSTANTS
    SignalType = {1, 2, 3}
    MaxPending = 4
INVARIANTS BitmapTells 
CHECK_DEADLOCK FALSE
