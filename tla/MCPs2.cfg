SPECIFICATION Spec
CONSTANTS
    Kinds = {"stuck", "absent", "standard", "wheel", "five"}
    Reports <- MCReports
    Keys <- MCKeys
    MaxInputs = 2
    MaxTries = 3
    SCANCODE_QUEUE_SIZE = 1
INVARIANTS ReportsDelivered 
CHECK_DEADLOCK FALSE
