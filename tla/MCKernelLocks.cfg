CONSTANTS
    Cpus = 2
    Threads = 2
    MaxDevice = 1
    Assignment <- Pairs
SPECIFICATION Spec
INVARIANTS
    
    SectionsMasked
    
 
CHECK_DEADLOCK FALSE
