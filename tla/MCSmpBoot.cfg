CONSTANTS
    Cpu = {0, 1, 2}
    Bsp = 1
    LowTicks = 2
    MaxCounter = 2
    Ids <- MCIds
SPECIFICATION Spec
INVARIANTS
    TickFindsItsCpu
    CounterNotTorn
PROPERTY EveryCpuSchedules
CHECK_DEADLOCK FALSE
