SPECIFICATION Spec
CONSTANTS
    BusCount = 3
    DeviceCount = 2
    FunctionCount = 2
    BarCount = 3
    Modulus = 256
    Page = 32
    RootBegin = 0
    MaxFound = 3
    Setup <- MCSetup
    Pointer = {0, 64}
INVARIANTS FoundOnce RegistersRestored BarsRight CapabilitiesRight DrivesNumbered
PROPERTY BootEnds
CHECK_DEADLOCK FALSE
