SPECIFICATION Spec
CONSTANTS
    c1 = c1
    c2 = c2
    i1 = i1
    i2 = i2
    k1 = k1
    u1 = u1
    u2 = u2
    Cpu = {c1, c2}
    InitThread <- MCInitThread
    KernelThread = {k1}
    UserThread = {u1, u2}
    MayBlock = {k1, u1, u2}
    OrderlyExit = FALSE
INVARIANT ScheduledThreadAlive
