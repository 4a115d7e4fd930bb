\* Clients on two cores delete and revoke d, and no kernel operation fails
\* by itself: do the monitors still implement AtomicCapOps, in which a
\* call gives up its lock when it replies?
CONSTANTS
    A = A
    B = B
    C = C
    a1 = a1
    a2 = a2
    b1 = b1
    c1 = c1
    d = d
    e = e
    None = None
    Cores <- MC_Cores
    Clients = {a1, b1}
    ClientCore <- MC_ClientCore
    Caps = {d}
    Descendants <- MC_Descendants
    InitCopies <- MC_InitCopies
    Calls <- MC_DeleteRevokeCalls
    KernelMayFail = {}
    MaxCalls = 2
SPECIFICATION Spec
PROPERTY CapOpsAtomic
CHECK_DEADLOCK FALSE
