\* Two threads allocate: both pass the pre-grow check with two slots left.
CONSTANTS
    Threads = {t1, t2}
    Allocators = {t1, t2}
    SlotsPerCNode = 3
    MaxCalls = 2
    ObjsPerPage = 2
    NoThread = NoThread
SPECIFICATION Spec
INVARIANT LockedAllocHasSpareSlot
CHECK_DEADLOCK FALSE
