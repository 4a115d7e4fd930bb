\* One thread allocates while another frees: the pre-grow of
\* ram_alloc_remote, the lock they share and ram_alloc_set's wait.
CONSTANTS
    Threads = {t1, t2}
    Allocators = {t1}
    SlotsPerCNode = 3
    MaxCalls = 3
    ObjsPerPage = 2
    NoThread = NoThread
SPECIFICATION Spec
INVARIANTS TypeOK LockedAllocHasSpareSlot
PROPERTIES RamAllocSetReturns EveryCallReturns
\* Every thread makes at most MaxCalls calls and ram_alloc_set may fail or
\* install a local allocator: the domain then has nothing left to do.
CHECK_DEADLOCK FALSE
