\* Three cores sharing d, whose retype creates e; clients a1 and a2 on core
\* A, b1 on core B, none on core C; one call each, any call on d or e;
\* every kernel operation may fail.
CONSTANTS
    A = A
    B = B
    C = C
    a1 = a1
    a2 = a2
    b1 = b1
    c1 = c1
    d = d
    e = e
    None = None
    Cores <- MC_ThreeCores
    Clients = {a1, a2, b1}
    ClientCore <- MC_ClientCore
    Caps = {d, e}
    Descendants <- MC_Descendants
    InitCopies <- MC_InitCopies
    Calls <- MC_AllCalls
    KernelMayFail = {"retype", "delete", "revoke"}
    MaxCalls = 1
SPECIFICATION Spec
INVARIANT TypeOK
INVARIANT MutualExclusion
INVARIANT SubtreeExclusion
INVARIANT RetypeOnceUntilRemoved
INVARIANT StaticPoolConsistent
\* A call queued behind a lock that a failed delete or revoke never
\* released waits for ever (see the run cap_delete_leaks_lock): the
\* monitors really can stop.
CHECK_DEADLOCK FALSE
