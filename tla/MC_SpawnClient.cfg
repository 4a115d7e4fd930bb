\* Two callers, three cores: ours (0), one with a spawn daemon (1) and one
\* without (2); transport and allocation do not fail.
CONSTANTS
    Procs = {p1, p2}
    MaxCpus = 3
    MyCore = 0
    Daemons = {0, 1}
    TransportMayFail = FALSE
    MaxCalls = 2
SPECIFICATION Spec
INVARIANTS TypeOK AllCoresSpawned SpawnRequestEncoding
PROPERTY EveryCallReturns
\* Each caller makes at most MaxCalls calls, after which the domain has
\* nothing left to do.
CHECK_DEADLOCK FALSE
