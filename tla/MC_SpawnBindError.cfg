\* One caller; the bind to a spawn daemon may fail asynchronously.
CONSTANTS
    Procs = {p1}
    MaxCpus = 2
    MyCore = 0
    Daemons = {0, 1}
    TransportMayFail = TRUE
    MaxCalls = 1
SPECIFICATION Spec
INVARIANT ClientsAreBound
CHECK_DEADLOCK FALSE
