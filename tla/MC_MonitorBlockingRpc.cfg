\* Two monitors, each fresh or two allocations short of the rollover
\* assert; a two-entry IRQ table; three calls per client, of any kind.
CONSTANTS
    Cores = {0, 1}
    StartIds = {0, 16777213}
    IrqTableSize = 2
    MaxCalls = 3
SPECIFICATION Spec
INVARIANTS TypeOK RouteIdsUnique
PROPERTY EveryCallAnswered
\* Each client makes at most MaxCalls calls; a monitor may abort.
CHECK_DEADLOCK FALSE
