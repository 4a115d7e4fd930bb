\* Four cores, spawns may fail, every notification is delivered.
CONSTANTS
    Cores = {0, 1, 2, 3}
    BSP = 0
    SpawnMayFail = TRUE
    NotifyMayFail = FALSE
SPECIFICATION Spec
INVARIANTS TypeOK ConnectionsClosedForm FullMeshAtInitialize
PROPERTY BootCompletes
\* A boot that hangs before boot_initialize_request replies violates
\* BootCompletes, which this run checks; after the reply Booted stutters.
CHECK_DEADLOCK FALSE
