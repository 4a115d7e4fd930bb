\* A new_monitor_notify may fail: is the mesh full when boot_initialize_request replies?
CONSTANTS
    Cores = {0, 1, 2, 3}
    BSP = 0
    SpawnMayFail = FALSE
    NotifyMayFail = TRUE
SPECIFICATION Spec
INVARIANT FullMeshAtInitialize
