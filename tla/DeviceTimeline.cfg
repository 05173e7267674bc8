\* Callbacks that wait, tick, submit, lose and destroy the device, and every driver error.
SPECIFICATION FairSpec
CONSTANTS
    MaxWork = 2
    MaxTasks = 2
    MaxHandles = 1
    MaxDepth = 2
    AppOps <- AllOps
    CallbackOps <- NestedOps
    TeardownOps <- EndOps
    DriverErrors = {"DeviceLost", "Internal"}
INVARIANTS
    SuccessMeansExecuted
    DestroyedIsQuiet
    NoAssertFails
    NoEarlySuccess
    LiveDeletions
    IdleMeansDone
    QueueOrder
PROPERTIES
    EveryTaskAnswered
CHECK_DEADLOCK FALSE
