SPECIFICATION Spec
CONSTANTS
    MaxTasks = 1
    MaxSerial = 3
    MaxDepth = 2
    AppOps = {"MapAsync", "Destroy"}
    CallbackOps = {}
    SubmitCallbackOps = {}
    UnmapCallbackOps = {"CreateBuffer"}
INVARIANTS
    NoSelfDeadlock
CHECK_DEADLOCK FALSE
