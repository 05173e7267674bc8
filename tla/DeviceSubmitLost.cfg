\* A callback of the Tick that Submit starts with may lose the device.
SPECIFICATION FairSpec
CONSTANTS
    MaxWork = 2
    MaxTasks = 1
    MaxHandles = 0
    MaxDepth = 2
    AppOps = {"OnSubmittedWorkDone", "WriteBuffer", "Submit"}
    CallbackOps = {"LoseForTesting"}
    TeardownOps = {}
    DriverErrors = {"DeviceLost", "Internal"}
PROPERTIES
    NoSubmitWhenLost
CHECK_DEADLOCK FALSE
