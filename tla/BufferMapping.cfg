SPECIFICATION FairSpec
CONSTANTS
    MaxTasks = 3
    MaxSerial = 3
    MaxDepth = 2
    AppOps = {"MapAsync", "OnSubmittedWorkDone", "Unmap", "Destroy", "WriteBuffer", "Submit", "Tick", "LoseForTesting", "DeviceDestroy"}
    CallbackOps = {"MapAsync", "OnSubmittedWorkDone", "Unmap", "Destroy", "CreateBuffer", "WriteBuffer", "Submit", "Tick"}
    SubmitCallbackOps = {"OnSubmittedWorkDone", "Unmap", "Destroy", "CreateBuffer", "WriteBuffer", "Submit", "Tick"}
    UnmapCallbackOps = {"Unmap", "OnSubmittedWorkDone", "CreateBuffer"}
INVARIANTS
    MappingInv
    ExclusiveWhenMapped
PROPERTIES
    MappingProtocol
    EveryRequestAnswered
CHECK_DEADLOCK FALSE
