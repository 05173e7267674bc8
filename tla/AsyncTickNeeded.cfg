\* The application ticks only while APITick says that it is needed.
SPECIFICATION FairSpecNeeded
CONSTANTS
    MaxCreations = 1
    MaxDepth = 1
    Descriptors = {d1}
    CallbackOps = {}
    ShutDownOps = {}
PROPERTIES
    EveryCreationAnswered
CHECK_DEADLOCK FALSE
