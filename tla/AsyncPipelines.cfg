SPECIFICATION FairSpec
CONSTANTS
    MaxCreations = 3
    MaxDepth = 2
    Descriptors = {d1}
    CallbackOps = {"CreateAsync", "Create", "Release", "Tick", "SetCallback", "Lose"}
    ShutDownOps = {"Create", "Release", "Tick", "SetCallback", "Lose"}
INVARIANTS
    AsyncInv
    CalledAtMostOnce
    HaltsAreKnown
PROPERTIES
    EveryCreationAnswered
CHECK_DEADLOCK FALSE
