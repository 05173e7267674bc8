SPECIFICATION FairSpec
CONSTANTS
    MaxBuffers = 2
    MaxRequests = 2
    MaxCommands = 1
    MaxGeneration = 1
    Kinds = {"Write", "ReadAtCreation", "WriteAtCreation"}
INVARIANTS
    WireInv
    SuccessIsGranted
    WritesArriveFirst
    NoWireError
PROPERTIES
    ClientProtocol
    EveryMapAnswered
CHECK_DEADLOCK FALSE
