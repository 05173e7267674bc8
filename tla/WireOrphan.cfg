SPECIFICATION Spec
CONSTANTS
    MaxCalls = 1
    MaxRequests = 1
    MaxInFlight = 2
INVARIANTS
    ChildrenGoFirst
CHECK_DEADLOCK FALSE
