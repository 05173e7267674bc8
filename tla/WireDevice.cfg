SPECIFICATION FairSpec
CONSTANTS
    MaxCalls = 4
    MaxRequests = 2
    MaxInFlight = 2
INVARIANTS
    IdsAgree
    ErrorsReachTheirScope
    NoHandlerFails
PROPERTIES
    EveryRequestIsAnswered
    LossIsTold
CHECK_DEADLOCK FALSE
