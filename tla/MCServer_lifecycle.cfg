CONSTANTS
    Worker = {w1, w2}
    Client = {c1, c2}
    MaxRequests = 2
    Storages <- MCStorages
SPECIFICATION FairSpec
CHECK_DEADLOCK FALSE
INVARIANTS
    TypeOK
    HandlersKeepTheirStorage
    RepliesTellOfShutdown
    AcceptLoopLives
PROPERTIES
    RequestsAndStopEnd
