CONSTANTS
    MaxConnections = 1
    MaxPerWindow = 1
    MaxIds = 2
    MaxSends = 3
    Oversized = {1}
    MaxStarts = 2
SPECIFICATION Spec
CHECK_DEADLOCK FALSE
INVARIANTS
    TypeOK
    AlwaysAccepting
    ConnectionsAreAccountedFor
    FramesInOrder

