CONSTANTS
    Name = {n1, n2}
    Worker = {w1, w2}
    NoOne = noone
    TokenTtl = 1
    IdleTimeout = 0
    MaxClock = 2
    MaxSessions = 2
    MaxRequests = 3
SPECIFICATION Spec
CHECK_DEADLOCK FALSE
SYMMETRY Symmetry
INVARIANTS
    TypeOK
    SessionIndexAgrees
    RegistrationsLast
    IdentitiesAreRegistered
