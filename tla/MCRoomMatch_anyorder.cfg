CONSTANTS
    Player = {p1, p2, p3}
    Mode = {m1}
    MaxPlayers = 2
    MaxRooms = 2
    MaxTickets = 3
SPECIFICATION Spec
SYMMETRY Symmetry
INVARIANTS
    TypeOK
    TicketIndexMatchesQueue
    ActiveRoomsAreWellFilled
    OnePlaceEach
PROPERTIES
    MatchingIsFifo
    MatchingLosesNobody
    ImplementsMatchmaking
