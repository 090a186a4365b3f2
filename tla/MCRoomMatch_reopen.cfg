CONSTANTS
    Player = {p1, p2, p3}
    Mode = {m1}
    MaxPlayers = 2
    MaxRooms = 2
    MaxTickets = 3
SPECIFICATION Spec
PROPERTIES
    MatchedPlayersGetARoom
