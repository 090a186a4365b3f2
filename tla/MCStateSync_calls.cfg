CONSTANTS
    Room = {r1}
    Player = {p1, p2}
    Position = {0, 1, 3}
    MaxStep = 1
    Speed = 1
    Tolerance = 1
    SnapshotInterval = 2
    MaxDeltas = 2
    MaxInput = 3
    MaxVersion = 5
    MaxClock = 2
SPECIFICATION Spec
CHECK_DEADLOCK FALSE
SYMMETRY Symmetry
INVARIANTS
    TypeOK
    DeltasInOrder
    AcceptedInputsAreTold
    WithinReach
PROPERTIES
    ChangesMoveForward
