SPECIFICATION Spec
CONSTANTS
    Workers = {w1, w2}
    MaxCycles = 3
    NotFinite = {2}
    RingSize = 2
    QueueMax = 2
    SeenMax = 3
    GapTolerance = 1
    Wirings <- MCWirings
    Faults = {"link", "driver", "mdm", "ingestor", "post", "redis", "again"}
    IecStarts = {126, 32766}
    Setpoints = {5}
    Objects <- MCObjects
    Rated = 2
    TcpStarts = {65534}
    c1 = c1  c2 = c2  c3 = c3
    Orders = {q1, q2}
    StartLevels = {3, 8}
    Targets = {8}
    ChargerCommands = {c1, c2, c3}
    ChargerKinds <- MCKinds
    Items <- MCItems
    None = None
    MaxFaults = 2
    MaxSockets = 2
    MaxMoves = 1
    MaxMishaps = 1
    PathFaults = 2
    MaxQueue = 3
    MaxCommands = 2
    MaxReadings = 5
    MaxPolls = 2
    MaxOrders = 2
    MaxSpells = 2
INVARIANTS ReadingsAreTrue  RightlyNamed RequestsAreTrue SessionsInStep AckedStands
PROPERTIES ReadingsArrive Resubscribes OutcomeArrives
CHECK_DEADLOCK FALSE
