SPECIFICATION MCSpec
CONSTANTS
    s1 = s1
    s2 = s2
    t1 = t1
    t2 = t2
    Clients = {t1, t2}
    Servers = {s1, s2}
    Sessions = {s1, s2}
    Messages = {"f", "l"}
    MaxRequests = 4
    NoServer = NoServer
    NoMessage = NoMessage
    Console = Console
    Nobody = Nobody
    PanelPoints <- MCPoints
    MaxInputs = 2
    SerialStates = {TRUE, FALSE}
SYMMETRY MCSymmetry
CHECK_DEADLOCK FALSE
INVARIANTS TypeOK SingleDriver RequestHeldOnce LateMoveBound PanelShowsArm GripTraced
PROPERTY LeaseKept
