SPECIFICATION FairSpec
CONSTANTS
    s1 = s1
    s2 = s2
    t1 = t1
    t2 = t2
    Clients = {t1}
    Servers = {s1, s2}
    Sessions = {s1, s2}
    Messages = {"u", "Connected"}
    MaxRequests = 2
    NoServer = NoServer
    NoMessage = NoMessage
    Console = Console
    Nobody = Nobody
    PanelPoints = {}
    MaxInputs = 1
    SerialStates = {TRUE, FALSE}
CHECK_DEADLOCK FALSE
PROPERTIES RequestSettled ComesToRest
