SPECIFICATION WindowSpec
CONSTANTS
    s1 = s1
    t1 = t1
    t2 = t2
    b1 = b1
    b2 = b2
    Prompt = Prompt
    Clients = {t1, t2}
    Servers = {s1, Prompt}
    Sessions = {s1}
    Messages = {"y"}
    MaxRequests = 2
    NoServer = NoServer
    NoMessage = NoMessage
    Console = Console
    Nobody = Nobody
    PanelPoints <- MCPoints
    MaxInputs = 0
    SerialStates = {TRUE, FALSE}
    Boxes = {b1, b2}
    BoxPos <- MCBoxPos
    Mistaken <- MCMistaken
    NoBox = NoBox
    MaxClicks = 3
SYMMETRY MCSymmetry
CONSTRAINT MCBound
CHECK_DEADLOCK FALSE
INVARIANTS WindowTypeOK OneServerAtWork OneFeed OfferedBoxesThere
PROPERTIES EveryBoxHandled DeliveryKept
