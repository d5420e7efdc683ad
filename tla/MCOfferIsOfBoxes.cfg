SPECIFICATION WindowSpec
CONSTANTS
    s1 = s1
    t1 = t1
    t2 = t2
    b1 = b1
    b2 = b2
    Prompt = Prompt
    Clients = {t1}
    Servers = {s1, Prompt}
    Sessions = {s1}
    Messages = {"y", "n", "l"}
    MaxRequests = 0
    NoServer = NoServer
    NoMessage = NoMessage
    Console = Console
    Nobody = Nobody
    PanelPoints <- MCPoints
    MaxInputs = 0
    SerialStates = {TRUE}
    Boxes = {b1}
    BoxPos <- MCBoxPos
    Mistaken <- MCMistaken
    NoBox = NoBox
    MaxClicks = 3
CHECK_DEADLOCK FALSE

INVARIANT OfferIsOfBoxes
