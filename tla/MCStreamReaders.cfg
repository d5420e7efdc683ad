SPECIFICATION Spec
CONSTANTS
    Parts <- MCParts
    LengthLine <- MCLengthLine
    MaxParts = 3
    MaxTries = 2
    FRAME_MAX_LENGTH = 26
    Missing = {0, 15}
    ReadAhead = {0, 9}
INVARIANTS
    TypeOK
    FrameWhole
    NothingLost
    FirstPictureRead
PROPERTIES
    ReaderEnds
    PollingEnds
CHECK_DEADLOCK FALSE
