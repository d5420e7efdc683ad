SPECIFICATION FairSpec
CONSTANTS
    a1 = a1
    a2 = a2
    Activities = {a1, a2}
    NoActivity = none
    MaxEvents = 2
INVARIANTS
    TypeOK
    OneConnection
    ThreadHasStream
    StrayThreadIsLate
    NativeAlone
    TitleTrue
PROPERTIES
    BufferOutlives
    StopReturns
    ConnectionSettled
CHECK_DEADLOCK FALSE
