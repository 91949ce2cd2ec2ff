SPECIFICATION FairSpec
CONSTANTS
    MaxRequests = 3
    MaxStarts = 2
    MaxClients = 3
INVARIANTS
    OneAtATime
    PausedWhileTalking
    PausesAreReturned
    RecorderIsFresh
PROPERTIES
    RequestsEnd
    RobotIsFoundAgain
CHECK_DEADLOCK FALSE
