SPECIFICATION FairSpec
CONSTANTS
    MaxStarts = 3
    MaxPauses = 2
    MaxAsked = 2
    MaxGrabs = 4
    MaxHolds = 2
    MaxMoves = 3
INVARIANTS
    OneCapture
    OneClipAfterPause
    SharedSensorLives
PROPERTIES
    SensorStops
    CapturesAgain
    FallsAreAttended
CHECK_DEADLOCK FALSE
