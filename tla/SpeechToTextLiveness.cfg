SPECIFICATION FairSpec
CONSTANTS
    Models = {broad}
    Continous = TRUE
    MaxRefresh = 0
    MaxInbox = 4
INVARIANTS SessionRespected
PROPERTIES TimerKeepsListening HearsAgain SilentServerIsLeft
