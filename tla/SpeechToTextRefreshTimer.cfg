SPECIFICATION Spec
CONSTANTS
    Models = {broad}
    Continous = TRUE
    MaxRefresh = 1
    MaxInbox = 2
PROPERTIES TimerKeepsListening
