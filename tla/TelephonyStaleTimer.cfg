SPECIFICATION Spec
CONSTANTS
    Clips <- ShortAndLong
    SendBytes = 2
    MaxConnects = 2
    MaxClips = 0
    MaxInbox = 1
PROPERTY TimerOnlyDials
