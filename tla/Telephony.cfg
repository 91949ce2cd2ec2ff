SPECIFICATION FairSpec
CONSTANTS
    Clips <- ShortAndLong
    SendBytes = 2
    MaxConnects = 2
    MaxClips = 2
    MaxInbox = 2
INVARIANTS HandshakeFirst
PROPERTIES KeepsItsPromise FramesCarryAll ComesBack
