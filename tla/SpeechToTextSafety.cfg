SPECIFICATION Spec
CONSTANTS
    Models = {broad}
    Continous = FALSE
    MaxRefresh = 2
    MaxInbox = 3
INVARIANTS ConnectedIsCurrent
PROPERTIES KeepsItsPromise
