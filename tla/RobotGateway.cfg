SPECIFICATION GatewaySpec
CONSTANTS
    ApplyParentHost = TRUE
    Parents = {"none", "empty", "id"}
    Times = {1, 2}
    Garbage = {0, 9}
    StatusPasses = TRUE
    MaxStarts = 2
    MaxLogs = 3
    MaxRequests = 1
INVARIANTS RunsOnAnswers SignedWithCurrentToken NoLogLost SpanCoversLogs NoLogStranded
PROPERTIES StartComesBack
CHECK_DEADLOCK FALSE
