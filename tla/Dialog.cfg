SPECIFICATION DialogSpec
CONSTANTS
    Texts = {"hello"}
    Stacks = {"root", "node"}
    Responses <- FourResponses
    Opening = "root"
    MaxAge = 1
    MaxTime = 2
    MaxRequests = 3
INVARIANTS AnsweredOnce AnswersFit
PROPERTIES EntriesAreFresh
CHECK_DEADLOCK FALSE
