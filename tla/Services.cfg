SPECIFICATION FairSpec
CONSTANTS
    MaxModels = 3
    MaxConfidence = 1
    Sounds = {hello, bye}
    MaxPosted = 3
    MaxLogins = 2
    Pages = {news, map}
    MaxTurns = 2
INVARIANTS WaitingMeansTimed EachResultOnce
PROPERTIES StreamsEnd LogsIn PagesAreShown
CHECK_DEADLOCK FALSE
