SPECIFICATION ClassifiersSpec
CONSTANTS
    Zones <- AllZones
    FirstTime = 2
    MaxTime = 4
    MaxClassifiers = 2
    MaxLookups = 2
INVARIANTS LookupEndsOnce NewestSurvives
PROPERTIES SettlesOnNewest FileIsTrained
