SPECIFICATION ResultSpec
CONSTANTS
    MaxModels = 2
    MaxConfidence = 1
INVARIANTS WaitsForAllStreams
