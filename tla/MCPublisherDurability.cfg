CONSTANTS
    MaxVersion = 3
    OrderedMetadata = TRUE
    MaxKills = 2
SPECIFICATION MCSpec
INVARIANTS
    LatestNeverDangles
    CommitMarkerIsLast
PROPERTY
    ReturnedCallSurvives
