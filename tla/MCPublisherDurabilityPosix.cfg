CONSTANTS
    MaxVersion = 3
    OrderedMetadata = FALSE
    MaxKills = 2
SPECIFICATION MCSpec
INVARIANTS
    LatestNeverDangles
