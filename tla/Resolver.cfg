CONSTANTS
    Threads = {t1, t2}
    Versions = {a, b}
    MaxTime = 3
    Lifetime = 1
    RefreshInterval = 1
    StaleIfError = 1
    MaxClockSkew = 0
    NoThread = NoThread
    NoSnapshot = NoSnapshot
    NoAnswer = NoAnswer
SPECIFICATION Spec
INVARIANTS
    TypeOK
    EtagNamesCached
PROPERTIES
    PinsNeverRegress
    PinsAreUsable
    ConflictIsRaised
    LockIsReleased
