CONSTANTS
    Threads = {t1}
    Versions = {a, b}
    MaxTime = 2
    Lifetime = 1
    RefreshInterval = 1
    StaleIfError = 1
    MaxClockSkew = 0
    NoThread = NoThread
    NoSnapshot = NoSnapshot
    NoAnswer = NoAnswer
SPECIFICATION Spec
PROPERTY
    ConflictIsNeverHidden
