CONSTANTS
    None = None
    s1 = s1
    s2 = s2
    Records <- MCRecords
    MaxRecords = 3
    Precision = 1
    Samples <- MCSamples
    MaxSamples = 4
    Absent = Absent
    Null = Null
    Drafts <- MCDrafts
    Workload = Workload
    p1 = p1
    p2 = p2
    Trusted = {p1, p2}
    Rows <- MCRows
    MaxRows = 3
    Chunks = {1, 2}
    Limit = 2
    MaxChanges = 2
    MaxTime = 2
    NoEntry = NoEntry
    Invalid = Invalid
    Ids = {1, 2}
    Systems = {s1, s2}
    Scores <- MCScores
    Boards <- MCBoards
    Versions <- MCVersions
    Claims <- MCClaims
    Retrieved = 2
    MaxBoardRows = 2
    MaxBoardChanges = 2
    Service = Service
    Worker = Worker
    Foreign = Foreign
    Setups <- MCSetups
    MaxCaptureSamples = 3
    MaxEvents = 2
    MaxMemory = 2
    Plans <- MCPlans
    Header = 3
    Floor = 6
    MaxNoise = 2
    Route = Route
    Other = Other
    Calls <- MCCalls
    Usages <- MCUsages
    MaxCalls = 2
    Tasks <- MCTasks
    TotalBasis <- MCTotalBasis
    MaxClock = 3
    Leaderboards <- MCLeaderboards
    TaskSet = {1, 2}
    Quantum = 10
    MaxForgotten = 1
SPECIFICATION Spec
CHECK_DEADLOCK FALSE
INVARIANTS
    EvidenceIsConsistent
    FailuresStay
    EvidenceAddsUp
PROPERTIES
    MoreEvidenceOnlyRefines
