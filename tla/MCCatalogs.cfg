CONSTANTS
    Missing = Missing
    NoSource = NoSource
    None = None
    Idle = Idle
    q = q
    x = x
    leaf = leaf
    inner = inner
    w1 = w1
    w2 = w2
    o1 = o1
    o2 = o2
    o3 = o3
    k1 = k1
    k2 = k2
    Signals = {q, x}
    Paths = {leaf, inner}
    Within <- PathsWithin
    Reserved = leaf
    Names = {n1, n2, n3}
    Offerings = {o1, o2, o3}
    MaxOfferings = 2
    CatalogSets <- MCCatalogSets
    Enrichments <- MCEnrichments
    a = a
    b = b
    r1 = r1
    r2 = r2
    Rows = {r1, r2}
    NoEntry = NoEntry
    Invalid = Invalid
    Captures <- MCCaptures
    Reviews <- MCReviews
    c1 = c1
    c2 = c2
    Components = {c1, c2}
    Candidates = {o1, o2}
    Required = {c1}
    Minimum = 1
    Skew = 1
    Times = {0, 1, 2, 3}
    MaxEvaluations = 1
    MaxAge <- MCMaxAge
    Estimates <- MCEstimates
    FirstFrontiers <- MCFirstFrontiers
    PinnedContent = p
    Contents = {p, d, e}
    MaxRevision = 3
    MaxTime = 2
    Catalog = catalog
    m1 = m1
    m2 = m2
    f1 = f1
    f2 = f2
    Feeds = {f1, f2}
    MaxSources = 3
    MaxModels = 3
    Matching <- MCMatching
    TextOf <- MCTextOf
    Malformed = Malformed
    Responses <- MCResponses
    Benchmarks <- MCBenchmarks
    Writers = {v1, v2, v3}
    Overwrite = {v3}
    Files = {file}
    Links = {link}
    Folders = {folder}
    Absent = Absent
    Requests <- MCRequests
    Answers <- MCAnswers
    Timeout = 2
    ByteLimit = 2
    TotalLimit = 3
    Documents <- MCDocuments
    Readers = {"values", "balanced", "lines", "events", "quality", "rows", "plain", "report", "open"}
    MaxDepth = 2
    MaxTokens = 7
    MaxEvents = 12
    MaxNodes = 6
    MaxText = 2
    MaxDigits = 2
    Recursion = 3
    LongInteger = 3
    Boards <- MCBoards
    PriceLists <- MCPriceLists
    Acquisitions <- MCAcquisitions
    Bindings <- MCBindings
    MaxHour = 2
    MaxProjections = 2
    Sessions <- MCSessions
    Places = {"in", "out", "lock"}
    Before = Before
SPECIFICATION Spec
CHECK_DEADLOCK FALSE
SYMMETRY NameSymmetry
INVARIANTS
    ResultsAreOrderFree
    NothingIsAddedOrLost
    OnlyReviewedEvidence
    OnlyCurrentEvidence
    PrivateFilesAreWhole
PROPERTIES
    NothingIsClobbered
    CatalogIsOfCurrent
