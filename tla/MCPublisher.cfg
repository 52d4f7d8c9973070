CONSTANTS
    f1 = f1
    s1 = s1
    e2 = e2
    r1 = r1
    rival = w2
    Frontiers = {f1}
    Selections = {s1}
    FrontierOf <- MCFrontierOf
    Evidence = {e1, e2}
    Redistributable = {e1}
    Rules = {r1}
    NoRule = NoRule
    MaxTime = 2
    MaxHistory = 2
    Writers = {w1, w2}
    NoWriter = NoWriter
    NoFile = NoFile
    NoRequest = NoRequest
    MaxFailures = 1
SPECIFICATION MCSpec
INVARIANTS
    TypeOK
    NoDanglingManifest
    AliasNamesStored
    RetryAccepted
    HistoryIsChain
    PublicChainIsLicensed
PROPERTIES
    CommitLeavesCoherentAliases
    PublicCommitExposesOnlyItsChain
    RerunIsIdempotentBelowLimit
    ImplementsPublication
