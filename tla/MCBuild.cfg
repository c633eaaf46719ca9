CONSTANTS
    Commands = {c1, c2}
    Tools = {t1}
    Channels = {stable}
    Bytes = {b1, b2}
    MixedCase = {}
    MaxRuns = 2
    MaxEdits = 2
    MaxKills = 1
    Interleave = FALSE
    Backend = "fs"
    NoFile = NoFile
    BaseWorkflows <- MCWorkflows
    MaxChanges = 2
    Generators = {g1, g2}
    Tree <- MCTree
    MaxMeddling = 1
    MaxPublic = 2
    NoObject = NoObject
    s1 = s1
    s2 = s2
    l1 = l1
    TrpSources <- MCTrp
    LegacySources = {l1}
    NoSource = NoSource
    Versions = {1, 2}
    Malformed <- MCMalformed
    MaxClicks = 3
    MaxCalls = 2
    GateStages <- MCStages
    Trees = {1, 2, 3}
    DirtyTrees = {3}
    MaxGateRuns = 3
    MaxGateKills = 2
    ReadinessFacts <- MCFacts
    MaxHeadMoves = 2
    ReleaseCases <- MCCases
    NoEvidence = NoEvidence
    SizeBuilds <- MCBuilds
    NativeSizes <- MCNative
    SizeBudgets <- MCBudgets
    MaxBuilds = 2
    MaxMeasured = 3
    Unmeasured = Unmeasured
    Locks <- MCLocks
    RuntimeFacts <- MCLocks
    PackBytes = {1, 2}
    PlanExpiries = {1, 2}
    MaxValidity = 1
    MaxClock = 1
    MaxPackRuns = 4
    MaxPackEdits = 2
    NoPackFile = NoPackFile
    RootCount = 2
    MaxTrustKeys = 6
    MaxTrustCommands = 4
    MaxTrustKills = 1
    NoTrustRoot = NoTrustRoot
    NoUpdate = NoUpdate
    PathFacts <- MCPathFacts
    SourceTrees <- MCSourceTrees
    Edits <- MCEdits
    MaxSourceMoves = 2
    MaxPublicBytes = 2
    MaxPublicFiles = 9
    MaxPublicTotal = 9
    MaxZipEntries = 2
    MaxZipEntryBytes = 2
    MaxZipBytes = 2
    Gone = Gone
    Link = Link
    Broken = Broken
SPECIFICATION BuildSpec
INVARIANTS   ArtifactsBound
PROPERTIES  PublicSourceSafe 
CHECK_DEADLOCK FALSE
