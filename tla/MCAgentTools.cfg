CONSTANTS
    MaxSteps = 2
    MaxOps = 3
    MaxDocs = 2
    MaxCloses = 2
    Acquisitions = {a1, a2}
    Guards = {r1, r2}
    Drivers = {r2, r3}
    MaxFailures = 1
    Cases <- MCCases
    NameOrder <- MCOrder
    ReservedNames <- MCReserved
    ForbiddenFields = {"path"}
    PipelineActions <- MCPipeline
    PipelineSteps = 2
    ExpandedBytes = 2
    PipelineBytes = 6
    ArchiveEntries = 4
    EntryBytes = 2
    ArchiveBytes = 5
    Starts <- MCStarts
    Replacements <- MCReplacements
    BuiltinEntries <- MCBuiltins
    SurfaceRequests <- MCRequests
    MaxReplaced = 1
    HostCalls = {h1, h2}
    HostPlans <- MCHostPlans
    h1 = h1
    h2 = h2
    Targets = {"t1"}
    Pids = {1, 2}
    MaxListed = 1
    MaxHostEvents = 2
    Nobody = Nobody
SPECIFICATION AgentToolsSpec
INVARIANTS SessionInv LeaseInv  ActionSurfaceSafe
PROPERTIES NoLateCommit SessionsEnd NoClaimAfterClose  
CHECK_DEADLOCK FALSE
