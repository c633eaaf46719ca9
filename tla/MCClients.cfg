CONSTANTS
    RunJobs <- MCJobs
    MaxIntermediate = 8
    MaxSteps = 3
    OfficeCases <- MCOfficeCases
    Builders = {b1, b2}
    DependencySets <- MCDependencySets
    MaxSourceEdits = 1
    MaxBuildKills = 1
    Absent = Absent
    Installs <- MCInstalls
    Broken = Broken
    Orders <- MCOrders
    Hosts <- MCHosts
    HostPlatform <- MCHostPlatform
    MaxInstallChanges = 2
    SetCases <- MCSetCases
SPECIFICATION ClientSpec
INVARIANTS OfficeTablesAgree AgentKitSafe
PROPERTIES ActionRunSafe AgentVerifySafe
CHECK_DEADLOCK FALSE
