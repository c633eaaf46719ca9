SPECIFICATION FairSpec
CONSTANTS
    p1 = p1
    p2 = p2
    a1 = a1
    a2 = a2
    Procs <- TwoProcs
    Arts <- TwoArts
    Failing <- NoArts
    Native <- OneArt
    Legacy <- NoArts
    AutoApprove = TRUE
    Foreign <- NoVersions
    Stray = Stray
    Candidates <- SlowClock
    MaxAttempts = 2
    None = None
    LeaseMayDrop = FALSE
    MaxOps = 3
    MaxCrashes = 2
    MaxFaults = 0
PROPERTIES IntentsComplete BootsEventually
