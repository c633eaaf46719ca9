SPECIFICATION Spec
CONSTANTS
    p1 = p1
    p2 = p2
    a1 = a1
    a2 = a2
    Procs <- TwoProcs
    Arts <- TwoArts
    Failing <- OneArt
    Native <- NoArts
    Legacy <- NoArts
    AutoApprove = TRUE
    Foreign <- TakenVersion
    Stray = Stray
    Candidates <- Clock
    MaxAttempts = 2
    None = None
    LeaseMayDrop = TRUE
    MaxOps = 4
    MaxCrashes = 1
    MaxFaults = 0
SYMMETRY Symmetry
INVARIANTS ConsistentSnapshot ListedIsServable 
