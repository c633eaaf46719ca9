SPECIFICATION Spec
CONSTANTS
    p1 = p1
    p2 = p2
    a1 = a1
    a2 = a2
    Procs <- TwoProcs
    Arts <- TwoArts
    Failing <- NoArts
    Native <- OneArt
    Legacy <- NoArts
    AutoApprove = TRUE
    Foreign <- TakenVersion
    Stray = Stray
    Candidates <- Clock
    MaxAttempts = 2
    None = None
    LeaseMayDrop = FALSE
    MaxOps = 5
    MaxCrashes = 1
    MaxFaults = 1
SYMMETRY Symmetry
INVARIANTS MetadataMatchesStatus UndecidedKeepsUpload IInv
PROPERTIES TimestampAdvances ImplementsRegister
