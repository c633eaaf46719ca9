SPECIFICATION Spec
CONSTANTS
    p1 = p1
    p2 = p2
    s1 = s1
    s2 = s2
    r1 = r1
    r2 = r2
    i1 = i1
    i2 = i2
    c1 = c1
    c2 = c2
    c3 = c3
    Procs <- TwoProcs
    Sessions <- TwoSessions
    Arts <- TwoArts
    Ids <- TwoIds
    Contents <- AllContents
    Sound <- TwoContents
    Overlap <- SecondSession
    None = None
    MaxOps = 6
    MaxCrashes = 1
    MaxFaults = 1
SYMMETRY Symmetry
INVARIANTS  PublishedAsDeclared 
PROPERTIES SessionsSettle
