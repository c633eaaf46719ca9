SPECIFICATION Spec
CONSTANTS
    p1 = p1
    p2 = p2
    e1 = e1
    e2 = e2
    e3 = e3
    e4 = e4
    s1 = s1
    s2 = s2
    Procs <- TwoProcs
    Events <- FourEvents
    Subs <- TwoSubs
    SubOf <- SubOfEvent
    At <- Times
    StatusOf <- Statuses
    None = None
    MaxDeliveries = 3
    MaxFaults = 1
SYMMETRY ProcSymmetry
INVARIANTS AckedMeansApplied
