----------------------------- MODULE MCBilling -----------------------------
(* Instances of Billing for TLC: see the .cfg files. *)
EXTENDS Billing, TLC

CONSTANTS p1, p2, e1, e2, e3, e4, s1, s2

TwoProcs == {p1, p2}
FourEvents == {e1, e2, e3, e4}
TwoSubs == {s1, s2}
\* Three events of one subscription, two of them at the same time, and one of another.
SubOfEvent == [e \in FourEvents |-> IF e = e4 THEN s2 ELSE s1]
Times == [e \in FourEvents |-> IF e = e1 THEN 1 ELSE 2]
Statuses == [e \in FourEvents |-> IF e \in {e1, e4} THEN "active" ELSE "canceled"]
ProcSymmetry == Permutations(TwoProcs)
=============================================================================
