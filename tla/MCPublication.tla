--------------------------- MODULE MCPublication ---------------------------
(* Instances of Publication for TLC: see the .cfg files. *)
EXTENDS Publication, TLC

CONSTANTS p1, p2, a1, a2

TwoProcs == {p1, p2}
TwoArts == {a1, a2}
OneArt == {a1}
NoArts == {}
NoVersions == {}
TakenVersion == {2}
Clock == {1, 3}
SlowClock == {1}
Symmetry == Permutations(TwoProcs)
=============================================================================
