-------------------------- MODULE MCUploadPipeline --------------------------
(* Instances of UploadPipeline for TLC: see the .cfg files. *)
EXTENDS UploadPipeline, TLC

CONSTANTS p1, p2, s1, s2, r1, r2, i1, i2, c1, c2, c3

TwoProcs == {p1, p2}
OneSession == {s1}
TwoSessions == {s1, s2}
OneArt == {r1}
TwoArts == {r1, r2}
OneId == {i1}
TwoIds == {i1, i2}
TwoContents == {c1, c2}
AllContents == {c1, c2, c3}
SecondSession == {s2}
ProcSymmetry == Permutations(TwoProcs)
Symmetry == Permutations(TwoProcs) \cup Permutations(TwoArts) \cup Permutations(TwoIds)
=============================================================================
