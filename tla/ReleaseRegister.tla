--------------------------- MODULE ReleaseRegister ---------------------------
(***************************************************************************)
(* What publication promises its clients (services/OPERATIONS.md): a       *)
(* register of releases whose signed listing is replaced in one step.      *)
(* Each replacement lists exactly the releases that are live or intended   *)
(* at that instant, under a newer epoch; a release becomes live only when  *)
(* it is listed, and is gone only when it is not.                          *)
(***************************************************************************)
EXTENDS Naturals

CONSTANT Arts

VARIABLES
    phase,    \* of each release
    listed,   \* releases the current metadata names
    epoch     \* version of that metadata

vars == <<phase, listed, epoch>>

Init ==
    /\ phase \in [Arts -> {"undecided", "live"}]
    /\ listed = {a \in Arts : phase[a] = "live"}
    /\ epoch = 1

Move(a, from, to) ==
    /\ phase[a] = from
    /\ phase' = [phase EXCEPT ![a] = to]
    /\ UNCHANGED <<listed, epoch>>

Refuse(a) == Move(a, "undecided", "refused")
Intend(a) == Move(a, "undecided", "intended")
Retire(a) == Move(a, "live", "retiring")
GoLive(a) == a \in listed /\ Move(a, "intended", "live")
Vanish(a) == a \notin listed /\ Move(a, "retiring", "gone")

Switch ==
    /\ listed' = {a \in Arts : phase[a] \in {"live", "intended"}}
    /\ epoch' \in Nat /\ epoch' > epoch
    /\ UNCHANGED phase

Next ==
    \/ \E a \in Arts : Refuse(a) \/ Intend(a) \/ Retire(a) \/ GoLive(a) \/ Vanish(a)
    \/ Switch

Spec == Init /\ [][Next]_vars
=============================================================================
