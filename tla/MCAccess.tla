------------------------------ MODULE MCAccess ------------------------------
(***************************************************************************)
(* The three ways into a gallery, checked side by side: they share no       *)
(* state, so every behaviour is one of a single component while the other   *)
(* two rest.                                                                *)
(***************************************************************************)
EXTENDS GalleryDoor, MagicLinks, PinGate, TLC

CONSTANTS e1, e2, v1, v2, v3, q1, q2, c1, c2

VARIABLE part   \* the component at work, chosen once

AccessInit ==
    /\ part \in {"door", "links", "gate"}
    /\ DoorInit /\ LinkInit /\ GateInit

AccessNext ==
    /\ UNCHANGED part
    /\ \/ part = "door" /\ DoorNext /\ UNCHANGED <<linkVars, gateVars>>
       \/ part = "links" /\ LinkNext /\ UNCHANGED <<doorVars, gateVars>>
       \/ part = "gate" /\ GateNext /\ UNCHANGED <<doorVars, linkVars>>

AccessSpec == AccessInit /\ [][AccessNext]_<<doorVars, linkVars, gateVars, part>>

Symmetry == Permutations(Editor)

AccessTypeOK == DoorTypeOK /\ LinkTypeOK /\ GateTypeOK
=============================================================================
