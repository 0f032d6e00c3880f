------------------------- MODULE MCWalkingPadService -------------------------
(* Instances of WalkingPadService for TLC. *)
EXTENDS WalkingPadService

MCStandby == [speed |-> 0, target |-> 0, standby |-> TRUE]
MCMoving == [speed |-> 1, target |-> 1, standby |-> FALSE]

MCSamples == {MCStandby, MCMoving}
=============================================================================
