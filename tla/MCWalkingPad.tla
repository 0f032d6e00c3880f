---------------------------- MODULE MCWalkingPad -----------------------------
(* Instances of WalkingPad for TLC. *)
EXTENDS BeltKeys

MCStopped == [speed |-> 0, target |-> 0, standby |-> FALSE]
MCSlow == [speed |-> 1, target |-> 1, standby |-> FALSE]

MCSamples == {MCStopped, MCSlow}
MCCommands == {StartCommand, StopCommand, IncreaseCommand}

=============================================================================
