--------------------------- MODULE WalkingPadTypes ---------------------------
(***************************************************************************)
(* The vocabulary that the deck and the WalkingPad controller task share:  *)
(* telemetry, and the requests that cross the command channels             *)
(* (crates/streamdeck-core/src/integrations/walkingpad.rs).                *)
(*                                                                         *)
(* A controller mode and a belt_state byte are told apart only by          *)
(* is_standby, so a telemetry record keeps that verdict alone.  The motion *)
(* counters are compared for equality only: they are abstract values.      *)
(***************************************************************************)
EXTENDS Integers

CONSTANTS
    None,        \* the absent value of an Option
    MinSpeed,    \* MIN_SPEED_TENTHS
    MaxSpeed,    \* MAX_SPEED_TENTHS
    StaleAfter   \* STATUS_STALE_AFTER_MS, in ticks

ASSUME TypesAssumption ==
    /\ MinSpeed \in Nat \ {0}
    /\ MaxSpeed \in Nat
    /\ MinSpeed <= MaxSpeed
    /\ StaleAfter \in Nat

-----------------------------------------------------------------------------
Speeds == MinSpeed..MaxSpeed

\* speed_tenths() clamps both readings to 0..MaxSpeed before they get here.
Telemetry == [speed : 0..MaxSpeed, target : 0..MaxSpeed, standby : BOOLEAN]

IsMoving(t) == t.speed > 0

IsStandby(t) == t.standby

\* The speed an adjustment starts from: the target while the belt obeys one.
ControlSpeed(t) ==
    IF IsMoving(t) /\ t.target \in Speeds THEN t.target ELSE t.speed

\* A status as its reader keeps it; the age stops growing once it is stale.
AgedTelemetry == [telemetry : Telemetry, age : 0..(StaleAfter + 1)]

-----------------------------------------------------------------------------
StartRequest == [op |-> "Start", tenths |-> 0]
StopRequest == [op |-> "Stop", tenths |-> 0]
SetSpeedRequest(n) == [op |-> "SetSpeed", tenths |-> n]

\* What travels on the normal channel; Stop travels on the urgent one.
MotionRequest == {StartRequest} \cup {SetSpeedRequest(n) : n \in Speeds}

Request == MotionRequest \cup {StopRequest}

\* None is a value of its own.
ASSUME NoneAssumption ==
    /\ None \notin Request
    /\ None \notin AgedTelemetry
    /\ None \notin Int

Connections ==
    {"Disconnected", "Connecting", "Connected", "Faulted", "Locked"}

=============================================================================
