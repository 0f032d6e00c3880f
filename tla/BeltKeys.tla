------------------------------- MODULE BeltKeys ------------------------------
(***************************************************************************)
(* What the keys of the WalkingPad pages promise (pages/views.rs of        *)
(* streamdeck-core), beside what a press of them does (prepare, in         *)
(* WalkingPadState).  The two are written twice in the code: a key decides *)
(* by itself whether it is drawn as ready or as disabled.                  *)
(*                                                                         *)
(* A view is its KeyStatus; colours, labels and footers are left out, but  *)
(* for the ones a status stands for.                                       *)
(***************************************************************************)
EXTENDS WalkingPad

PendingIs(s, r) == s.pending # None /\ s.pending.request = r

Moving(s) == s.status # None /\ IsMoving(s.status.telemetry)
Stopped(s) == s.status # None /\ ~IsMoving(s.status.telemetry)

\* walkingpad_feedback, and request_for with the last telemetry, if any.
FeedbackFor(s, c) == s.feedback = c

TargetOf(s, c) ==
    IF s.status = None THEN None
    ELSE RequestFor(c, ControlSpeed(s.status.telemetry))

-----------------------------------------------------------------------------
walkingpad_start(s) ==
    IF FeedbackFor(s, StartCommand) THEN "Error"
    ELSE IF PendingIs(s, StartRequest) THEN "Selected"
    ELSE IF HasFreshStatus(s) /\ Stopped(s) /\ s.pending = None
    THEN "Ok" ELSE "Disabled"

\* Mutant: a belt that was last seen at rest needs no Stop, however long ago.
Faulty_walkingpad_stop(s) ==
    IF FeedbackFor(s, StopCommand) THEN "Error"
    ELSE IF PendingIs(s, StopRequest) THEN "Alert"
    ELSE IF \/ s.connection = "Faulted"
            \/ s.connection = "Connected" /\ (s.pending # None \/ Moving(s))
    THEN "Ok" ELSE "Disabled"

walkingpad_stop(s) ==
    IF FeedbackFor(s, StopCommand) THEN "Error"
    ELSE IF PendingIs(s, StopRequest) THEN "Alert"
    ELSE IF \/ s.connection = "Faulted"
            \/ /\ s.connection = "Connected"
               /\ s.pending # None \/ ~HasFreshStatus(s) \/ Moving(s)
    THEN "Ok" ELSE "Disabled"

walkingpad_speed_adjust(s, c) ==
    IF FeedbackFor(s, c) THEN "Error"
    ELSE IF HasFreshStatus(s) /\ s.pending = None /\ TargetOf(s, c) # None
    THEN "Ok" ELSE "Disabled"

walkingpad_speed_choice(s, c) ==
    LET pending == PendingIs(s, SetSpeedRequest(c.tenths))
        selected == s.status # None /\ ControlSpeed(s.status.telemetry) = c.tenths
    IN  IF FeedbackFor(s, c) THEN "Error"
        ELSE IF pending THEN "Alert"
        ELSE IF selected THEN "Selected"
        ELSE IF HasFreshStatus(s) /\ Moving(s) /\ s.pending = None
        THEN "Ok" ELSE "Disabled"

\* The commands that keys of the built-in pages stand for.
KeyCommands ==
    {StartCommand, StopCommand, IncreaseCommand, DecreaseCommand}
        \cup {SetSpeedCommand(n) : n \in Speeds}

KeyStatus(s, c) ==
    CASE c.op = "Start" -> walkingpad_start(s)
      [] c.op = "Stop" -> walkingpad_stop(s)
      [] c.op \in {"Increase", "Decrease"} -> walkingpad_speed_adjust(s, c)
      [] c.op = "SetSpeed" -> walkingpad_speed_choice(s, c)

\* The connection key; READY is its Ok, WALKING and STARTING its Selected.
walkingpad_connection_label(s) ==
    CASE s.connection \in {"Locked", "Faulted"} -> "Error"
      [] s.connection = "Connecting" -> "Loading"
      [] s.connection = "Disconnected" -> "Disabled"
      [] s.connection = "Connected" ->
            IF ~HasFreshStatus(s) THEN "Stale"
            ELSE IF Moving(s) THEN "Selected" ELSE "Ok"

walkingpad_connection(s) ==
    CASE PendingIs(s, StartRequest) -> "Selected"
      [] PendingIs(s, StopRequest) -> "Alert"
      [] OTHER -> walkingpad_connection_label(s)

-----------------------------------------------------------------------------
\* Whether a press of the key sends its request (PressAccepted).
Sends(s, c) == Requested(s, c) # None /\ ~NothingToStop(s, c)

\* The keys tell the truth: one that is drawn as ready sends its request when it
\* is pressed, one that is drawn as disabled would send nothing, READY is only
\* shown when the belt can be started and WALKING when it can be stopped.  Above
\* all, no state of the connection draws the Stop key as disabled while a Stop
\* could be sent.
KeysTellTheTruth ==
    /\ \A c \in KeyCommands :
        /\ KeyStatus(deck, c) = "Ok" => Sends(deck, c)
        /\ KeyStatus(deck, c) = "Disabled" => ~Sends(deck, c)
    /\ walkingpad_connection(deck) = "Ok" /\ deck.pending = None =>
            walkingpad_start(deck) \in {"Ok", "Error"}
    /\ walkingpad_connection(deck) = "Selected" /\ deck.pending = None =>
            walkingpad_stop(deck) \in {"Ok", "Error"}

=============================================================================
