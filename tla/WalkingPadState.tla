--------------------------- MODULE WalkingPadState ---------------------------
(***************************************************************************)
(* WalkingPadState of                                                      *)
(* crates/streamdeck-core/src/integrations/walkingpad.rs: what the deck    *)
(* knows of the belt, as operators on one record.  It decides which        *)
(* presses become requests and what a request's answers mean.              *)
(*                                                                         *)
(* Wall-clock stamps become relative: a status carries its age, a pending  *)
(* command the time left to its confirmation deadline.  Message texts are  *)
(* left out; a feedback is the command it is shown for.                    *)
(*                                                                         *)
(* A definition named Faulty..., Quiet... or Endless... is a mutant: the   *)
(* code with a plausible bug.  No part of the specification uses one; each *)
(* shows that a property has something to say about the definition that    *)
(* follows it.                                                             *)
(***************************************************************************)
EXTENDS WalkingPadTypes

CONSTANTS
    SpeedStep,      \* SPEED_STEP_TENTHS
    ConfirmWithin,  \* COMMAND_CONFIRMATION_TIMEOUT_MS, in ticks
    MaxLag          \* bound: ticks an update waits for the runtime

ASSUME DeckAssumption ==
    /\ SpeedStep \in Nat \ {0}
    /\ ConfirmWithin \in Nat \ {0}
    /\ MaxLag \in 0..(StaleAfter + 1)

-----------------------------------------------------------------------------
StartCommand == [op |-> "Start", tenths |-> 0]
StopCommand == [op |-> "Stop", tenths |-> 0]
IncreaseCommand == [op |-> "Increase", tenths |-> 0]
DecreaseCommand == [op |-> "Decrease", tenths |-> 0]
SetSpeedCommand(n) == [op |-> "SetSpeed", tenths |-> n]

\* A custom binding may name a speed outside the range: it is refused.
Command ==
    {StartCommand, StopCommand, IncreaseCommand, DecreaseCommand}
        \cup {SetSpeedCommand(n) : n \in 0..(MaxSpeed + 1)}

Pending == [ source   : Command,
             request  : Request,
             awaiting : BOOLEAN,
             dueIn    : (-MaxLag)..ConfirmWithin ]

DeckState == [ connection : Connections,
               status     : AgedTelemetry \cup {None},
               pending    : Pending \cup {None},
               feedback   : Command \cup {None} ]

\* None is a value of its own.
ASSUME DeckNoneAssumption == None \notin Command \cup Pending

NewDeck == [ connection |-> "Disconnected", status |-> None,
             pending |-> None, feedback |-> None ]

-----------------------------------------------------------------------------
(* From a command to a request.                                             *)

AtLeast(n, low) == IF n < low THEN low ELSE n
AtMost(n, high) == IF n > high THEN high ELSE n

\* request_for at the current control speed; None is its Err.
RequestFor(c, speed) ==
    LET moving == AtMost(AtLeast(speed, MinSpeed), MaxSpeed) IN
    CASE c.op = "Stop" -> StopRequest
      [] c.op = "Start" /\ speed = 0 -> StartRequest
      [] c.op = "Increase" /\ speed # 0 /\ moving < MaxSpeed ->
             SetSpeedRequest(AtMost(moving + SpeedStep, MaxSpeed))
      [] c.op = "Decrease" /\ speed # 0 /\ moving > MinSpeed ->
             SetSpeedRequest(AtLeast(moving - SpeedStep, MinSpeed))
      [] c.op = "SetSpeed" /\ speed # 0 /\ c.tenths \in Speeds ->
             SetSpeedRequest(c.tenths)
      [] OTHER -> None

\* command_for_request: whom to blame when nobody waits for the answer.
CommandFor(r) == r

HasFreshStatus(s) ==
    /\ s.connection = "Connected"
    /\ s.status # None
    /\ s.status.age <= StaleAfter

\* The checks at the head of prepare, for anything but Stop and for Stop.
MayAsk(s, c) ==
    IF c = StopCommand
    THEN s.connection \in {"Connected", "Faulted"}
    ELSE /\ s.pending = None
         /\ HasFreshStatus(s)

\* A Stop that has nothing to stop is accepted and sends nothing.
NothingToStop(s, c) ==
    /\ c = StopCommand
    /\ s.pending = None
    /\ HasFreshStatus(s)
    /\ ~IsMoving(s.status.telemetry)

\* The request that prepare returns, or None when it refuses the command.
Requested(s, c) ==
    IF ~MayAsk(s, c) THEN None
    ELSE IF c = StopCommand THEN StopRequest
    ELSE RequestFor(c, ControlSpeed(s.status.telemetry))

AwaitAnswer(s, c, r) ==
    [s EXCEPT !.feedback = None,
              !.pending = [ source |-> c, request |-> r, awaiting |-> FALSE,
                            dueIn |-> ConfirmWithin ]]

Reject(s, c) == [s EXCEPT !.feedback = c]

-----------------------------------------------------------------------------
(* What the task publishes, applied to the deck's state.                    *)

\* Mutant: a fault, unlike a lost connection, leaves the wait in place.
FaultyConnectionChanged(s, connection) ==
    LET told == [s EXCEPT !.connection = connection] IN
    IF connection \in {"Connected", "Faulted"} \/ s.pending = None THEN told
    ELSE Reject([told EXCEPT !.pending = None], s.pending.source)

\* connection_changed: losing the belt ends the wait for an answer.
ConnectionChanged(s, connection) ==
    LET told == [s EXCEPT !.connection = connection] IN
    IF connection = "Connected" \/ s.pending = None THEN told
    ELSE Reject([told EXCEPT !.pending = None], s.pending.source)

CommandSucceeded(s, r) ==
    IF s.pending # None /\ s.pending.request = r
    THEN [s EXCEPT !.pending.awaiting = TRUE] ELSE s

\* command_failed: the pending command is dropped even if it is another one.
CommandFailed(s, r) ==
    Reject([s EXCEPT !.pending = None],
           IF s.pending # None /\ s.pending.request = r
           THEN s.pending.source ELSE CommandFor(r))

Confirms(r, t) ==
    CASE r.op = "Start"    -> t.speed >= MinSpeed
      [] r.op = "Stop"     -> t.speed = 0
      [] r.op = "SetSpeed" -> t.target = r.tenths

\* Mutant: a command whose time is up is dropped without a word.
QuietSettlePending(s, t, age) ==
    IF s.pending = None \/ ~s.pending.awaiting THEN s
    ELSE IF Confirms(s.pending.request, t) \/ s.pending.dueIn + age <= 0
    THEN [s EXCEPT !.pending = None] ELSE s

\* Mutant: a command waits for its confirmation without a deadline.
EndlessSettlePending(s, t, age) ==
    IF s.pending # None /\ s.pending.awaiting /\ Confirms(s.pending.request, t)
    THEN [s EXCEPT !.pending = None] ELSE s

\* apply_status: a status stamped age ticks ago.
SettlePending(s, t, age) ==
    LET p == s.pending IN
    IF p = None \/ ~p.awaiting THEN s
    ELSE IF Confirms(p.request, t) THEN [s EXCEPT !.pending = None]
    ELSE IF p.dueIn + age > 0 THEN s
    ELSE Reject([s EXCEPT !.pending = None], p.source)

\* Mutant: a status is taken as proof that all is well.
FaultyApplyStatus(s, t, age) ==
    [SettlePending(s, t, age) EXCEPT
        !.status = [telemetry |-> t, age |-> age], !.connection = "Connected"]

ApplyStatus(s, t, age) ==
    [SettlePending(s, t, age) EXCEPT
        !.status = [telemetry |-> t, age |-> age],
        !.connection = IF @ = "Faulted" THEN @ ELSE "Connected"]

\* One tick of the wall clock.
AgedDeck(s) ==
    LET status == IF s.status # None /\ s.status.age <= StaleAfter
                  THEN [s.status EXCEPT !.age = @ + 1] ELSE s.status
        pending == IF s.pending # None /\ s.pending.dueIn > -MaxLag
                   THEN [s.pending EXCEPT !.dueIn = @ - 1] ELSE s.pending
    IN  [s EXCEPT !.status = status, !.pending = pending]

=============================================================================
