-------------------------- MODULE WalkingPadService --------------------------
(***************************************************************************)
(* The WalkingPad controller task of                                       *)
(* crates/streamdeckd/src/services/walkingpad.rs: run() and the functions  *)
(* it awaits.  The runtime feeds two channels, urgent (Stop, Shutdown) and *)
(* normal (motion requests), and reads the updates the task publishes.     *)
(*                                                                         *)
(* phase says at which await the task is suspended; an action is the code  *)
(* from one await to the next.  Every select! is biased: urgent before     *)
(* normal before the operation it races, which is what the guards          *)
(* UrgentIdle and Idle say.  The belt and the BLE stack are external: an   *)
(* operation in flight may end well or badly, a poll may report any sample.*)
(* Time is counted in ticks, and every clock is an age or a time to go.    *)
(*                                                                         *)
(* A definition named Faulty... is a mutant: the code with a possible bug. *)
(* No part of the specification uses one; each shows that a property has   *)
(* something to say about the definition that follows it.                  *)
(***************************************************************************)
EXTENDS MotionWatchdog, Sequences

CONSTANTS
    Samples,        \* the telemetry a poll may report
    PollInterval,   \* POLL_INTERVAL, in ticks
    RetryBase,      \* RECONNECT_BASE_MS, in ticks
    RetryMax,       \* RECONNECT_MAX_MS, in ticks
    MaxFailures,    \* the failure count at which the delay has reached RetryMax
    MaxEvents,      \* bound: updates published and not yet read by the runtime
    MaxStops,       \* bound: Stops sent
    MaxMotions      \* bound: motion requests sent

ASSUME ServiceAssumption ==
    /\ Samples \subseteq Telemetry
    /\ PollInterval \in Nat \ {0}
    /\ RetryBase \in Nat \ {0}
    /\ RetryMax \in Nat
    /\ RetryBase <= RetryMax
    /\ MaxFailures \in Nat \ {0}
    /\ MaxEvents \in Nat \ {0, 1}
    /\ MaxStops \in Nat
    /\ MaxMotions \in Nat

VARIABLES
    urgent,       \* UrgentRequest channel
    normal,       \* WalkingPadRequest channel
    events,       \* updates on their way to the runtime
    phase,        \* where the task is suspended
    haveLock,     \* RealBackend.lock is held
    lastStatus,   \* run_connected: the newest status of this connection
    watchdog,     \* run_connected: motion_watchdog
    motionFault,  \* run_connected: motion_fault is Some
    pollIn,       \* run_connected: time to next_poll
    inHand,       \* the motion request being executed
    waking,       \* its wake from standby has not ended yet
    fromPoll,     \* the request in progress was taken while polling
    failures,     \* Backoff.failures
    retryIn,      \* what is left of the reconnect delay
    exiting,      \* the exit of run_connected is Shutdown
    ledger,       \* auxiliary: how many requests were sent, answered, preempted
    older,        \* auxiliary: how many requests in normal the last Stop overtook
    frozenAt      \* auxiliary: the counters of the last fault, until they are
                  \* seen to advance or the belt is seen to stand

channelVars == <<urgent, normal, older>>
connectionVars == <<lastStatus, watchdog, motionFault, pollIn>>
commandVars == <<inHand, waking, fromPoll>>
retryVars == <<failures, retryIn>>

auxVars == <<ledger, frozenAt>>

serviceVars == << urgent, normal, events, phase, haveLock, lastStatus, watchdog,
                  motionFault, pollIn, inHand, waking, fromPoll, failures,
                  retryIn, exiting, ledger, older, frozenAt >>

-----------------------------------------------------------------------------
(* Backoff (crates/streamdeck-core/src/deadline.rs), which the refreshes    *)
(* and the device supervisor use too.                                      *)

\* The delay after the n-th failure in a row: base * 2^(n-1), at most max.
\* (fail() limits the shift to 16; every use in the daemon reaches max first.)
DelayAfter(base, max, n) ==
    LET delay == base * 2^(n - 1) IN
    IF n = 0 THEN 0 ELSE IF delay \in 0..max THEN delay ELSE max

\* The failure count after one more failure.  The count only matters through
\* the delay, which is constant once it has reached the cap: it stops there.
OneMore(n, limit) == IF n < limit THEN n + 1 ELSE limit

-----------------------------------------------------------------------------
(* The updates the task publishes.                                          *)

Connection(c) == [type |-> "Connection", state |-> c]
Status(t) == [type |-> "Status", telemetry |-> t, age |-> 0]
Succeeded(r) == [type |-> "Succeeded", request |-> r]
Failed(r) == [type |-> "Failed", request |-> r]

Publish(updates) ==
    /\ Len(events) + Len(updates) <= MaxEvents
    /\ events' = events \o updates

-----------------------------------------------------------------------------
(* The auxiliary ledger: per channel, requests sent, answered by a          *)
(* Succeeded or a Failed, and (motion requests) preempted by urgent work.   *)

NewLedger == [sentStops |-> 0, answeredStops |-> 0,
              sentMotions |-> 0, answeredMotions |-> 0, preempted |-> 0]

AnswerStop ==
    /\ ledger' = [ledger EXCEPT !.answeredStops = @ + 1]
    /\ UNCHANGED frozenAt

AnswerMotion ==
    /\ ledger' = [ledger EXCEPT !.answeredMotions = @ + 1]
    /\ UNCHANGED frozenAt

PreemptMotion ==
    /\ ledger' = [ledger EXCEPT !.preempted = @ + 1]
    /\ UNCHANGED frozenAt

-----------------------------------------------------------------------------
(* Channels.                                                                *)

UrgentIdle == urgent = <<>>
Idle == urgent = <<>> /\ normal = <<>>

TakeUrgent(kind) ==
    /\ urgent # <<>>
    /\ Head(urgent) = kind
    /\ urgent' = Tail(urgent)
    /\ UNCHANGED << normal, older >>

TakeNormal ==
    /\ UrgentIdle
    /\ normal # <<>>
    /\ normal' = Tail(normal)
    /\ older' = IF older > 0 THEN older - 1 ELSE 0
    /\ UNCHANGED urgent

ShuttingDown == \E i \in 1..Len(urgent) : urgent[i] = "Shutdown"

\* WalkingPadController::send; the runtime no longer runs once main has asked
\* the service to shut down.
Send(r) ==
    /\ phase # "stopped" /\ ~exiting /\ ~ShuttingDown
    /\ IF r = StopRequest
       THEN /\ ledger.sentStops < MaxStops
            /\ urgent' = Append(urgent, "Stop")
            /\ older' = Len(normal)
            /\ ledger' = [ledger EXCEPT !.sentStops = @ + 1]
            /\ UNCHANGED normal
       ELSE /\ ledger.sentMotions < MaxMotions
            /\ normal' = Append(normal, r)
            /\ ledger' = [ledger EXCEPT !.sentMotions = @ + 1]
            /\ UNCHANGED << urgent, older >>
    /\ UNCHANGED << events, phase, haveLock, exiting, frozenAt >>
    /\ UNCHANGED << connectionVars, commandVars, retryVars >>

-----------------------------------------------------------------------------
(* connect_preemptible: any request interrupts the attempt, is refused, and  *)
(* run() goes round its loop, which announces Connecting again.             *)

\* RealBackend::acquire_lock: kept for good, even if the attempt is dropped.
AcquireLock ==
    /\ phase = "connecting" /\ Idle /\ ~haveLock
    /\ haveLock' = TRUE
    /\ UNCHANGED << channelVars, events, phase, exiting, auxVars >>
    /\ UNCHANGED << connectionVars, commandVars, retryVars >>

\* Mutant: the attempt is dropped for a Stop that nobody hears of again.
FaultyConnectRefusesStop ==
    /\ phase = "connecting"
    /\ TakeUrgent("Stop")
    /\ Publish(<<Connection("Connecting")>>)
    /\ UNCHANGED << phase, haveLock, exiting, auxVars >>
    /\ UNCHANGED << connectionVars, commandVars, retryVars >>

ConnectRefusesStop ==
    /\ phase = "connecting"
    /\ TakeUrgent("Stop")
    /\ Publish(<<Failed(StopRequest), Connection("Connecting")>>)
    /\ AnswerStop
    /\ UNCHANGED << phase, haveLock, exiting >>
    /\ UNCHANGED << connectionVars, commandVars, retryVars >>

ConnectRefusesMotion ==
    /\ phase = "connecting"
    /\ TakeNormal
    /\ Publish(<<Failed(Head(normal)), Connection("Connecting")>>)
    /\ AnswerMotion
    /\ UNCHANGED << phase, haveLock, exiting >>
    /\ UNCHANGED << connectionVars, commandVars, retryVars >>

\* The locals of run_connected when it starts; nothing outlives its return.
FreshConnection ==
    /\ lastStatus' = None
    /\ watchdog' = NewWatchdog
    /\ motionFault' = FALSE
    /\ pollIn' = 0

ConnectOpens ==
    /\ phase = "connecting" /\ Idle /\ haveLock
    /\ Publish(<<Connection("Connected")>>)
    /\ phase' = "connected"
    /\ failures' = 0
    /\ FreshConnection
    /\ UNCHANGED << channelVars, haveLock, retryIn, exiting, auxVars, commandVars >>

\* Backoff.fail() and the start of wait_disconnected.
StartWaiting ==
    /\ phase' = "waiting"
    /\ failures' = OneMore(failures, MaxFailures)
    /\ retryIn' = DelayAfter(RetryBase, RetryMax, failures')

\* Without the lock the attempt fails on it, or on the device store.
ConnectFails ==
    /\ phase = "connecting" /\ Idle
    /\ \E c \in {"Locked", "Disconnected"} :
          /\ c = "Locked" => ~haveLock
          /\ Publish(<<Connection(c)>>)
    /\ StartWaiting
    /\ UNCHANGED << channelVars, haveLock, exiting, auxVars >>
    /\ UNCHANGED << connectionVars, commandVars >>

-----------------------------------------------------------------------------
(* wait_disconnected.                                                       *)

WaitRefusesStop ==
    /\ phase = "waiting"
    /\ TakeUrgent("Stop")
    /\ Publish(<<Failed(StopRequest)>>)
    /\ AnswerStop
    /\ UNCHANGED << phase, haveLock, exiting >>
    /\ UNCHANGED << connectionVars, commandVars, retryVars >>

WaitRefusesMotion ==
    /\ phase = "waiting"
    /\ TakeNormal
    /\ Publish(<<Failed(Head(normal))>>)
    /\ AnswerMotion
    /\ UNCHANGED << phase, haveLock, exiting >>
    /\ UNCHANGED << connectionVars, commandVars, retryVars >>

Retry ==
    /\ phase = "waiting" /\ Idle /\ retryIn = 0
    /\ Publish(<<Connection("Connecting")>>)
    /\ phase' = "connecting"
    /\ UNCHANGED << channelVars, haveLock, exiting, auxVars >>
    /\ UNCHANGED << connectionVars, commandVars, retryVars >>

\* Mutant: a connection attempt does not listen for Shutdown.
FaultyStopsUnconnected ==
    /\ phase = "waiting"
    /\ TakeUrgent("Shutdown")
    /\ phase' = "stopped"
    /\ UNCHANGED << events, haveLock, exiting, auxVars >>
    /\ UNCHANGED << connectionVars, commandVars, retryVars >>

\* Shutdown while there is no connection: run() returns.
StopsUnconnected ==
    /\ phase \in {"connecting", "waiting"}
    /\ TakeUrgent("Shutdown")
    /\ phase' = "stopped"
    /\ UNCHANGED << events, haveLock, exiting, auxVars >>
    /\ UNCHANGED << connectionVars, commandVars, retryVars >>

-----------------------------------------------------------------------------
(* run_connected and what it awaits.  fromPoll tells which next_poll the    *)
(* loop sets once the request is served: at once, or an interval later.     *)

Serving == phase \in {"connected", "polling"}

NoCommand ==
    /\ inHand' = None
    /\ waking' = FALSE
    /\ fromPoll' = FALSE

BackToLoop(polled) ==
    /\ phase' = "connected"
    /\ pollIn' = IF polled THEN PollInterval ELSE 0

\* The tail of run() after run_connected: the locals are gone and the pad is
\* being disconnected, for at most DISCONNECT_TIMEOUT.
LeaveConnection(shutdown) ==
    /\ phase' = "closing"
    /\ exiting' = shutdown
    /\ FreshConnection
    /\ NoCommand

\* Mutant: a poll does not listen for Stop.
FaultyTakesStop ==
    /\ phase = "connected"
    /\ TakeUrgent("Stop")
    /\ phase' = "stopping"
    /\ fromPoll' = FALSE
    /\ UNCHANGED << events, haveLock, inHand, waking, exiting, auxVars >>
    /\ UNCHANGED << connectionVars, retryVars >>

TakesStop ==
    /\ Serving
    /\ TakeUrgent("Stop")
    /\ phase' = "stopping"
    /\ fromPoll' = (phase = "polling")
    /\ UNCHANGED << events, haveLock, inHand, waking, exiting, auxVars >>
    /\ UNCHANGED << connectionVars, retryVars >>

TakesShutdown ==
    /\ Serving
    /\ TakeUrgent("Shutdown")
    /\ LeaveConnection(TRUE)
    /\ UNCHANGED << events, haveLock, auxVars, retryVars >>

\* Mutant: the fault interlock is left out.
FaultyValid(r) ==
    /\ lastStatus # None
    /\ lastStatus.age <= StaleAfter
    /\ (r = StartRequest) <=> ~IsMoving(lastStatus.telemetry)

\* validate_motion_request.
Valid(r) ==
    /\ ~motionFault
    /\ lastStatus # None
    /\ lastStatus.age <= StaleAfter
    /\ (r = StartRequest) <=> ~IsMoving(lastStatus.telemetry)

\* Mutant: a request that fails validation is dropped in silence.
FaultyRefusesMotion ==
    /\ Serving
    /\ TakeNormal
    /\ ~Valid(Head(normal))
    /\ AnswerMotion
    /\ BackToLoop(phase = "polling")
    /\ UNCHANGED << events, haveLock, exiting, lastStatus, watchdog, motionFault >>
    /\ UNCHANGED << commandVars, retryVars >>

RefusesMotion ==
    /\ Serving
    /\ TakeNormal
    /\ ~Valid(Head(normal))
    /\ Publish(<<Failed(Head(normal))>>)
    /\ AnswerMotion
    /\ BackToLoop(phase = "polling")
    /\ UNCHANGED << haveLock, exiting, lastStatus, watchdog, motionFault >>
    /\ UNCHANGED << commandVars, retryVars >>

\* The write is on the link from here on; Start on a belt in standby wakes it
\* first (execute_normal).
ExecutesMotion ==
    /\ Serving
    /\ TakeNormal
    /\ Valid(Head(normal))
    /\ phase' = "executing"
    /\ inHand' = Head(normal)
    /\ waking' = (Head(normal) = StartRequest /\ IsStandby(lastStatus.telemetry))
    /\ fromPoll' = (phase = "polling")
    /\ UNCHANGED << events, haveLock, exiting, auxVars >>
    /\ UNCHANGED << connectionVars, retryVars >>

Wakes ==
    /\ phase = "executing" /\ UrgentIdle /\ waking
    /\ waking' = FALSE
    /\ UNCHANGED << channelVars, events, phase, haveLock, exiting, auxVars >>
    /\ UNCHANGED << connectionVars, inHand, fromPoll, retryVars >>

MotionSucceeds ==
    /\ phase = "executing" /\ UrgentIdle /\ ~waking
    /\ Publish(<<Succeeded(inHand)>>)
    /\ AnswerMotion
    /\ BackToLoop(fromPoll)
    /\ NoCommand
    /\ UNCHANGED << channelVars, haveLock, exiting, retryVars >>
    /\ UNCHANGED << lastStatus, watchdog, motionFault >>

MotionFails ==
    /\ phase = "executing" /\ UrgentIdle
    /\ Publish(<<Failed(inHand), Connection("Disconnected")>>)
    /\ AnswerMotion
    /\ LeaveConnection(FALSE)
    /\ UNCHANGED << channelVars, haveLock, retryVars >>

\* Urgent work drops the command in flight; the request gets no answer.
StopPreempts ==
    /\ phase = "executing"
    /\ TakeUrgent("Stop")
    /\ phase' = "stopping"
    /\ inHand' = None
    /\ waking' = FALSE
    /\ PreemptMotion
    /\ UNCHANGED << events, haveLock, exiting, fromPoll >>
    /\ UNCHANGED << connectionVars, retryVars >>

ShutdownPreempts ==
    /\ phase = "executing"
    /\ TakeUrgent("Shutdown")
    /\ PreemptMotion
    /\ LeaveConnection(TRUE)
    /\ UNCHANGED << events, haveLock, retryVars >>

\* execute_stop; nothing preempts a halt.
HaltSucceeds ==
    /\ phase = "stopping"
    /\ Publish(<<Succeeded(StopRequest)>>)
    /\ AnswerStop
    /\ BackToLoop(fromPoll)
    /\ NoCommand
    /\ UNCHANGED << channelVars, haveLock, exiting, retryVars >>
    /\ UNCHANGED << lastStatus, watchdog, motionFault >>

HaltFails ==
    /\ phase = "stopping"
    /\ Publish(<<Failed(StopRequest), Connection("Disconnected")>>)
    /\ AnswerStop
    /\ LeaveConnection(FALSE)
    /\ UNCHANGED << channelVars, haveLock, retryVars >>

-----------------------------------------------------------------------------
(* Polling (poll_preemptible and the Status arm of run_connected).          *)

StartsPoll ==
    /\ phase = "connected" /\ Idle /\ pollIn = 0
    /\ phase' = "polling"
    /\ UNCHANGED << channelVars, events, haveLock, exiting, auxVars >>
    /\ UNCHANGED << connectionVars, commandVars, retryVars >>

\* The update that a sample causes besides the Status itself.
Verdict(observation) ==
    CASE observation = "FaultDetected" -> <<Connection("Faulted")>>
      [] observation = "Recovered"     -> <<Connection("Connected")>>
      [] OTHER                         -> <<>>

PollAnswers(t, c) ==
    LET observation == Observation(watchdog, t, c) IN
    /\ phase = "polling" /\ Idle
    /\ Publish(<<Status(t)>> \o Verdict(observation))
    /\ lastStatus' = [telemetry |-> t, age |-> 0]
    /\ watchdog' = AfterSample(watchdog, t, c)
    /\ motionFault' = CASE observation = "FaultDetected" -> TRUE
                        [] observation = "Recovered"     -> FALSE
                        [] OTHER                         -> motionFault
    /\ frozenAt' = IF observation = "FaultDetected" THEN c
                   ELSE IF ~IsMoving(t) \/ c # frozenAt THEN None ELSE frozenAt
    /\ BackToLoop(TRUE)
    /\ UNCHANGED << channelVars, haveLock, exiting, ledger >>
    /\ UNCHANGED << commandVars, retryVars >>

PollFails ==
    /\ phase = "polling" /\ Idle
    /\ Publish(<<Connection("Disconnected")>>)
    /\ LeaveConnection(FALSE)
    /\ UNCHANGED << channelVars, haveLock, auxVars, retryVars >>

\* Mutant: a disconnect that hangs is waited for.
FaultyDisconnects ==
    /\ phase = "closing" /\ exiting
    /\ phase' = "stopped"
    /\ UNCHANGED << channelVars, events, haveLock, exiting, auxVars >>
    /\ UNCHANGED << connectionVars, commandVars, retryVars >>

\* disconnect_bounded has ended, well, badly or by its timeout.
Disconnects ==
    /\ phase = "closing"
    /\ IF exiting
       THEN phase' = "stopped" /\ UNCHANGED retryVars
       ELSE StartWaiting
    /\ UNCHANGED << channelVars, events, haveLock, exiting, auxVars >>
    /\ UNCHANGED << connectionVars, commandVars >>

-----------------------------------------------------------------------------
(* WalkingPadService::shutdown.                                             *)

\* Mutant: Shutdown jumps the queue.
FaultyRequestShutdown ==
    /\ phase # "stopped" /\ ~exiting /\ ~ShuttingDown
    /\ urgent' = <<"Shutdown">> \o urgent
    /\ UNCHANGED << normal, older, events, phase, haveLock, exiting, auxVars >>
    /\ UNCHANGED << connectionVars, commandVars, retryVars >>

RequestShutdown ==
    /\ phase # "stopped" /\ ~exiting /\ ~ShuttingDown
    /\ urgent' = Append(urgent, "Shutdown")
    /\ UNCHANGED << normal, older, events, phase, haveLock, exiting, auxVars >>
    /\ UNCHANGED << connectionVars, commandVars, retryVars >>

\* The grace period is over: the task is dropped at whatever await it is in.
Abort ==
    /\ phase # "stopped" /\ (exiting \/ ShuttingDown)
    /\ phase' = "stopped"
    /\ FreshConnection
    /\ NoCommand
    /\ UNCHANGED << channelVars, events, haveLock, exiting, auxVars, retryVars >>

-----------------------------------------------------------------------------
(* The clock.  Ages stop growing where the code no longer tells them apart. *)

TickService ==
    /\ lastStatus' = IF lastStatus # None /\ lastStatus.age <= StaleAfter
                     THEN [lastStatus EXCEPT !.age = @ + 1] ELSE lastStatus
    /\ watchdog' = Aged(watchdog)
    /\ pollIn' = IF pollIn > 0 THEN pollIn - 1 ELSE 0
    /\ retryIn' = IF retryIn > 0 THEN retryIn - 1 ELSE 0
    /\ UNCHANGED << channelVars, phase, haveLock, motionFault, failures >>
    /\ UNCHANGED << commandVars, exiting, auxVars >>

\* The runtime reads an update.
ReadsEvent ==
    /\ events # <<>>
    /\ events' = Tail(events)
    /\ UNCHANGED << channelVars, phase, haveLock, exiting, auxVars >>
    /\ UNCHANGED << connectionVars, commandVars, retryVars >>

-----------------------------------------------------------------------------
Init ==
    /\ urgent = <<>> /\ normal = <<>>
    /\ events = <<Connection("Connecting")>>
    /\ phase = "connecting"
    /\ haveLock = FALSE
    /\ lastStatus = None /\ watchdog = NewWatchdog
    /\ motionFault = FALSE /\ pollIn = 0
    /\ inHand = None /\ waking = FALSE /\ fromPoll = FALSE
    /\ failures = 0 /\ retryIn = 0
    /\ exiting = FALSE
    /\ ledger = NewLedger /\ older = 0 /\ frozenAt = None

\* What the task does by itself or on a request it has received.
Handles ==
    \/ ConnectRefusesStop \/ ConnectRefusesMotion
    \/ WaitRefusesStop \/ WaitRefusesMotion \/ Retry
    \/ StopsUnconnected
    \/ TakesStop \/ TakesShutdown \/ RefusesMotion \/ ExecutesMotion
    \/ StopPreempts \/ ShutdownPreempts
    \/ StartsPoll

\* How an operation on the pad, which is external, may end.
PadAnswers ==
    \/ AcquireLock \/ ConnectOpens \/ ConnectFails
    \/ Wakes \/ MotionSucceeds \/ MotionFails
    \/ HaltSucceeds \/ HaltFails
    \/ \E t \in Samples, c \in Counters : PollAnswers(t, c)
    \/ PollFails
    \/ Disconnects

ServiceStep == Handles \/ PadAnswers

Next ==
    \/ ServiceStep
    \/ \E r \in Request : Send(r)
    \/ RequestShutdown \/ Abort
    \/ TickService /\ UNCHANGED events
    \/ ReadsEvent

Spec == Init /\ [][Next]_serviceVars

\* The tasks are scheduled and the clock runs.  An operation on the pad ends: a
\* poll, a connect and a disconnect are under timeouts, and the BLE stack is
\* trusted to end a write.  Whether it ends well, and what anyone asks for, is
\* left open.
FairSpec ==
    /\ Spec
    /\ WF_serviceVars(ServiceStep)
    /\ WF_serviceVars(ReadsEvent)
    /\ WF_serviceVars(TickService /\ UNCHANGED events)

-----------------------------------------------------------------------------
(* Properties.                                                              *)

Phases == { "connecting", "waiting", "connected", "polling", "executing",
            "stopping", "closing", "stopped" }

Update ==
    [type : {"Connection"}, state : Connections]
        \cup [type : {"Status"}, telemetry : Telemetry, age : Nat]
        \cup [type : {"Succeeded", "Failed"}, request : Request]

Ledger == [ sentStops : 0..MaxStops, answeredStops : Nat,
            sentMotions : 0..MaxMotions, answeredMotions : Nat, preempted : Nat ]

\* The shape of the task's state: run(), the locals of run_connected, the two
\* channels and the updates published to the runtime.
TypeOK ==
    /\ urgent \in Seq({"Stop", "Shutdown"})
    /\ normal \in Seq(MotionRequest)
    /\ events \in Seq(Update) /\ Len(events) <= MaxEvents
    /\ phase \in Phases
    /\ haveLock \in BOOLEAN
    /\ lastStatus \in AgedTelemetry \cup {None}
    /\ watchdog \in Watchdog
    /\ motionFault \in BOOLEAN
    /\ pollIn \in 0..PollInterval
    /\ inHand \in MotionRequest \cup {None}
    /\ waking \in BOOLEAN
    /\ fromPoll \in BOOLEAN
    /\ failures \in 0..MaxFailures
    /\ retryIn \in 0..RetryMax
    /\ exiting \in BOOLEAN
    /\ ledger \in Ledger
    /\ older \in Nat
    /\ frozenAt \in Counters \cup {None}

\* motion_fault and MotionWatchdog.faulted are set and cleared by different
\* code, over several polls: they say the same, and a fault is only ever in
\* force while the newest sample of the connection has the belt moving on
\* counters that stood still for the whole timeout.
FaultIsCurrent ==
    /\ motionFault = watchdog.faulted
    /\ motionFault => /\ lastStatus # None
                      /\ IsMoving(lastStatus.telemetry)
                      /\ watchdog.frozenFor = MotionTimeout

\* A motion command is on the link only while the watchdog of this connection
\* is healthy and its newest sample calls for the command: Start on a belt that
\* stands, a speed on one that moves, a wake on one in standby
\* (validate_motion_request, with every way to reach execute_normal).
MotionIsJustified ==
    phase = "executing" =>
        /\ ~watchdog.faulted
        /\ lastStatus # None
        /\ inHand = StartRequest <=> ~IsMoving(lastStatus.telemetry)
        /\ waking => IsStandby(lastStatus.telemetry)

StopsQueued == Len(urgent) - (IF ShuttingDown THEN 1 ELSE 0)

\* No Stop gets lost: one that was sent has been answered, is in the channel,
\* or is the halt in progress.
StopsAreAccounted ==
    phase # "stopped" =>
        ledger.sentStops =
            ledger.answeredStops + StopsQueued + (IF phase = "stopping" THEN 1 ELSE 0)

\* No motion request gets lost or is answered twice, over every path of the
\* task: answered, dropped for urgent work, in the channel, or in progress.
MotionsAreAccounted ==
    phase # "stopped" =>
        ledger.sentMotions =
            ledger.answeredMotions + ledger.preempted + Len(normal)
                + (IF phase = "executing" THEN 1 ELSE 0)

\* Every request that was sent is accounted for.
RequestsAreAccounted == StopsAreAccounted /\ MotionsAreAccounted

\* The task does not leave for shutdown before every Stop sent ahead of it has
\* been carried out or reported.
ShutdownComesLast ==
    exiting => /\ urgent = <<>>
               /\ ledger.sentStops = ledger.answeredStops

\* The command lock is held for the rest of the task's life, and holding it the
\* task never blames another process for a failed attempt.
LockIsKept ==
    [][haveLock => /\ haveLock'
                   /\ \A i \in DOMAIN events' :
                         i > Len(events) => events'[i] # Connection("Locked")]_serviceVars

\* The requests refused while waiting do not push the reconnect attempt back.
RetryIsNotPostponed ==
    [][phase = "waiting" /\ phase' = "waiting" => retryIn' <= retryIn]_serviceVars

\* Every Stop that enters the channel leaves it: it is served ahead of motion
\* requests and polls, or refused while there is no connection.
StopsAreServed == urgent # <<>> ~> (urgent = <<>> \/ phase = "stopped")

\* A lost connection is followed by another attempt, whatever was asked for
\* meanwhile.
Reconnects ==
    phase \in {"closing", "waiting"} ~> phase \in {"connecting", "stopped"}

\* The link comes back: the next attempt is made, requests do not put it off, and no
\* attempt that fails or is dropped halfway has lost the lock for it.
LinkComesBack == Reconnects /\ LockIsKept /\ RetryIsNotPostponed

\* Once asked to shut down the task ends, without being aborted.
ShutdownEnds == ShuttingDown ~> phase = "stopped"

\* README.md:226, "normal controls recover only after counters advance or the
\* controller reports a stopped belt": no motion command is on the link while
\* a detected fault has been followed by neither.
ControlsRecoverOnlyAfterProgress == phase = "executing" => frozenAt = None

=============================================================================
