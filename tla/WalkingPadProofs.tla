----------------------------- MODULE WalkingPadProofs -----------------------------
(***************************************************************************)
(* Proofs about the WalkingPad, for every value of the constants that      *)
(* ServiceAssumption and its companions allow: any number of requests, any *)
(* length of the event queue, any clock.  First the controller task alone, *)
(* whose specification is Spec; then, from "The deck's own operators" on,  *)
(* the deck and the task together, whose specification is System.          *)
(***************************************************************************)
EXTENDS BeltKeys, SequenceTheorems, TLAPS

-----------------------------------------------------------------------------
(* The operators the actions are built from.                               *)

\* Backoff never waits longer than its cap.
LEMMA DelayIsBounded ==
    ASSUME NEW n \in Nat
    PROVE  DelayAfter(RetryBase, RetryMax, n) \in 0..RetryMax
BY ServiceAssumption DEF DelayAfter, ServiceAssumption

LEMMA FailuresAreBounded ==
    ASSUME NEW n \in 0..MaxFailures
    PROVE  OneMore(n, MaxFailures) \in 0..MaxFailures
BY ServiceAssumption DEF OneMore, ServiceAssumption

LEMMA NewWatchdogType == NewWatchdog \in Watchdog
BY WatchdogAssumption DEF Watchdog, NewWatchdog, WatchdogAssumption

\* A status that ages stays within the ages its reader tells apart.
LEMMA AgedTelemetryType ==
    ASSUME NEW s \in AgedTelemetry, s.age <= StaleAfter
    PROVE  [s EXCEPT !.age = s.age + 1] \in AgedTelemetry
<1>1. s.age + 1 \in 0..(StaleAfter + 1)
    BY TypesAssumption DEF AgedTelemetry, TypesAssumption
<1> QED BY <1>1 DEF AgedTelemetry

\* The watchdog stays a watchdog as it ages and whatever a poll reports.
LEMMA WatchdogAgedType ==
    ASSUME NEW w \in Watchdog
    PROVE  Aged(w) \in Watchdog
BY WatchdogAssumption DEF Watchdog, Aged, WatchdogAssumption

LEMMA WatchdogType ==
    ASSUME NEW w \in Watchdog, NEW t, NEW c \in Counters
    PROVE  AfterSample(w, t, c) \in Watchdog
<1>1. Rebased(c) \in Watchdog
    BY WatchdogAssumption DEF Watchdog, Rebased, WatchdogAssumption
<1>2. [w EXCEPT !.faulted = w.faulted \/ w.frozenFor = MotionTimeout] \in Watchdog
    <2>1. (w.faulted \/ w.frozenFor = MotionTimeout) \in BOOLEAN
        OBVIOUS
    <2>2. \A b \in BOOLEAN : [w EXCEPT !.faulted = b] \in Watchdog
        BY DEF Watchdog
    <2> QED BY <2>1, <2>2
<1> QED BY <1>1, <1>2 DEF AfterSample

\* A countdown stays within the interval it started from.
LEMMA CountdownType ==
    ASSUME NEW top \in Nat, NEW n \in 0..top
    PROVE  (IF n > 0 THEN n - 1 ELSE 0) \in 0..top
OBVIOUS

\* The ledger counts one more request only below the bound of its kind.
LEMMA LedgerGrows ==
    ASSUME NEW l \in Ledger
    PROVE  /\ l.sentStops < MaxStops =>
                [l EXCEPT !.sentStops = @ + 1] \in Ledger
           /\ l.sentMotions < MaxMotions =>
                [l EXCEPT !.sentMotions = @ + 1] \in Ledger
<1>1. MaxStops \in Nat /\ MaxMotions \in Nat
    BY ServiceAssumption DEF ServiceAssumption
<1>2. l.sentStops < MaxStops => l.sentStops + 1 \in 0..MaxStops
    BY <1>1 DEF Ledger
<1>3. l.sentMotions < MaxMotions => l.sentMotions + 1 \in 0..MaxMotions
    BY <1>1 DEF Ledger
<1> QED BY <1>2, <1>3 DEF Ledger

\* Publishing well-formed updates keeps the event queue well-formed and within
\* its bound.
LEMMA PublishType ==
    ASSUME events \in Seq(Update), NEW us \in Seq(Update), Publish(us)
    PROVE  events' \in Seq(Update) /\ Len(events') <= MaxEvents
BY ConcatProperties, LenProperties, ServiceAssumption
   DEF Publish, ServiceAssumption

LEMMA UpdateType ==
    /\ \A c \in Connections : Connection(c) \in Update
    /\ \A t \in Telemetry : Status(t) \in Update
    /\ \A r \in Request : Succeeded(r) \in Update /\ Failed(r) \in Update
BY DEF Update, Connection, Status, Succeeded, Failed

LEMMA PairType ==
    ASSUME NEW u \in Update, NEW v \in Update
    PROVE  <<u>> \in Seq(Update) /\ <<u, v>> \in Seq(Update)
OBVIOUS

LEMMA PublishOneType ==
    ASSUME TypeOK, NEW u \in Update, Publish(<<u>>)
    PROVE  events' \in Seq(Update) /\ Len(events') <= MaxEvents
BY PublishType, PairType DEF TypeOK

LEMMA PublishTwoType ==
    ASSUME TypeOK, NEW u \in Update, NEW v \in Update, Publish(<<u, v>>)
    PROVE  events' \in Seq(Update) /\ Len(events') <= MaxEvents
BY PublishType, PairType DEF TypeOK

LEMMA TakeUrgentType ==
    ASSUME TypeOK, NEW kind, TakeUrgent(kind)
    PROVE  /\ urgent' \in Seq({"Stop", "Shutdown"})
           /\ normal' \in Seq(MotionRequest)
           /\ older' \in Nat
BY HeadTailProperties DEF TypeOK, TakeUrgent

LEMMA TakeNormalType ==
    ASSUME TypeOK, TakeNormal
    PROVE  /\ urgent' \in Seq({"Stop", "Shutdown"})
           /\ normal' \in Seq(MotionRequest)
           /\ older' \in Nat
           /\ Head(normal) \in MotionRequest
BY HeadTailProperties DEF TypeOK, TakeNormal

\* The locals of run_connected as it starts.
LEMMA FreshConnectionType ==
    ASSUME FreshConnection
    PROVE  /\ lastStatus' \in AgedTelemetry \cup {None}
           /\ watchdog' \in Watchdog
           /\ motionFault' \in BOOLEAN
           /\ pollIn' \in 0..PollInterval
<1>1. 0 \in 0..PollInterval
    BY ServiceAssumption DEF ServiceAssumption
<1> QED BY <1>1, NewWatchdogType DEF FreshConnection

LEMMA StartWaitingType ==
    ASSUME TypeOK, StartWaiting
    PROVE  /\ phase' \in Phases
           /\ failures' \in 0..MaxFailures
           /\ retryIn' \in 0..RetryMax
<1>1. failures' \in 0..MaxFailures
    BY FailuresAreBounded DEF StartWaiting, TypeOK
<1>2. failures' \in Nat
    BY <1>1, ServiceAssumption DEF ServiceAssumption
<1>3. retryIn' \in 0..RetryMax
    BY <1>2, DelayIsBounded DEF StartWaiting
<1> QED BY <1>1, <1>3 DEF StartWaiting, Phases

LEMMA BackToLoopType ==
    ASSUME NEW polled, BackToLoop(polled)
    PROVE  phase' \in Phases /\ pollIn' \in 0..PollInterval
BY ServiceAssumption DEF BackToLoop, Phases, ServiceAssumption

LEMMA LeaveConnectionType ==
    ASSUME NEW shutdown \in BOOLEAN, LeaveConnection(shutdown)
    PROVE  /\ phase' \in Phases
           /\ exiting' \in BOOLEAN
           /\ lastStatus' \in AgedTelemetry \cup {None}
           /\ watchdog' \in Watchdog
           /\ motionFault' \in BOOLEAN
           /\ pollIn' \in 0..PollInterval
           /\ inHand' \in MotionRequest \cup {None}
           /\ waking' \in BOOLEAN
           /\ fromPoll' \in BOOLEAN
BY FreshConnectionType DEF LeaveConnection, NoCommand, Phases

LEMMA LedgerType ==
    ASSUME TypeOK, AnswerStop \/ AnswerMotion \/ PreemptMotion
    PROVE  ledger' \in Ledger /\ frozenAt' = frozenAt
<1>1. ledger \in Ledger
    BY DEF TypeOK
<1>2. CASE AnswerStop
    BY <1>1, <1>2 DEF Ledger, AnswerStop
<1>3. CASE AnswerMotion
    BY <1>1, <1>3 DEF Ledger, AnswerMotion
<1>4. CASE PreemptMotion
    BY <1>1, <1>4 DEF Ledger, PreemptMotion
<1> QED BY <1>2, <1>3, <1>4

-----------------------------------------------------------------------------
(* Type correctness.                                                       *)

\* What is being executed is a request; with TypeOK this is inductive.
RequestInHand == phase = "executing" => inHand \in MotionRequest

LEMMA TypeInit == Init => TypeOK
<1> SUFFICES ASSUME Init PROVE TypeOK
    OBVIOUS
<1>1. events \in Seq(Update) /\ Len(events) <= MaxEvents
    <2>1. Connection("Connecting") \in Update
        BY UpdateType DEF Connections
    <2>2. <<Connection("Connecting")>> \in Seq(Update)
        BY <2>1, PairType
    <2> QED BY <2>2, ServiceAssumption DEF Init, ServiceAssumption
<1>2. ledger \in Ledger
    BY ServiceAssumption DEF Init, NewLedger, Ledger, ServiceAssumption
<1>3. 0 \in 0..PollInterval /\ 0 \in 0..MaxFailures /\ 0 \in 0..RetryMax /\ 0 \in Nat
    BY ServiceAssumption DEF ServiceAssumption
<1>4. <<>> \in Seq({"Stop", "Shutdown"}) /\ <<>> \in Seq(MotionRequest)
    OBVIOUS
<1> QED
    BY <1>1, <1>2, <1>3, <1>4, NewWatchdogType DEF Init, TypeOK, Phases

LEMMA TypeStep == TypeOK /\ RequestInHand /\ [Next]_serviceVars => TypeOK'
<1> SUFFICES ASSUME TypeOK, RequestInHand, [Next]_serviceVars PROVE TypeOK'
    OBVIOUS
<1>1. CASE AcquireLock
    BY <1>1 DEF AcquireLock, TypeOK, channelVars, connectionVars, commandVars, retryVars, auxVars
<1>2. CASE ConnectRefusesStop
    <2>1. Failed(StopRequest) \in Update /\ Connection("Connecting") \in Update
        BY UpdateType DEF Request, Connections
    <2>2. events' \in Seq(Update) /\ Len(events') <= MaxEvents
        BY <1>2, <2>1, PublishTwoType DEF ConnectRefusesStop
    <2> QED
        BY <1>2, <2>2, TakeUrgentType, LedgerType DEF ConnectRefusesStop, TypeOK, channelVars, connectionVars, commandVars, retryVars, auxVars
<1>3. CASE ConnectRefusesMotion
    <2>1. Failed(Head(normal)) \in Update /\ Connection("Connecting") \in Update
        BY <1>3, TakeNormalType, UpdateType DEF ConnectRefusesMotion, Request, Connections
    <2>2. events' \in Seq(Update) /\ Len(events') <= MaxEvents
        BY <1>3, <2>1, PublishTwoType DEF ConnectRefusesMotion
    <2> QED
        BY <1>3, <2>2, TakeNormalType, LedgerType DEF ConnectRefusesMotion, TypeOK, channelVars, connectionVars, commandVars, retryVars, auxVars
<1>4. CASE ConnectOpens
    <2>1. events' \in Seq(Update) /\ Len(events') <= MaxEvents
        BY <1>4, UpdateType, PublishOneType DEF ConnectOpens, Connections
    <2>2. 0 \in 0..MaxFailures
        BY ServiceAssumption DEF ServiceAssumption
    <2> QED
        BY <1>4, <2>1, <2>2, FreshConnectionType
        DEF ConnectOpens, Phases, TypeOK, channelVars, auxVars, commandVars
<1>5. CASE ConnectFails
    <2>1. Connection("Locked") \in Update /\ Connection("Disconnected") \in Update
        BY UpdateType DEF Connections
    <2>2. events' \in Seq(Update) /\ Len(events') <= MaxEvents
        BY <1>5, <2>1, PublishOneType DEF ConnectFails
    <2> QED
        BY <1>5, <2>2, StartWaitingType DEF ConnectFails, TypeOK, channelVars, connectionVars, commandVars, retryVars, auxVars
<1>6. CASE WaitRefusesStop
    <2>1. Failed(StopRequest) \in Update
        BY UpdateType DEF Request
    <2>2. events' \in Seq(Update) /\ Len(events') <= MaxEvents
        BY <1>6, <2>1, PublishOneType DEF WaitRefusesStop
    <2> QED
        BY <1>6, <2>2, TakeUrgentType, LedgerType DEF WaitRefusesStop, TypeOK, channelVars, connectionVars, commandVars, retryVars, auxVars
<1>7. CASE WaitRefusesMotion
    <2>1. Failed(Head(normal)) \in Update
        BY <1>7, TakeNormalType, UpdateType DEF WaitRefusesMotion, Request
    <2>2. events' \in Seq(Update) /\ Len(events') <= MaxEvents
        BY <1>7, <2>1, PublishOneType DEF WaitRefusesMotion
    <2> QED
        BY <1>7, <2>2, TakeNormalType, LedgerType DEF WaitRefusesMotion, TypeOK, channelVars, connectionVars, commandVars, retryVars, auxVars
<1>8. CASE Retry
    <2>1. Connection("Connecting") \in Update
        BY UpdateType DEF Connections
    <2>2. events' \in Seq(Update) /\ Len(events') <= MaxEvents
        BY <1>8, <2>1, PublishOneType DEF Retry
    <2> QED
        BY <1>8, <2>2 DEF Retry, Phases, TypeOK, channelVars, connectionVars, commandVars, retryVars, auxVars
<1>9. CASE StopsUnconnected
    BY <1>9, TakeUrgentType DEF StopsUnconnected, Phases, TypeOK, channelVars, connectionVars, commandVars, retryVars, auxVars
<1>10. CASE TakesStop
    BY <1>10, TakeUrgentType DEF TakesStop, Phases, TypeOK, channelVars, connectionVars, commandVars, retryVars, auxVars
<1>11. CASE TakesShutdown
    BY <1>11, TakeUrgentType, LeaveConnectionType DEF TakesShutdown, TypeOK, channelVars, connectionVars, commandVars, retryVars, auxVars
<1>12. CASE RefusesMotion
    <2>1. Failed(Head(normal)) \in Update
        BY <1>12, TakeNormalType, UpdateType DEF RefusesMotion, Request
    <2>2. events' \in Seq(Update) /\ Len(events') <= MaxEvents
        BY <1>12, <2>1, PublishOneType DEF RefusesMotion
    <2> QED
        BY <1>12, <2>2, TakeNormalType, LedgerType, BackToLoopType DEF RefusesMotion, TypeOK, channelVars, connectionVars, commandVars, retryVars, auxVars
<1>13. CASE ExecutesMotion
    BY <1>13, TakeNormalType DEF ExecutesMotion, Phases, TypeOK, channelVars, connectionVars, commandVars, retryVars, auxVars
<1>14. CASE Wakes
    BY <1>14 DEF Wakes, TypeOK, channelVars, connectionVars, commandVars, retryVars, auxVars
<1>15. CASE MotionSucceeds
    <2>1. Succeeded(inHand) \in Update
        BY <1>15, UpdateType DEF MotionSucceeds, RequestInHand, Request
    <2>2. events' \in Seq(Update) /\ Len(events') <= MaxEvents
        BY <1>15, <2>1, PublishOneType DEF MotionSucceeds
    <2> QED
        BY <1>15, <2>2, LedgerType, BackToLoopType DEF MotionSucceeds, NoCommand, TypeOK, channelVars, connectionVars, commandVars, retryVars, auxVars
<1>16. CASE MotionFails
    <2>1. Failed(inHand) \in Update /\ Connection("Disconnected") \in Update
        BY <1>16, UpdateType DEF MotionFails, RequestInHand, Request, Connections
    <2>2. events' \in Seq(Update) /\ Len(events') <= MaxEvents
        BY <1>16, <2>1, PublishTwoType DEF MotionFails
    <2> QED
        BY <1>16, <2>2, LedgerType, LeaveConnectionType DEF MotionFails, TypeOK, channelVars, connectionVars, commandVars, retryVars, auxVars
<1>17. CASE StopPreempts
    BY <1>17, TakeUrgentType, LedgerType DEF StopPreempts, Phases, TypeOK, channelVars, connectionVars, commandVars, retryVars, auxVars
<1>18. CASE ShutdownPreempts
    BY <1>18, TakeUrgentType, LedgerType, LeaveConnectionType DEF ShutdownPreempts, TypeOK, channelVars, connectionVars, commandVars, retryVars, auxVars
<1>19. CASE HaltSucceeds
    <2>1. Succeeded(StopRequest) \in Update
        BY UpdateType DEF Request
    <2>2. events' \in Seq(Update) /\ Len(events') <= MaxEvents
        BY <1>19, <2>1, PublishOneType DEF HaltSucceeds
    <2> QED
        BY <1>19, <2>2, LedgerType, BackToLoopType DEF HaltSucceeds, NoCommand, TypeOK, channelVars, connectionVars, commandVars, retryVars, auxVars
<1>20. CASE HaltFails
    <2>1. Failed(StopRequest) \in Update /\ Connection("Disconnected") \in Update
        BY UpdateType DEF Request, Connections
    <2>2. events' \in Seq(Update) /\ Len(events') <= MaxEvents
        BY <1>20, <2>1, PublishTwoType DEF HaltFails
    <2> QED
        BY <1>20, <2>2, LedgerType, LeaveConnectionType DEF HaltFails, TypeOK, channelVars, connectionVars, commandVars, retryVars, auxVars
<1>21. CASE StartsPoll
    BY <1>21 DEF StartsPoll, Phases, TypeOK, channelVars, connectionVars, commandVars, retryVars, auxVars
<1>22. CASE \E t \in Samples, c \in Counters : PollAnswers(t, c)
    <2> SUFFICES ASSUME NEW t \in Samples, NEW c \in Counters, PollAnswers(t, c)
                 PROVE  TypeOK'
        BY <1>22
    <2>1. t \in Telemetry
        BY ServiceAssumption DEF ServiceAssumption
    <2>2. events' \in Seq(Update) /\ Len(events') <= MaxEvents
        <3>1. Verdict(Observation(watchdog, t, c)) \in Seq(Update)
            BY UpdateType, PairType DEF Verdict, Connections
        <3>2. <<Status(t)>> \in Seq(Update)
            BY <2>1, UpdateType, PairType
        <3>3. <<Status(t)>> \o Verdict(Observation(watchdog, t, c)) \in Seq(Update)
            BY <3>1, <3>2, ConcatProperties
        <3> QED BY <3>3, PublishType DEF PollAnswers, TypeOK
    <2>3. lastStatus' \in AgedTelemetry
        BY <2>1, TypesAssumption DEF PollAnswers, AgedTelemetry, TypesAssumption
    <2>4. watchdog' \in Watchdog
        BY WatchdogType DEF PollAnswers, TypeOK
    <2>5. motionFault' \in BOOLEAN
        BY DEF PollAnswers, TypeOK
    <2>6. frozenAt' \in Counters \cup {None}
        BY DEF PollAnswers, TypeOK
    <2>7. phase' \in Phases /\ pollIn' \in 0..PollInterval
        BY BackToLoopType DEF PollAnswers
    <2> QED
        BY <2>2, <2>3, <2>4, <2>5, <2>6, <2>7
        DEF PollAnswers, TypeOK, channelVars, commandVars, retryVars
<1>23. CASE PollFails
    <2>1. Connection("Disconnected") \in Update
        BY UpdateType DEF Connections
    <2>2. events' \in Seq(Update) /\ Len(events') <= MaxEvents
        BY <1>23, <2>1, PublishOneType DEF PollFails
    <2> QED
        BY <1>23, <2>2, LeaveConnectionType DEF PollFails, TypeOK, channelVars, connectionVars, commandVars, retryVars, auxVars
<1>24. CASE Disconnects
    BY <1>24, StartWaitingType DEF Disconnects, Phases, TypeOK, channelVars, connectionVars, commandVars, retryVars, auxVars
<1>25. CASE \E r \in Request : Send(r)
    <2> SUFFICES ASSUME NEW r \in Request, Send(r)
                 PROVE  TypeOK'
        BY <1>25
    <2>1. ledger \in Ledger
        BY DEF TypeOK
    <2>2. CASE r = StopRequest
        <3>1. urgent' \in Seq({"Stop", "Shutdown"})
            BY <2>2, AppendProperties DEF Send, TypeOK
        <3>2. older' \in Nat
            BY <2>2, LenProperties DEF Send, TypeOK
        <3>3. ledger' \in Ledger
            <4>1. ledger.sentStops < MaxStops
                BY <2>2 DEF Send
            <4>2. ledger' = [ledger EXCEPT !.sentStops = @ + 1]
                BY <2>2 DEF Send
            <4> QED BY <2>1, <4>1, <4>2, LedgerGrows
        <3> QED
            BY <2>2, <3>1, <3>2, <3>3
            DEF Send, TypeOK, connectionVars, commandVars, retryVars
    <2>3. CASE r # StopRequest
        <3>1. normal' \in Seq(MotionRequest)
            <4>1. r \in MotionRequest
                BY <2>3 DEF Request
            <4>2. normal' = Append(normal, r)
                BY <2>3 DEF Send
            <4> QED BY <4>1, <4>2, AppendProperties DEF TypeOK
        <3>2. ledger' \in Ledger
            <4>1. ledger.sentMotions < MaxMotions
                BY <2>3 DEF Send
            <4>2. ledger' = [ledger EXCEPT !.sentMotions = @ + 1]
                BY <2>3 DEF Send
            <4> QED BY <2>1, <4>1, <4>2, LedgerGrows
        <3> QED
            BY <2>3, <3>1, <3>2
            DEF Send, TypeOK, connectionVars, commandVars, retryVars
    <2> QED BY <2>2, <2>3
<1>26. CASE RequestShutdown
    BY <1>26 DEF RequestShutdown, TypeOK, channelVars, connectionVars, commandVars, retryVars, auxVars
<1>27. CASE Abort
    BY <1>27, FreshConnectionType DEF Abort, NoCommand, Phases, TypeOK, channelVars, connectionVars, commandVars, retryVars, auxVars
<1>28. CASE TickService /\ UNCHANGED events
    <2>1. lastStatus' \in AgedTelemetry \cup {None}
        BY <1>28, AgedTelemetryType DEF TickService, TypeOK
    <2>2. watchdog' \in Watchdog
        BY <1>28, WatchdogAgedType DEF TickService, TypeOK
    <2>3. pollIn' \in 0..PollInterval /\ retryIn' \in 0..RetryMax
        <3>1. pollIn \in 0..PollInterval /\ retryIn \in 0..RetryMax
            BY DEF TypeOK
        <3>2. /\ pollIn' = IF pollIn > 0 THEN pollIn - 1 ELSE 0
              /\ retryIn' = IF retryIn > 0 THEN retryIn - 1 ELSE 0
            BY <1>28 DEF TickService
        <3>3. PollInterval \in Nat /\ RetryMax \in Nat
            BY ServiceAssumption DEF ServiceAssumption
        <3> QED BY <3>1, <3>2, <3>3, CountdownType
    <2> QED
        BY <1>28, <2>1, <2>2, <2>3
        DEF TickService, TypeOK, channelVars, commandVars, auxVars
<1>29. CASE ReadsEvent
    <2>1. events' \in Seq(Update) /\ Len(events') <= MaxEvents
        BY <1>29, HeadTailProperties, LenProperties, ServiceAssumption
        DEF ReadsEvent, TypeOK, ServiceAssumption
    <2> QED
        BY <1>29, <2>1
        DEF ReadsEvent, TypeOK, channelVars, connectionVars, commandVars, retryVars, auxVars
<1>30. CASE UNCHANGED serviceVars
    BY <1>30 DEF serviceVars, TypeOK, channelVars, connectionVars, commandVars, retryVars, auxVars
<1> QED
    BY <1>1, <1>2, <1>3, <1>4, <1>5, <1>6, <1>7, <1>8, <1>9, <1>10, <1>11, <1>12, <1>13, <1>14, <1>15, <1>16, <1>17, <1>18, <1>19, <1>20, <1>21, <1>22, <1>23, <1>24, <1>25, <1>26, <1>27, <1>28, <1>29, <1>30 DEF Next, ServiceStep, Handles, PadAnswers

-----------------------------------------------------------------------------
(* What may change the observations of a connection.                        *)

\* The observations change with a sample and with the clock, and are gone when
\* the connection ends or another one begins.
LEMMA ObservationStep ==
    ASSUME [Next]_serviceVars
    PROVE  \/ UNCHANGED <<lastStatus, watchdog, motionFault>>
           \/ FreshConnection /\ phase' # "executing"
           \/ \E t \in Samples, c \in Counters : PollAnswers(t, c)
           \/ TickService
<1>1. CASE AcquireLock
    BY <1>1 DEF AcquireLock, connectionVars, commandVars
<1>2. CASE ConnectRefusesStop
    BY <1>2 DEF ConnectRefusesStop, connectionVars, commandVars
<1>3. CASE ConnectRefusesMotion
    BY <1>3 DEF ConnectRefusesMotion, connectionVars, commandVars
<1>4. CASE ConnectOpens
    BY <1>4 DEF ConnectOpens, FreshConnection, connectionVars, commandVars
<1>5. CASE ConnectFails
    BY <1>5 DEF ConnectFails, StartWaiting, connectionVars, commandVars
<1>6. CASE WaitRefusesStop
    BY <1>6 DEF WaitRefusesStop, connectionVars, commandVars
<1>7. CASE WaitRefusesMotion
    BY <1>7 DEF WaitRefusesMotion, connectionVars, commandVars
<1>8. CASE Retry
    BY <1>8 DEF Retry, connectionVars, commandVars
<1>9. CASE StopsUnconnected
    BY <1>9 DEF StopsUnconnected, connectionVars, commandVars
<1>10. CASE TakesStop
    BY <1>10 DEF TakesStop, connectionVars, commandVars
<1>11. CASE TakesShutdown
    BY <1>11 DEF TakesShutdown, LeaveConnection, FreshConnection, connectionVars, commandVars
<1>12. CASE RefusesMotion
    BY <1>12 DEF RefusesMotion, BackToLoop, connectionVars, commandVars
<1>13. CASE ExecutesMotion
    BY <1>13 DEF ExecutesMotion, connectionVars, commandVars
<1>14. CASE Wakes
    BY <1>14 DEF Wakes, connectionVars, commandVars
<1>15. CASE MotionSucceeds
    BY <1>15 DEF MotionSucceeds, BackToLoop, NoCommand, connectionVars, commandVars
<1>16. CASE MotionFails
    BY <1>16 DEF MotionFails, LeaveConnection, FreshConnection, connectionVars, commandVars
<1>17. CASE StopPreempts
    BY <1>17 DEF StopPreempts, connectionVars, commandVars
<1>18. CASE ShutdownPreempts
    BY <1>18 DEF ShutdownPreempts, LeaveConnection, FreshConnection, connectionVars, commandVars
<1>19. CASE HaltSucceeds
    BY <1>19 DEF HaltSucceeds, BackToLoop, NoCommand, connectionVars, commandVars
<1>20. CASE HaltFails
    BY <1>20 DEF HaltFails, LeaveConnection, FreshConnection, connectionVars, commandVars
<1>21. CASE StartsPoll
    BY <1>21 DEF StartsPoll, connectionVars, commandVars
<1>22. CASE \E t \in Samples, c \in Counters : PollAnswers(t, c)
    BY <1>22 DEF PollAnswers, BackToLoop, connectionVars, commandVars
<1>23. CASE PollFails
    BY <1>23 DEF PollFails, LeaveConnection, FreshConnection, connectionVars, commandVars
<1>24. CASE Disconnects
    BY <1>24 DEF Disconnects, StartWaiting, connectionVars, commandVars
<1>25. CASE \E r \in Request : Send(r)
    BY <1>25 DEF Send, connectionVars, commandVars
<1>26. CASE RequestShutdown
    BY <1>26 DEF RequestShutdown, connectionVars, commandVars
<1>27. CASE Abort
    BY <1>27 DEF Abort, FreshConnection, NoCommand, connectionVars, commandVars
<1>28. CASE TickService /\ UNCHANGED events
    BY <1>28 DEF TickService, connectionVars, commandVars
<1>29. CASE ReadsEvent
    BY <1>29 DEF ReadsEvent, connectionVars, commandVars
<1>30. CASE UNCHANGED serviceVars
    BY <1>30 DEF serviceVars, connectionVars, commandVars
<1> QED
    BY <1>1, <1>2, <1>3, <1>4, <1>5, <1>6, <1>7, <1>8, <1>9, <1>10, <1>11, <1>12, <1>13, <1>14, <1>15, <1>16, <1>17, <1>18, <1>19, <1>20, <1>21, <1>22, <1>23, <1>24, <1>25, <1>26, <1>27, <1>28, <1>29, <1>30
    DEF Next, ServiceStep, Handles, PadAnswers

\* A motion command starts in ExecutesMotion only, and stays what it is.
LEMMA ExecutionStep ==
    ASSUME [Next]_serviceVars
    PROVE  \/ ExecutesMotion
           \/ phase' # "executing"
           \/ UNCHANGED <<phase, inHand>> /\ (waking' => waking)
<1>1. CASE AcquireLock
    BY <1>1 DEF AcquireLock, connectionVars, commandVars
<1>2. CASE ConnectRefusesStop
    BY <1>2 DEF ConnectRefusesStop, connectionVars, commandVars
<1>3. CASE ConnectRefusesMotion
    BY <1>3 DEF ConnectRefusesMotion, connectionVars, commandVars
<1>4. CASE ConnectOpens
    BY <1>4 DEF ConnectOpens, FreshConnection, connectionVars, commandVars
<1>5. CASE ConnectFails
    BY <1>5 DEF ConnectFails, StartWaiting, connectionVars, commandVars
<1>6. CASE WaitRefusesStop
    BY <1>6 DEF WaitRefusesStop, connectionVars, commandVars
<1>7. CASE WaitRefusesMotion
    BY <1>7 DEF WaitRefusesMotion, connectionVars, commandVars
<1>8. CASE Retry
    BY <1>8 DEF Retry, connectionVars, commandVars
<1>9. CASE StopsUnconnected
    BY <1>9 DEF StopsUnconnected, connectionVars, commandVars
<1>10. CASE TakesStop
    BY <1>10 DEF TakesStop, connectionVars, commandVars
<1>11. CASE TakesShutdown
    BY <1>11 DEF TakesShutdown, LeaveConnection, FreshConnection, connectionVars, commandVars
<1>12. CASE RefusesMotion
    BY <1>12 DEF RefusesMotion, BackToLoop, connectionVars, commandVars
<1>13. CASE ExecutesMotion
    BY <1>13 DEF ExecutesMotion, connectionVars, commandVars
<1>14. CASE Wakes
    BY <1>14 DEF Wakes, connectionVars, commandVars
<1>15. CASE MotionSucceeds
    BY <1>15 DEF MotionSucceeds, BackToLoop, NoCommand, connectionVars, commandVars
<1>16. CASE MotionFails
    BY <1>16 DEF MotionFails, LeaveConnection, FreshConnection, connectionVars, commandVars
<1>17. CASE StopPreempts
    BY <1>17 DEF StopPreempts, connectionVars, commandVars
<1>18. CASE ShutdownPreempts
    BY <1>18 DEF ShutdownPreempts, LeaveConnection, FreshConnection, connectionVars, commandVars
<1>19. CASE HaltSucceeds
    BY <1>19 DEF HaltSucceeds, BackToLoop, NoCommand, connectionVars, commandVars
<1>20. CASE HaltFails
    BY <1>20 DEF HaltFails, LeaveConnection, FreshConnection, connectionVars, commandVars
<1>21. CASE StartsPoll
    BY <1>21 DEF StartsPoll, connectionVars, commandVars
<1>22. CASE \E t \in Samples, c \in Counters : PollAnswers(t, c)
    BY <1>22 DEF PollAnswers, BackToLoop, connectionVars, commandVars
<1>23. CASE PollFails
    BY <1>23 DEF PollFails, LeaveConnection, FreshConnection, connectionVars, commandVars
<1>24. CASE Disconnects
    BY <1>24 DEF Disconnects, StartWaiting, connectionVars, commandVars
<1>25. CASE \E r \in Request : Send(r)
    BY <1>25 DEF Send, connectionVars, commandVars
<1>26. CASE RequestShutdown
    BY <1>26 DEF RequestShutdown, connectionVars, commandVars
<1>27. CASE Abort
    BY <1>27 DEF Abort, FreshConnection, NoCommand, connectionVars, commandVars
<1>28. CASE TickService /\ UNCHANGED events
    BY <1>28 DEF TickService, connectionVars, commandVars
<1>29. CASE ReadsEvent
    BY <1>29 DEF ReadsEvent, connectionVars, commandVars
<1>30. CASE UNCHANGED serviceVars
    BY <1>30 DEF serviceVars, connectionVars, commandVars
<1> QED
    BY <1>1, <1>2, <1>3, <1>4, <1>5, <1>6, <1>7, <1>8, <1>9, <1>10, <1>11, <1>12, <1>13, <1>14, <1>15, <1>16, <1>17, <1>18, <1>19, <1>20, <1>21, <1>22, <1>23, <1>24, <1>25, <1>26, <1>27, <1>28, <1>29, <1>30
    DEF Next, ServiceStep, Handles, PadAnswers

LEMMA RequestInHandStep == TypeOK /\ RequestInHand /\ [Next]_serviceVars => RequestInHand'
<1> SUFFICES ASSUME TypeOK, RequestInHand, [Next]_serviceVars PROVE RequestInHand'
    OBVIOUS
<1>1. CASE ExecutesMotion
    BY <1>1, TakeNormalType DEF ExecutesMotion, RequestInHand
<1>2. CASE phase' # "executing" \/ UNCHANGED <<phase, inHand>>
    BY <1>2 DEF RequestInHand
<1> QED BY <1>1, <1>2, ExecutionStep

-----------------------------------------------------------------------------
(* The fault interlock.                                                    *)

\* The clock neither invents nor forgets a status.
LEMMA StatusAges ==
    ASSUME TypeOK, TickService, lastStatus # None
    PROVE  lastStatus' # None /\ lastStatus'.telemetry = lastStatus.telemetry
<1>1. lastStatus \in AgedTelemetry
    BY DEF TypeOK
<1>2. CASE lastStatus.age <= StaleAfter
    <2>1. lastStatus' = [lastStatus EXCEPT !.age = lastStatus.age + 1]
        BY <1>2 DEF TickService
    <2>2. lastStatus' \in AgedTelemetry
        BY <1>1, <1>2, <2>1, AgedTelemetryType
    <2> QED BY <1>1, <2>1, <2>2, NoneAssumption DEF AgedTelemetry, NoneAssumption
<1>3. CASE ~(lastStatus.age <= StaleAfter)
    BY <1>3 DEF TickService
<1> QED BY <1>2, <1>3

LEMMA FaultStep == TypeOK /\ FaultIsCurrent /\ [Next]_serviceVars => FaultIsCurrent'
<1> SUFFICES ASSUME TypeOK, FaultIsCurrent, [Next]_serviceVars PROVE FaultIsCurrent'
    OBVIOUS
<1>1. CASE UNCHANGED <<lastStatus, watchdog, motionFault>>
    BY <1>1 DEF FaultIsCurrent
<1>2. CASE FreshConnection
    BY <1>2 DEF FreshConnection, NewWatchdog, FaultIsCurrent
<1>3. CASE TickService
    <2>1. watchdog \in Watchdog /\ lastStatus \in AgedTelemetry \cup {None}
        BY DEF TypeOK
    <2>2. watchdog.faulted => watchdog' = watchdog
        BY <1>3, <2>1, WatchdogAssumption
        DEF TickService, Aged, FaultIsCurrent, WatchdogAssumption
    <2>3. watchdog'.faulted = watchdog.faulted
        BY <1>3, <2>1 DEF TickService, Aged, Watchdog
    <2>4. lastStatus # None =>
              lastStatus' # None /\ lastStatus'.telemetry = lastStatus.telemetry
        BY <1>3, StatusAges
    <2>5. motionFault' = motionFault
        BY <1>3 DEF TickService
    <2> QED BY <2>2, <2>3, <2>4, <2>5 DEF FaultIsCurrent
<1>4. CASE \E t \in Samples, c \in Counters : PollAnswers(t, c)
    <2> SUFFICES ASSUME NEW t \in Samples, NEW c \in Counters, PollAnswers(t, c)
                 PROVE  FaultIsCurrent'
        BY <1>4
    <2>1. watchdog \in Watchdog /\ t \in Telemetry
        BY ServiceAssumption DEF TypeOK, ServiceAssumption
    <2>2. CASE Progresses(watchdog, t, c)
        <3>1. watchdog'.faulted = FALSE
            BY <2>2 DEF PollAnswers, AfterSample, Rebased
        <3>2. motionFault' = FALSE
            BY <2>2 DEF PollAnswers, Observation, FaultIsCurrent
        <3> QED BY <3>1, <3>2 DEF FaultIsCurrent
    <2>3. CASE ~Progresses(watchdog, t, c) /\ watchdog.frozenFor # MotionTimeout
        <3>1. watchdog.faulted = FALSE /\ motionFault = FALSE
            BY <2>1, <2>3 DEF FaultIsCurrent, Watchdog
        <3>2. watchdog'.faulted = FALSE
            BY <2>1, <2>3, <3>1 DEF PollAnswers, AfterSample, Watchdog
        <3>3. motionFault' = FALSE
            BY <2>3, <3>1 DEF PollAnswers, Observation
        <3> QED BY <3>2, <3>3 DEF FaultIsCurrent
    <2>4. CASE ~Progresses(watchdog, t, c) /\ watchdog.frozenFor = MotionTimeout
        <3>1. watchdog'.faulted = TRUE /\ watchdog'.frozenFor = MotionTimeout
            BY <2>1, <2>4 DEF PollAnswers, AfterSample, Watchdog
        <3>2. motionFault' = TRUE
            BY <2>1, <2>4 DEF PollAnswers, Observation, FaultIsCurrent, Watchdog
        <3>3. lastStatus' # None /\ IsMoving(lastStatus'.telemetry)
            <4>1. lastStatus' = [telemetry |-> t, age |-> 0]
                BY DEF PollAnswers
            <4>2. lastStatus' \in AgedTelemetry
                BY <2>1, <4>1, TypesAssumption DEF AgedTelemetry, TypesAssumption
            <4>3. IsMoving(t)
                BY <2>4 DEF Progresses
            <4> QED BY <4>1, <4>2, <4>3, NoneAssumption DEF NoneAssumption
        <3> QED BY <3>1, <3>2, <3>3 DEF FaultIsCurrent
    <2> QED BY <2>2, <2>3, <2>4
<1> QED BY <1>1, <1>2, <1>3, <1>4, ObservationStep

LEMMA MotionStep ==
    TypeOK /\ FaultIsCurrent /\ MotionIsJustified /\ [Next]_serviceVars
        => MotionIsJustified'
<1> SUFFICES ASSUME TypeOK, FaultIsCurrent, MotionIsJustified, [Next]_serviceVars,
                    phase' = "executing"
             PROVE  MotionIsJustified'
    BY DEF MotionIsJustified
<1>1. CASE ExecutesMotion
    <2>1. UNCHANGED <<lastStatus, watchdog>>
        BY <1>1 DEF ExecutesMotion, connectionVars
    <2>2. ~watchdog.faulted /\ lastStatus # None
        BY <1>1 DEF ExecutesMotion, Valid, FaultIsCurrent
    <2>3. inHand' = StartRequest <=> ~IsMoving(lastStatus.telemetry)
        BY <1>1 DEF ExecutesMotion, Valid
    <2>4. waking' => IsStandby(lastStatus.telemetry)
        BY <1>1 DEF ExecutesMotion
    <2> QED BY <2>1, <2>2, <2>3, <2>4 DEF MotionIsJustified
<1>2. CASE UNCHANGED <<phase, inHand>> /\ (waking' => waking)
    <2>1. CASE UNCHANGED <<lastStatus, watchdog, motionFault>>
        BY <1>2, <2>1 DEF MotionIsJustified
    <2>2. CASE TickService
        <3>1. phase = "executing"
            BY <1>2
        <3>2. watchdog'.faulted = watchdog.faulted
            BY <2>2 DEF TypeOK, TickService, Aged, Watchdog
        <3>3. lastStatus' # None /\ lastStatus'.telemetry = lastStatus.telemetry
            BY <2>2, <3>1, StatusAges DEF MotionIsJustified
        <3> QED BY <1>2, <3>1, <3>2, <3>3 DEF MotionIsJustified
    <2>3. ~ \E t \in Samples, c \in Counters : PollAnswers(t, c)
        BY DEF PollAnswers, BackToLoop
    <2> QED BY <2>1, <2>2, <2>3, ObservationStep
<1> QED BY <1>1, <1>2, ExecutionStep

-----------------------------------------------------------------------------
(* The theorems.  The inductive invariant adds one fact to the properties: *)
(* what is in hand while a command is on the link is a request.            *)

FaultInv == TypeOK /\ RequestInHand /\ FaultIsCurrent /\ MotionIsJustified

LEMMA FaultInvInit == Init => FaultInv
<1> SUFFICES ASSUME Init PROVE FaultInv
    OBVIOUS
<1>1. phase = "connecting" /\ motionFault = FALSE /\ watchdog.faulted = FALSE
    BY DEF Init, NewWatchdog
<1>2. RequestInHand /\ MotionIsJustified
    BY <1>1 DEF RequestInHand, MotionIsJustified
<1>3. FaultIsCurrent
    BY <1>1 DEF FaultIsCurrent
<1> QED BY <1>2, <1>3, TypeInit DEF FaultInv

LEMMA FaultInvStep == FaultInv /\ [Next]_serviceVars => FaultInv'
BY TypeStep, RequestInHandStep, FaultStep, MotionStep DEF FaultInv

LEMMA FaultInvHolds == Spec => []FaultInv
<1> QED BY FaultInvInit, FaultInvStep, PTL DEF Spec

\* The task's state keeps its shape, in run(), run_connected and the channels,
\* whatever is asked of it and however the belt behaves.
THEOREM TypeCorrect == Spec => []TypeOK
<1>1. FaultInv => TypeOK
    BY DEF FaultInv
<1> QED BY <1>1, FaultInvHolds, PTL

\* motion_fault and the watchdog's own flag agree after every poll, and a fault
\* in force rests on the newest sample of the connection.
THEOREM FaultIsAlwaysCurrent == Spec => []FaultIsCurrent
<1>1. FaultInv => FaultIsCurrent
    BY DEF FaultInv
<1> QED BY <1>1, FaultInvHolds, PTL

\* A motion command never goes out on a faulted watchdog, nor against what the
\* newest sample says of the belt.
THEOREM MotionIsAlwaysJustified == Spec => []MotionIsJustified
<1>1. FaultInv => MotionIsJustified
    BY DEF FaultInv
<1> QED BY <1>1, FaultInvHolds, PTL

-----------------------------------------------------------------------------
(* The command lock and the reconnect delay.                               *)

\* No update that a step publishes blames another process.
NotBlamed ==
    \A i \in DOMAIN events' : i > Len(events) => events'[i] # Connection("Locked")

LEMMA NothingPublished ==
    ASSUME TypeOK, events' = events
    PROVE  NotBlamed
BY LenProperties DEF TypeOK, NotBlamed

LEMMA NotBlamedBy ==
    ASSUME TypeOK, NEW us \in Seq(Update), Publish(us),
           \A i \in 1..Len(us) : us[i] # Connection("Locked")
    PROVE  NotBlamed
<1>1. /\ events' = events \o us
      /\ Len(events) \in Nat /\ Len(us) \in Nat
      /\ DOMAIN events' = 1..(Len(events) + Len(us))
    BY ConcatProperties, LenProperties DEF Publish, TypeOK
<1>2. \A i \in 1..(Len(events) + Len(us)) :
          i > Len(events) => events'[i] = us[i - Len(events)] /\ i - Len(events) \in 1..Len(us)
    BY <1>1, ConcatProperties DEF TypeOK
<1> QED BY <1>1, <1>2 DEF NotBlamed

LEMMA OneNotBlamed ==
    ASSUME TypeOK, NEW u \in Update, u # Connection("Locked"), Publish(<<u>>)
    PROVE  NotBlamed
<1>1. <<u>> \in Seq(Update) /\ \A i \in 1..Len(<<u>>) : <<u>>[i] # Connection("Locked")
    BY PairType
<1> QED BY <1>1, NotBlamedBy

LEMMA TwoNotBlamed ==
    ASSUME TypeOK, NEW u \in Update, u # Connection("Locked"),
           NEW v \in Update, v # Connection("Locked"), Publish(<<u, v>>)
    PROVE  NotBlamed
<1>1. <<u, v>> \in Seq(Update) /\ Len(<<u, v>>) = 2
    BY PairType
<1>2. \A i \in 1..Len(<<u, v>>) : <<u, v>>[i] # Connection("Locked")
    BY <1>1
<1> QED BY <1>1, <1>2, NotBlamedBy

LEMMA PairIsConcat ==
    ASSUME NEW u \in Update, NEW v \in Update
    PROVE  <<u>> \o <<v>> = <<u, v>>
<1>1. <<u>> \in Seq(Update) /\ <<v>> \in Seq(Update) /\ <<u, v>> \in Seq(Update)
    BY PairType
<1>2. Len(<<u>>) = 1 /\ Len(<<v>>) = 1 /\ Len(<<u, v>>) = 2
    OBVIOUS
<1>3. /\ <<u>> \o <<v>> \in Seq(Update) /\ Len(<<u>> \o <<v>>) = 2
      /\ \A i \in 1..2 : (<<u>> \o <<v>>)[i] = IF i <= 1 THEN <<u>>[i] ELSE <<v>>[i - 1]
    BY <1>1, <1>2, ConcatProperties
<1>4. \A i \in 1..2 : (<<u>> \o <<v>>)[i] = <<u, v>>[i]
    BY <1>3
<1> QED BY <1>1, <1>2, <1>3, <1>4, SeqEqual

\* The connection updates of a task that holds the lock, and its answers.
LEMMA Blameless ==
    /\ \A c \in Connections \ {"Locked"} :
          Connection(c) \in Update /\ Connection(c) # Connection("Locked")
    /\ \A r \in Request : /\ Failed(r) \in Update /\ Failed(r) # Connection("Locked")
                          /\ Succeeded(r) \in Update /\ Succeeded(r) # Connection("Locked")
    /\ \A t \in Telemetry : Status(t) \in Update /\ Status(t) # Connection("Locked")
<1>1. \A c \in Connections \ {"Locked"} : Connection(c) # Connection("Locked")
    <2> SUFFICES ASSUME NEW c \in Connections \ {"Locked"}
                 PROVE  Connection(c) # Connection("Locked")
        OBVIOUS
    <2>1. Connection(c).state = c /\ Connection("Locked").state = "Locked"
        BY DEF Connection
    <2> QED BY <2>1
<1>2. Connection("Locked").type = "Connection"
    BY DEF Connection
<1>3. \A r \in Request : Failed(r).type = "Failed" /\ Succeeded(r).type = "Succeeded"
    BY DEF Failed, Succeeded
<1>4. \A t \in Telemetry : Status(t).type = "Status"
    BY DEF Status
<1> QED BY <1>1, <1>2, <1>3, <1>4, UpdateType

LEMMA LockStep ==
    ASSUME TypeOK, RequestInHand, haveLock, [Next]_serviceVars
    PROVE  haveLock' /\ NotBlamed
<1>1. CASE AcquireLock
    BY <1>1, NothingPublished DEF AcquireLock
<1>2. CASE ConnectRefusesStop
    BY <1>2, TwoNotBlamed, Blameless DEF ConnectRefusesStop, Request, Connections
<1>3. CASE ConnectRefusesMotion
    BY <1>3, TwoNotBlamed, Blameless, TakeNormalType DEF ConnectRefusesMotion, Request, Connections
<1>4. CASE ConnectOpens
    BY <1>4, OneNotBlamed, Blameless DEF ConnectOpens, Connections
<1>5. CASE ConnectFails
    <2>1. Publish(<<Connection("Disconnected")>>)
        BY <1>5 DEF ConnectFails
    <2> QED BY <1>5, <2>1, OneNotBlamed, Blameless DEF ConnectFails, Connections
<1>6. CASE WaitRefusesStop
    BY <1>6, OneNotBlamed, Blameless DEF WaitRefusesStop, Request
<1>7. CASE WaitRefusesMotion
    BY <1>7, OneNotBlamed, Blameless, TakeNormalType DEF WaitRefusesMotion, Request
<1>8. CASE Retry
    BY <1>8, OneNotBlamed, Blameless DEF Retry, Connections
<1>9. CASE StopsUnconnected
    BY <1>9, NothingPublished DEF StopsUnconnected
<1>10. CASE TakesStop
    BY <1>10, NothingPublished DEF TakesStop
<1>11. CASE TakesShutdown
    BY <1>11, NothingPublished DEF TakesShutdown
<1>12. CASE RefusesMotion
    BY <1>12, OneNotBlamed, Blameless, TakeNormalType DEF RefusesMotion, Request
<1>13. CASE ExecutesMotion
    BY <1>13, NothingPublished DEF ExecutesMotion
<1>14. CASE Wakes
    BY <1>14, NothingPublished DEF Wakes
<1>15. CASE MotionSucceeds
    BY <1>15, OneNotBlamed, Blameless DEF MotionSucceeds, Request, RequestInHand
<1>16. CASE MotionFails
    BY <1>16, TwoNotBlamed, Blameless DEF MotionFails, Request, RequestInHand, Connections
<1>17. CASE StopPreempts
    BY <1>17, NothingPublished DEF StopPreempts
<1>18. CASE ShutdownPreempts
    BY <1>18, NothingPublished DEF ShutdownPreempts
<1>19. CASE HaltSucceeds
    BY <1>19, OneNotBlamed, Blameless DEF HaltSucceeds, Request
<1>20. CASE HaltFails
    BY <1>20, TwoNotBlamed, Blameless DEF HaltFails, Request, Connections
<1>21. CASE StartsPoll
    BY <1>21, NothingPublished DEF StartsPoll
<1>22. CASE \E t \in Samples, c \in Counters : PollAnswers(t, c)
    <2> SUFFICES ASSUME NEW t \in Samples, NEW c \in Counters, PollAnswers(t, c)
                 PROVE  haveLock' /\ NotBlamed
        BY <1>22
    <2>1. t \in Telemetry
        BY ServiceAssumption DEF ServiceAssumption
    <2> DEFINE o == Observation(watchdog, t, c)
    <2>2. CASE Verdict(o) = <<>>
        <3>1. <<Status(t)>> \o Verdict(o) = <<Status(t)>>
            BY <2>2, ConcatEmptySeq, <2>1, PairType, Blameless
        <3>2. Publish(<<Status(t)>>)
            BY <3>1 DEF PollAnswers
        <3> QED BY <2>1, <3>2, OneNotBlamed, Blameless DEF PollAnswers
    <2>3. ASSUME NEW d \in {"Faulted", "Connected"}, Verdict(o) = <<Connection(d)>>
          PROVE  haveLock' /\ NotBlamed
        <3>1. <<Status(t)>> \o <<Connection(d)>> = <<Status(t), Connection(d)>>
            BY <2>1, PairIsConcat, Blameless DEF Connections
        <3>2. Publish(<<Status(t), Connection(d)>>)
            BY <2>3, <3>1 DEF PollAnswers
        <3> QED BY <2>1, <3>2, TwoNotBlamed, Blameless DEF PollAnswers, Connections
    <2>4. Verdict(o) \in {<<>>, <<Connection("Faulted")>>, <<Connection("Connected")>>}
        BY DEF Verdict
    <2> QED BY <2>2, <2>3, <2>4
<1>23. CASE PollFails
    BY <1>23, OneNotBlamed, Blameless DEF PollFails, Connections
<1>24. CASE Disconnects
    BY <1>24, NothingPublished DEF Disconnects
<1>25. CASE \E r \in Request : Send(r)
    BY <1>25, NothingPublished DEF Send
<1>26. CASE RequestShutdown
    BY <1>26, NothingPublished DEF RequestShutdown
<1>27. CASE Abort
    BY <1>27, NothingPublished DEF Abort
<1>28. CASE TickService /\ UNCHANGED events
    BY <1>28, NothingPublished DEF TickService
<1>29. CASE ReadsEvent
    <2>1. DOMAIN events' = 1..(Len(events) - 1)
        BY <1>29, HeadTailProperties, LenProperties DEF ReadsEvent, TypeOK
    <2>2. Len(events) \in Nat
        BY LenProperties DEF TypeOK
    <2> QED BY <1>29, <2>1, <2>2 DEF ReadsEvent, NotBlamed
<1>30. CASE UNCHANGED serviceVars
    BY <1>30, NothingPublished DEF serviceVars
<1> QED
    BY <1>1, <1>2, <1>3, <1>4, <1>5, <1>6, <1>7, <1>8, <1>9, <1>10, <1>11, <1>12, <1>13, <1>14, <1>15, <1>16, <1>17, <1>18, <1>19, <1>20, <1>21, <1>22, <1>23, <1>24, <1>25, <1>26, <1>27, <1>28, <1>29, <1>30
    DEF Next, ServiceStep, Handles, PadAnswers

\* The command lock, once held, is held for good, and a task that holds it never
\* tells the user that another process controls the belt.
THEOREM LockIsAlwaysKept == Spec => LockIsKept
<1>1. FaultInv /\ [Next]_serviceVars
          => [haveLock => /\ haveLock'
                          /\ \A i \in DOMAIN events' :
                                i > Len(events) => events'[i] # Connection("Locked")]_serviceVars
    BY LockStep DEF FaultInv, NotBlamed
<1> QED BY <1>1, FaultInvHolds, PTL DEF Spec, LockIsKept

LEMMA RetryStep ==
    ASSUME TypeOK, [Next]_serviceVars, phase = "waiting", phase' = "waiting"
    PROVE  retryIn' <= retryIn
<1>0. retryIn \in Nat
    BY ServiceAssumption DEF TypeOK, ServiceAssumption
<1>1. CASE AcquireLock
    BY <1>0, <1>1 DEF AcquireLock, retryVars
<1>2. CASE ConnectRefusesStop
    BY <1>0, <1>2 DEF ConnectRefusesStop, retryVars
<1>3. CASE ConnectRefusesMotion
    BY <1>0, <1>3 DEF ConnectRefusesMotion, retryVars
<1>4. CASE ConnectOpens
    BY <1>0, <1>4 DEF ConnectOpens, retryVars
<1>5. CASE ConnectFails
    BY <1>0, <1>5 DEF ConnectFails, retryVars
<1>6. CASE WaitRefusesStop
    BY <1>0, <1>6 DEF WaitRefusesStop, retryVars
<1>7. CASE WaitRefusesMotion
    BY <1>0, <1>7 DEF WaitRefusesMotion, retryVars
<1>8. CASE Retry
    BY <1>0, <1>8 DEF Retry, retryVars
<1>9. CASE StopsUnconnected
    BY <1>0, <1>9 DEF StopsUnconnected, retryVars
<1>10. CASE TakesStop
    BY <1>0, <1>10 DEF TakesStop, retryVars
<1>11. CASE TakesShutdown
    BY <1>0, <1>11 DEF TakesShutdown, LeaveConnection
<1>12. CASE RefusesMotion
    BY <1>0, <1>12 DEF RefusesMotion, Serving, BackToLoop
<1>13. CASE ExecutesMotion
    BY <1>0, <1>13 DEF ExecutesMotion, retryVars
<1>14. CASE Wakes
    BY <1>0, <1>14 DEF Wakes, retryVars
<1>15. CASE MotionSucceeds
    BY <1>0, <1>15 DEF MotionSucceeds, BackToLoop
<1>16. CASE MotionFails
    BY <1>0, <1>16 DEF MotionFails, LeaveConnection
<1>17. CASE StopPreempts
    BY <1>0, <1>17 DEF StopPreempts, retryVars
<1>18. CASE ShutdownPreempts
    BY <1>0, <1>18 DEF ShutdownPreempts, LeaveConnection
<1>19. CASE HaltSucceeds
    BY <1>0, <1>19 DEF HaltSucceeds, BackToLoop
<1>20. CASE HaltFails
    BY <1>0, <1>20 DEF HaltFails, LeaveConnection
<1>21. CASE StartsPoll
    BY <1>0, <1>21 DEF StartsPoll, retryVars
<1>22. CASE \E t \in Samples, c \in Counters : PollAnswers(t, c)
    BY <1>0, <1>22 DEF PollAnswers, retryVars, BackToLoop
<1>23. CASE PollFails
    BY <1>0, <1>23 DEF PollFails, LeaveConnection
<1>24. CASE Disconnects
    BY <1>0, <1>24 DEF Disconnects, retryVars
<1>25. CASE \E r \in Request : Send(r)
    BY <1>0, <1>25 DEF Send, retryVars
<1>26. CASE RequestShutdown
    BY <1>0, <1>26 DEF RequestShutdown, retryVars
<1>27. CASE Abort
    BY <1>0, <1>27 DEF Abort, retryVars
<1>28. CASE TickService /\ UNCHANGED events
    BY <1>0, <1>28 DEF TickService, retryVars
<1>29. CASE ReadsEvent
    BY <1>0, <1>29 DEF ReadsEvent, retryVars
<1>30. CASE UNCHANGED serviceVars
    BY <1>0, <1>30 DEF serviceVars, retryVars
<1> QED
    BY <1>1, <1>2, <1>3, <1>4, <1>5, <1>6, <1>7, <1>8, <1>9, <1>10, <1>11, <1>12, <1>13, <1>14, <1>15, <1>16, <1>17, <1>18, <1>19, <1>20, <1>21, <1>22, <1>23, <1>24, <1>25, <1>26, <1>27, <1>28, <1>29, <1>30
    DEF Next, ServiceStep, Handles, PadAnswers

\* A request refused while the task waits never pushes the next attempt back.
THEOREM RetryIsNeverPostponed == Spec => RetryIsNotPostponed
<1>1. FaultInv /\ [Next]_serviceVars
          => [phase = "waiting" /\ phase' = "waiting" => retryIn' <= retryIn]_serviceVars
    BY RetryStep DEF FaultInv
<1> QED BY <1>1, FaultInvHolds, PTL DEF Spec, RetryIsNotPostponed

-----------------------------------------------------------------------------
(***************************************************************************)
(* The controller task accounts for every request: no Stop and no motion   *)
(* request is lost or answered twice, and Shutdown comes last.             *)
(***************************************************************************)

(* The urgent channel.                                                     *)

\* Shutdown is the last thing ever sent on the urgent channel.
UrgentInOrder ==
    \A i \in 1..Len(urgent) : urgent[i] = "Shutdown" => i = Len(urgent)

\* A task that leaves for shutdown is disconnecting or done.
ExitingPhase == exiting => phase \in {"closing", "stopped"}

LEMMA StopTaken ==
    ASSUME TypeOK, UrgentInOrder, TakeUrgent("Stop")
    PROVE  StopsQueued' = StopsQueued - 1 /\ UrgentInOrder'
<1>1. /\ urgent # <<>> /\ urgent[1] = "Stop" /\ urgent' = Tail(urgent)
      /\ urgent \in Seq({"Stop", "Shutdown"})
    BY DEF TakeUrgent, TypeOK
<1>2. /\ Len(urgent) \in Nat \ {0}
      /\ Len(urgent') = Len(urgent) - 1
      /\ \A i \in 1..Len(urgent') : urgent'[i] = urgent[i + 1]
    BY <1>1, HeadTailProperties, EmptySeq
<1>3. ShuttingDown' <=> ShuttingDown
    <2>1. ASSUME NEW i \in 1..Len(urgent), urgent[i] = "Shutdown"
          PROVE  i - 1 \in 1..Len(urgent') /\ urgent'[i - 1] = "Shutdown"
        BY <1>1, <1>2, <2>1
    <2>2. ASSUME NEW i \in 1..Len(urgent'), urgent'[i] = "Shutdown"
          PROVE  i + 1 \in 1..Len(urgent) /\ urgent[i + 1] = "Shutdown"
        BY <1>2, <2>2
    <2> QED BY <2>1, <2>2 DEF ShuttingDown
<1>4. UrgentInOrder'
    BY <1>2 DEF UrgentInOrder
<1> QED BY <1>2, <1>3, <1>4 DEF StopsQueued

LEMMA ShutdownTaken ==
    ASSUME TypeOK, UrgentInOrder, TakeUrgent("Shutdown")
    PROVE  urgent' = <<>> /\ StopsQueued = 0 /\ StopsQueued' = 0 /\ UrgentInOrder'
<1>1. /\ urgent # <<>> /\ urgent[1] = "Shutdown" /\ urgent' = Tail(urgent)
      /\ urgent \in Seq({"Stop", "Shutdown"})
    BY DEF TakeUrgent, TypeOK
<1>2. Len(urgent) \in Nat \ {0}
    BY <1>1, EmptySeq
<1>3. Len(urgent) = 1
    <2>1. 1 \in 1..Len(urgent)
        BY <1>2
    <2> QED BY <1>1, <2>1 DEF UrgentInOrder
<1>4. urgent' \in Seq({"Stop", "Shutdown"}) /\ Len(urgent') = 0
    BY <1>1, <1>3, HeadTailProperties
<1>5. urgent' = <<>>
    BY <1>4, EmptySeq
<1>6. ShuttingDown /\ ~ShuttingDown'
    BY <1>1, <1>3, <1>4 DEF ShuttingDown
<1>7. UrgentInOrder'
    BY <1>4 DEF UrgentInOrder
<1>8. StopsQueued = 0
    BY <1>3, <1>6 DEF StopsQueued
<1>9. StopsQueued' = 0
    BY <1>5 DEF StopsQueued, ShuttingDown
<1> QED BY <1>5, <1>7, <1>8, <1>9

LEMMA UrgentAppended ==
    ASSUME TypeOK, ~ShuttingDown, NEW kind \in {"Stop", "Shutdown"},
           urgent' = Append(urgent, kind)
    PROVE  /\ StopsQueued' = StopsQueued + (IF kind = "Stop" THEN 1 ELSE 0)
           /\ UrgentInOrder'
<1>1. /\ Len(urgent) \in Nat /\ Len(urgent') = Len(urgent) + 1
      /\ \A i \in 1..Len(urgent) : urgent'[i] = urgent[i]
      /\ urgent'[Len(urgent) + 1] = kind
    BY AppendProperties, LenProperties DEF TypeOK
<1>2. \A i \in 1..Len(urgent) : urgent'[i] # "Shutdown"
    BY <1>1 DEF ShuttingDown
<1>3. ShuttingDown' <=> kind = "Shutdown"
    BY <1>1, <1>2 DEF ShuttingDown
<1>4. UrgentInOrder'
    BY <1>1, <1>2 DEF UrgentInOrder
<1>5. CASE kind = "Stop"
    <2>1. ~ShuttingDown'
        BY <1>3, <1>5
    <2> QED BY <1>1, <1>4, <1>5, <2>1 DEF StopsQueued
<1>6. CASE kind = "Shutdown"
    <2>1. ShuttingDown'
        BY <1>3, <1>6
    <2> QED BY <1>1, <1>4, <1>6, <2>1 DEF StopsQueued
<1> QED BY <1>5, <1>6

LEMMA StopsQueuedType == TypeOK => StopsQueued \in Int
BY LenProperties DEF TypeOK, StopsQueued

-----------------------------------------------------------------------------
(* What a step does to the Stops, from the channel to the answer.          *)

\* The Stops and the Shutdown are left alone.
StopsQuiet ==
    /\ urgent' = urgent
    /\ ledger'.sentStops = ledger.sentStops
    /\ ledger'.answeredStops = ledger.answeredStops
    /\ exiting' => exiting
    /\ phase' = "stopping" <=> phase = "stopping"
    /\ phase = "stopped" => phase' = "stopped"
    /\ phase = "closing" /\ exiting => phase' \in {"closing", "stopped"}

\* A Stop is taken and answered at once.
StopRefused ==
    /\ TakeUrgent("Stop")
    /\ ledger'.sentStops = ledger.sentStops
    /\ ledger'.answeredStops = ledger.answeredStops + 1
    /\ UNCHANGED <<phase, exiting>>
    /\ phase \in {"connecting", "waiting"}

\* A Stop is taken and its halt begins.
StopBegins ==
    /\ TakeUrgent("Stop")
    /\ ledger'.sentStops = ledger.sentStops
    /\ ledger'.answeredStops = ledger.answeredStops
    /\ exiting' = exiting
    /\ phase \in {"connected", "polling", "executing"} /\ phase' = "stopping"

\* The halt ends and the Stop is answered.
StopEnds ==
    /\ urgent' = urgent
    /\ ledger'.sentStops = ledger.sentStops
    /\ ledger'.answeredStops = ledger.answeredStops + 1
    /\ exiting' => exiting
    /\ phase = "stopping" /\ phase' \in {"connected", "closing"}

\* A Shutdown is taken.
LeavesForGood ==
    /\ TakeUrgent("Shutdown")
    /\ ledger'.sentStops = ledger.sentStops
    /\ ledger'.answeredStops = ledger.answeredStops
    /\ \/ exiting' = exiting /\ phase' = "stopped"
       \/ phase' = "closing"
    /\ phase \notin {"stopping", "closing", "stopped"}

\* A Stop or a Shutdown is sent.
StopSent ==
    /\ ~exiting /\ ~ShuttingDown
    /\ \E kind \in {"Stop", "Shutdown"} :
          /\ urgent' = Append(urgent, kind)
          /\ ledger'.sentStops = ledger.sentStops + (IF kind = "Stop" THEN 1 ELSE 0)
    /\ ledger'.answeredStops = ledger.answeredStops
    /\ UNCHANGED <<phase, exiting>>

\* The task is dropped.
StopsAborted ==
    /\ urgent' = urgent
    /\ ledger'.sentStops = ledger.sentStops
    /\ ledger'.answeredStops = ledger.answeredStops
    /\ exiting' = exiting
    /\ phase' = "stopped"

LEMMA StopStep ==
    ASSUME TypeOK, [Next]_serviceVars
    PROVE  \/ StopsQuiet \/ StopRefused \/ StopBegins \/ StopEnds
           \/ LeavesForGood \/ StopSent \/ StopsAborted
<1> ledger \in Ledger
    BY DEF TypeOK
<1>1. CASE AcquireLock
    BY <1>1 DEF AcquireLock, StopsQuiet, Ledger,
        channelVars, auxVars
<1>2. CASE ConnectRefusesStop
    BY <1>2 DEF ConnectRefusesStop, AnswerStop, StopRefused, Ledger,
        channelVars, auxVars
<1>3. CASE ConnectRefusesMotion
    BY <1>3 DEF ConnectRefusesMotion, AnswerMotion, TakeNormal, StopsQuiet, Ledger,
        channelVars, auxVars
<1>4. CASE ConnectOpens
    BY <1>4 DEF ConnectOpens, FreshConnection, StopsQuiet, Ledger,
        channelVars, auxVars
<1>5. CASE ConnectFails
    BY <1>5 DEF ConnectFails, StartWaiting, StopsQuiet, Ledger,
        channelVars, auxVars
<1>6. CASE WaitRefusesStop
    BY <1>6 DEF WaitRefusesStop, AnswerStop, StopRefused, Ledger,
        channelVars, auxVars
<1>7. CASE WaitRefusesMotion
    BY <1>7 DEF WaitRefusesMotion, AnswerMotion, TakeNormal, StopsQuiet, Ledger,
        channelVars, auxVars
<1>8. CASE Retry
    BY <1>8 DEF Retry, StopsQuiet, Ledger,
        channelVars, auxVars
<1>9. CASE StopsUnconnected
    BY <1>9 DEF StopsUnconnected, LeavesForGood, Ledger,
        channelVars, auxVars
<1>10. CASE TakesStop
    BY <1>10 DEF TakesStop, Serving, StopBegins, Ledger,
        channelVars, auxVars
<1>11. CASE TakesShutdown
    BY <1>11 DEF TakesShutdown, LeaveConnection, NoCommand, Serving, LeavesForGood, Ledger,
        channelVars, auxVars
<1>12. CASE RefusesMotion
    BY <1>12 DEF RefusesMotion, BackToLoop, AnswerMotion, Serving, TakeNormal, StopsQuiet, Ledger,
        channelVars, auxVars
<1>13. CASE ExecutesMotion
    BY <1>13 DEF ExecutesMotion, Serving, TakeNormal, StopsQuiet, Ledger,
        channelVars, auxVars
<1>14. CASE Wakes
    BY <1>14 DEF Wakes, StopsQuiet, Ledger,
        channelVars, auxVars
<1>15. CASE MotionSucceeds
    BY <1>15 DEF MotionSucceeds, BackToLoop, NoCommand, AnswerMotion, StopsQuiet, Ledger,
        channelVars, auxVars
<1>16. CASE MotionFails
    BY <1>16 DEF MotionFails, LeaveConnection, NoCommand, AnswerMotion, StopsQuiet, Ledger,
        channelVars, auxVars
<1>17. CASE StopPreempts
    BY <1>17 DEF StopPreempts, PreemptMotion, StopBegins, Ledger,
        channelVars, auxVars
<1>18. CASE ShutdownPreempts
    BY <1>18 DEF ShutdownPreempts, LeaveConnection, NoCommand, PreemptMotion, LeavesForGood, Ledger,
        channelVars, auxVars
<1>19. CASE HaltSucceeds
    BY <1>19 DEF HaltSucceeds, BackToLoop, NoCommand, AnswerStop, StopEnds, Ledger,
        channelVars, auxVars
<1>20. CASE HaltFails
    BY <1>20 DEF HaltFails, LeaveConnection, NoCommand, AnswerStop, StopEnds, Ledger,
        channelVars, auxVars
<1>21. CASE StartsPoll
    BY <1>21 DEF StartsPoll, StopsQuiet, Ledger,
        channelVars, auxVars
<1>22. CASE \E t \in Samples, c \in Counters : PollAnswers(t, c)
    BY <1>22 DEF PollAnswers, BackToLoop, StopsQuiet, Ledger,
        channelVars, auxVars
<1>23. CASE PollFails
    BY <1>23 DEF PollFails, LeaveConnection, NoCommand, StopsQuiet, Ledger,
        channelVars, auxVars
<1>24. CASE Disconnects
    BY <1>24 DEF Disconnects, StartWaiting, StopsQuiet, Ledger,
        channelVars, auxVars
<1>25. CASE \E r \in Request : Send(r)
    <2> SUFFICES ASSUME NEW r \in Request, Send(r)
                 PROVE  StopsQuiet \/ StopSent
        BY <1>25
    <2>1. CASE r = StopRequest
        <3>1. ledger'.sentStops = ledger.sentStops + 1
            BY <2>1 DEF Send, Ledger
        <3>2. ledger'.answeredStops = ledger.answeredStops
            BY <2>1 DEF Send, Ledger
        <3> QED BY <2>1, <3>1, <3>2 DEF Send, StopSent
    <2>2. CASE r # StopRequest
        BY <2>2 DEF Send, StopsQuiet, Ledger
    <2> QED BY <2>1, <2>2
<1>26. CASE RequestShutdown
    BY <1>26 DEF RequestShutdown, StopSent, Ledger,
        channelVars, auxVars
<1>27. CASE Abort
    BY <1>27 DEF Abort, FreshConnection, NoCommand, StopsAborted, Ledger,
        channelVars, auxVars
<1>28. CASE TickService /\ UNCHANGED events
    BY <1>28 DEF TickService, StopsQuiet, Ledger,
        channelVars, auxVars
<1>29. CASE ReadsEvent
    BY <1>29 DEF ReadsEvent, StopsQuiet, Ledger,
        channelVars, auxVars
<1>30. CASE UNCHANGED serviceVars
    BY <1>30 DEF serviceVars, StopsQuiet, Ledger,
        channelVars, auxVars
<1> QED
    BY <1>1, <1>2, <1>3, <1>4, <1>5, <1>6, <1>7, <1>8, <1>9, <1>10, <1>11, <1>12, <1>13, <1>14, <1>15, <1>16, <1>17, <1>18, <1>19, <1>20, <1>21, <1>22, <1>23, <1>24, <1>25, <1>26, <1>27, <1>28, <1>29, <1>30
    DEF Next, ServiceStep, Handles, PadAnswers

-----------------------------------------------------------------------------
(* No Stop is lost, and Shutdown comes last.                               *)

StopInv ==
    /\ TypeOK /\ RequestInHand
    /\ UrgentInOrder
    /\ ExitingPhase
    /\ StopsAreAccounted
    /\ ShutdownComesLast

LEMMA StopInvInit == Init => StopInv
<1> SUFFICES ASSUME Init PROVE StopInv
    OBVIOUS
<1>1. Len(urgent) = 0 /\ ~ShuttingDown
    BY DEF Init, ShuttingDown
<1>2. StopsAreAccounted
    BY <1>1 DEF Init, NewLedger, StopsAreAccounted, StopsQueued
<1> QED
    BY <1>1, <1>2, TypeInit
    DEF Init, StopInv, RequestInHand, UrgentInOrder, ExitingPhase, ShutdownComesLast

LEMMA StopInvStep == StopInv /\ [Next]_serviceVars => StopInv'
<1> SUFFICES ASSUME StopInv, [Next]_serviceVars PROVE StopInv'
    OBVIOUS
<1> USE DEF StopInv
<1>1. TypeOK' /\ RequestInHand'
    BY TypeStep, RequestInHandStep
<1>2. /\ ledger.sentStops \in Int /\ ledger.answeredStops \in Int
      /\ StopsQueued \in Int
    BY StopsQueuedType DEF TypeOK, Ledger
<1>3. urgent' = urgent => StopsQueued' = StopsQueued /\ (UrgentInOrder => UrgentInOrder')
    BY DEF StopsQueued, ShuttingDown, UrgentInOrder
<1>4. CASE StopsQuiet
    BY <1>1, <1>2, <1>3, <1>4
    DEF StopsQuiet, ExitingPhase, StopsAreAccounted, ShutdownComesLast
<1>5. CASE StopRefused
    <2>1. StopsQueued' = StopsQueued - 1 /\ UrgentInOrder'
        BY <1>5, StopTaken DEF StopRefused
    <2> QED
        BY <1>1, <1>2, <1>5, <2>1
        DEF StopRefused, ExitingPhase, StopsAreAccounted, ShutdownComesLast
<1>6. CASE StopBegins
    <2>1. StopsQueued' = StopsQueued - 1 /\ UrgentInOrder'
        BY <1>6, StopTaken DEF StopBegins
    <2> QED
        BY <1>1, <1>2, <1>6, <2>1
        DEF StopBegins, ExitingPhase, StopsAreAccounted, ShutdownComesLast
<1>7. CASE StopEnds
    BY <1>1, <1>2, <1>3, <1>7
    DEF StopEnds, ExitingPhase, StopsAreAccounted, ShutdownComesLast
<1>8. CASE LeavesForGood
    <2>1. urgent' = <<>> /\ StopsQueued = 0 /\ StopsQueued' = 0 /\ UrgentInOrder'
        BY <1>8, ShutdownTaken DEF LeavesForGood
    <2>2. ledger.sentStops = ledger.answeredStops /\ ~exiting
        BY <1>2, <1>8, <2>1 DEF LeavesForGood, StopsAreAccounted, ExitingPhase
    <2> QED
        BY <1>1, <1>2, <1>8, <2>1, <2>2
        DEF LeavesForGood, ExitingPhase, StopsAreAccounted, ShutdownComesLast
<1>9. CASE StopSent
    <2> PICK kind \in {"Stop", "Shutdown"} :
            /\ urgent' = Append(urgent, kind)
            /\ ledger'.sentStops = ledger.sentStops + (IF kind = "Stop" THEN 1 ELSE 0)
        BY <1>9 DEF StopSent
    <2>1. /\ StopsQueued' = StopsQueued + (IF kind = "Stop" THEN 1 ELSE 0)
          /\ UrgentInOrder'
        BY <1>9, UrgentAppended DEF StopSent
    <2> QED
        BY <1>1, <1>2, <1>9, <2>1
        DEF StopSent, ExitingPhase, StopsAreAccounted, ShutdownComesLast
<1>10. CASE StopsAborted
    BY <1>1, <1>2, <1>3, <1>10
    DEF StopsAborted, ExitingPhase, StopsAreAccounted, ShutdownComesLast
<1> QED BY <1>4, <1>5, <1>6, <1>7, <1>8, <1>9, <1>10, StopStep

LEMMA StopInvHolds == Spec => []StopInv
<1> QED BY StopInvInit, StopInvStep, PTL DEF Spec

\* No Stop gets lost: until the task is over each one is in the channel, in its
\* halt, or answered.
THEOREM NoStopIsLost == Spec => []StopsAreAccounted
<1>1. StopInv => StopsAreAccounted
    BY DEF StopInv
<1> QED BY <1>1, StopInvHolds, PTL

\* When the task leaves for a Shutdown, every Stop sent before it has been
\* carried out or reported.
THEOREM ShutdownAlwaysLast == Spec => []ShutdownComesLast
<1>1. StopInv => ShutdownComesLast
    BY DEF StopInv
<1> QED BY <1>1, StopInvHolds, PTL

-----------------------------------------------------------------------------
(* What a step does to the motion requests, from the channel to the answer. *)

MotionsUnchanged ==
    /\ ledger'.sentMotions = ledger.sentMotions
    /\ ledger'.answeredMotions = ledger.answeredMotions
    /\ ledger'.preempted = ledger.preempted

\* The motion requests are left alone, or the task is over.
MotionsQuiet ==
    \/ phase' = "stopped"
    \/ /\ normal' = normal
       /\ MotionsUnchanged
       /\ phase' = "executing" <=> phase = "executing"
       /\ phase # "stopped"

\* A request is taken and refused.
MotionRefused ==
    /\ TakeNormal
    /\ ledger'.sentMotions = ledger.sentMotions
    /\ ledger'.answeredMotions = ledger.answeredMotions + 1
    /\ ledger'.preempted = ledger.preempted
    /\ phase \notin {"executing", "stopped"} /\ phase' # "executing"

\* A request is taken and its command goes out.
MotionBegins ==
    /\ TakeNormal
    /\ MotionsUnchanged
    /\ phase \notin {"executing", "stopped"} /\ phase' = "executing"

\* A command ends: it is answered, or dropped for urgent work.
MotionEnds ==
    /\ normal' = normal
    /\ ledger'.sentMotions = ledger.sentMotions
    /\ ledger'.answeredMotions + ledger'.preempted
           = ledger.answeredMotions + ledger.preempted + 1
    /\ phase = "executing" /\ phase' # "executing"

\* A request is sent.
MotionSent ==
    /\ \E r \in MotionRequest : normal' = Append(normal, r)
    /\ ledger'.sentMotions = ledger.sentMotions + 1
    /\ ledger'.answeredMotions = ledger.answeredMotions
    /\ ledger'.preempted = ledger.preempted
    /\ phase' = phase

LEMMA MotionAccountStep ==
    ASSUME TypeOK, [Next]_serviceVars
    PROVE  \/ MotionsQuiet \/ MotionRefused \/ MotionBegins \/ MotionEnds \/ MotionSent
<1> ledger \in Ledger
    BY DEF TypeOK
<1>1. CASE AcquireLock
    BY <1>1 DEF AcquireLock, MotionsQuiet, MotionsUnchanged, Ledger,
        channelVars, auxVars
<1>2. CASE ConnectRefusesStop
    BY <1>2 DEF ConnectRefusesStop, AnswerStop, TakeUrgent, MotionsQuiet, MotionsUnchanged, Ledger,
        channelVars, auxVars
<1>3. CASE ConnectRefusesMotion
    BY <1>3 DEF ConnectRefusesMotion, AnswerMotion, MotionRefused, Ledger,
        channelVars, auxVars
<1>4. CASE ConnectOpens
    BY <1>4 DEF ConnectOpens, FreshConnection, MotionsQuiet, MotionsUnchanged, Ledger,
        channelVars, auxVars
<1>5. CASE ConnectFails
    BY <1>5 DEF ConnectFails, StartWaiting, MotionsQuiet, MotionsUnchanged, Ledger,
        channelVars, auxVars
<1>6. CASE WaitRefusesStop
    BY <1>6 DEF WaitRefusesStop, AnswerStop, TakeUrgent, MotionsQuiet, MotionsUnchanged, Ledger,
        channelVars, auxVars
<1>7. CASE WaitRefusesMotion
    BY <1>7 DEF WaitRefusesMotion, AnswerMotion, MotionRefused, Ledger,
        channelVars, auxVars
<1>8. CASE Retry
    BY <1>8 DEF Retry, MotionsQuiet, MotionsUnchanged, Ledger,
        channelVars, auxVars
<1>9. CASE StopsUnconnected
    BY <1>9 DEF StopsUnconnected, TakeUrgent, MotionsQuiet, MotionsUnchanged, Ledger,
        channelVars, auxVars
<1>10. CASE TakesStop
    BY <1>10 DEF TakesStop, Serving, TakeUrgent, MotionsQuiet, MotionsUnchanged, Ledger,
        channelVars, auxVars
<1>11. CASE TakesShutdown
    BY <1>11 DEF TakesShutdown, LeaveConnection, NoCommand, Serving, TakeUrgent, MotionsQuiet, MotionsUnchanged, Ledger,
        channelVars, auxVars
<1>12. CASE RefusesMotion
    BY <1>12 DEF RefusesMotion, BackToLoop, AnswerMotion, Serving, MotionRefused, Ledger,
        channelVars, auxVars
<1>13. CASE ExecutesMotion
    BY <1>13 DEF ExecutesMotion, Serving, MotionBegins, MotionsUnchanged, Ledger,
        channelVars, auxVars
<1>14. CASE Wakes
    BY <1>14 DEF Wakes, MotionsQuiet, MotionsUnchanged, Ledger,
        channelVars, auxVars
<1>15. CASE MotionSucceeds
    BY <1>15 DEF MotionSucceeds, BackToLoop, NoCommand, AnswerMotion, MotionEnds, Ledger,
        channelVars, auxVars
<1>16. CASE MotionFails
    BY <1>16 DEF MotionFails, LeaveConnection, NoCommand, AnswerMotion, MotionEnds, Ledger,
        channelVars, auxVars
<1>17. CASE StopPreempts
    BY <1>17 DEF StopPreempts, PreemptMotion, TakeUrgent, MotionEnds, Ledger,
        channelVars, auxVars
<1>18. CASE ShutdownPreempts
    BY <1>18 DEF ShutdownPreempts, LeaveConnection, NoCommand, PreemptMotion, TakeUrgent, MotionEnds, Ledger,
        channelVars, auxVars
<1>19. CASE HaltSucceeds
    BY <1>19 DEF HaltSucceeds, BackToLoop, NoCommand, AnswerStop, MotionsQuiet, MotionsUnchanged, Ledger,
        channelVars, auxVars
<1>20. CASE HaltFails
    BY <1>20 DEF HaltFails, LeaveConnection, NoCommand, AnswerStop, MotionsQuiet, MotionsUnchanged, Ledger,
        channelVars, auxVars
<1>21. CASE StartsPoll
    BY <1>21 DEF StartsPoll, MotionsQuiet, MotionsUnchanged, Ledger,
        channelVars, auxVars
<1>22. CASE \E t \in Samples, c \in Counters : PollAnswers(t, c)
    BY <1>22 DEF PollAnswers, BackToLoop, MotionsQuiet, MotionsUnchanged, Ledger,
        channelVars, auxVars
<1>23. CASE PollFails
    BY <1>23 DEF PollFails, LeaveConnection, NoCommand, MotionsQuiet, MotionsUnchanged, Ledger,
        channelVars, auxVars
<1>24. CASE Disconnects
    BY <1>24 DEF Disconnects, StartWaiting, MotionsQuiet, MotionsUnchanged, Ledger,
        channelVars, auxVars
<1>25. CASE \E r \in Request : Send(r)
    <2> SUFFICES ASSUME NEW r \in Request, Send(r)
                 PROVE  MotionsQuiet \/ MotionSent
        BY <1>25
    <2>1. CASE r = StopRequest
        BY <2>1 DEF Send, MotionsQuiet, MotionsUnchanged, Ledger
    <2>2. CASE r # StopRequest
        <3>1. r \in MotionRequest
            BY <2>2 DEF Request
        <3>2. normal' = Append(normal, r)
            BY <2>2 DEF Send
        <3>3. /\ ledger'.sentMotions = ledger.sentMotions + 1
              /\ ledger'.answeredMotions = ledger.answeredMotions
              /\ ledger'.preempted = ledger.preempted
            BY <2>2 DEF Send, Ledger
        <3> QED BY <3>1, <3>2, <3>3 DEF Send, MotionSent
    <2> QED BY <2>1, <2>2
<1>26. CASE RequestShutdown
    BY <1>26 DEF RequestShutdown, MotionsQuiet, MotionsUnchanged, Ledger,
        channelVars, auxVars
<1>27. CASE Abort
    BY <1>27 DEF Abort, FreshConnection, NoCommand, MotionsQuiet, MotionsUnchanged, Ledger,
        channelVars, auxVars
<1>28. CASE TickService /\ UNCHANGED events
    BY <1>28 DEF TickService, MotionsQuiet, MotionsUnchanged, Ledger,
        channelVars, auxVars
<1>29. CASE ReadsEvent
    BY <1>29 DEF ReadsEvent, MotionsQuiet, MotionsUnchanged, Ledger,
        channelVars, auxVars
<1>30. CASE UNCHANGED serviceVars
    BY <1>30 DEF serviceVars, MotionsQuiet, MotionsUnchanged, Ledger,
        channelVars, auxVars
<1> QED
    BY <1>1, <1>2, <1>3, <1>4, <1>5, <1>6, <1>7, <1>8, <1>9, <1>10, <1>11, <1>12, <1>13, <1>14, <1>15, <1>16, <1>17, <1>18, <1>19, <1>20, <1>21, <1>22, <1>23, <1>24, <1>25, <1>26, <1>27, <1>28, <1>29, <1>30
    DEF Next, ServiceStep, Handles, PadAnswers

-----------------------------------------------------------------------------
(* No motion request is lost or answered twice.                            *)

MotionInv == TypeOK /\ RequestInHand /\ MotionsAreAccounted

LEMMA MotionInvInit == Init => MotionInv
<1> SUFFICES ASSUME Init PROVE MotionInv
    OBVIOUS
<1>1. Len(normal) = 0
    BY DEF Init
<1>2. MotionsAreAccounted
    BY <1>1 DEF Init, NewLedger, MotionsAreAccounted
<1> QED BY <1>2, TypeInit DEF Init, MotionInv, RequestInHand

LEMMA MotionInvStep == MotionInv /\ [Next]_serviceVars => MotionInv'
<1> SUFFICES ASSUME MotionInv, [Next]_serviceVars PROVE MotionInv'
    OBVIOUS
<1> USE DEF MotionInv
<1>1. TypeOK' /\ RequestInHand'
    BY TypeStep, RequestInHandStep
<1>2. /\ ledger.sentMotions \in Int /\ ledger.answeredMotions \in Int
      /\ ledger.preempted \in Int
    BY DEF TypeOK, Ledger
<1>3. /\ ledger'.sentMotions \in Int /\ ledger'.answeredMotions \in Int
      /\ ledger'.preempted \in Int
    BY <1>1 DEF TypeOK, Ledger
<1>4. Len(normal) \in Nat
    BY LenProperties DEF TypeOK
<1>5. TakeNormal => Len(normal') = Len(normal) - 1
    BY HeadTailProperties DEF TakeNormal, TypeOK
<1>6. CASE MotionsQuiet
    BY <1>1, <1>6 DEF MotionsQuiet, MotionsUnchanged, MotionsAreAccounted
<1>7. CASE MotionRefused
    <2>1. /\ Len(normal') = Len(normal) - 1
          /\ phase # "stopped" /\ phase # "executing" /\ phase' # "executing"
        BY <1>5, <1>7 DEF MotionRefused
    <2>2. ledger.sentMotions = ledger.answeredMotions + ledger.preempted + Len(normal)
        BY <1>2, <1>4, <2>1 DEF MotionsAreAccounted
    <2>3. ledger'.sentMotions
              = ledger'.answeredMotions + ledger'.preempted + Len(normal')
        BY <1>2, <1>4, <1>7, <2>1, <2>2 DEF MotionRefused
    <2>4. MotionsAreAccounted'
        BY <1>3, <2>1, <2>3 DEF MotionsAreAccounted
    <2> QED BY <1>1, <2>4
<1>8. CASE MotionBegins
    BY <1>1, <1>2, <1>4, <1>5, <1>8 DEF MotionBegins, MotionsUnchanged, MotionsAreAccounted
<1>9. CASE MotionEnds
    BY <1>1, <1>2, <1>3, <1>4, <1>9 DEF MotionEnds, MotionsAreAccounted
<1>10. CASE MotionSent
    <2>1. Len(normal') = Len(normal) + 1
        BY <1>10, AppendProperties DEF MotionSent, TypeOK
    <2> QED BY <1>1, <1>2, <1>4, <1>10, <2>1 DEF MotionSent, MotionsAreAccounted
<1> QED BY <1>6, <1>7, <1>8, <1>9, <1>10, MotionAccountStep

\* Every motion request is in the channel, on the link, preempted or answered,
\* and counted once.
THEOREM NoMotionIsLost == Spec => []MotionsAreAccounted
<1>1. MotionInv => MotionsAreAccounted
    BY DEF MotionInv
<1> QED BY <1>1, MotionInvInit, MotionInvStep, PTL DEF Spec

\* No request of any kind gets lost on any path of the task.
THEOREM NoRequestIsLost == Spec => []RequestsAreAccounted
<1>1. StopsAreAccounted /\ MotionsAreAccounted => RequestsAreAccounted
    BY DEF RequestsAreAccounted
<1> QED BY <1>1, NoStopIsLost, NoMotionIsLost, PTL

-----------------------------------------------------------------------------
(***************************************************************************)
(* Deck and task together.  The updates on their way to the runtime carry  *)
(* the argument.  The last connection among them, or what the deck shows   *)
(* if there is none, is the connection of the task; and a command that     *)
(* waits for its answer has it in a channel, in hand, or among them.       *)
(***************************************************************************)
-----------------------------------------------------------------------------
(* The deck's own operators.                                                *)

LEMMA RequestForType ==
    ASSUME NEW c \in Command, NEW speed \in Nat
    PROVE  RequestFor(c, speed) \in Request \cup {None}
<1>. USE TypesAssumption, DeckAssumption
<1>. DEFINE moving == AtMost(AtLeast(speed, MinSpeed), MaxSpeed)
<1>1. moving \in Speeds
  BY DEF AtMost, AtLeast, Speeds
<1>2. \A n \in Speeds : SetSpeedRequest(n) \in Request
  BY DEF Request, MotionRequest
<1>3. StartRequest \in Request /\ StopRequest \in Request
  BY DEF Request, MotionRequest
<1>4. moving < MaxSpeed => AtMost(moving + SpeedStep, MaxSpeed) \in Speeds
  BY <1>1 DEF AtMost, Speeds
<1>5. moving > MinSpeed => AtLeast(moving - SpeedStep, MinSpeed) \in Speeds
  BY <1>1 DEF AtLeast, Speeds
<1>. HIDE DEF moving
<1>6. RequestFor(c, speed) =
          CASE c.op = "Stop" -> StopRequest
            [] c.op = "Start" /\ speed = 0 -> StartRequest
            [] c.op = "Increase" /\ speed # 0 /\ moving < MaxSpeed ->
                   SetSpeedRequest(AtMost(moving + SpeedStep, MaxSpeed))
            [] c.op = "Decrease" /\ speed # 0 /\ moving > MinSpeed ->
                   SetSpeedRequest(AtLeast(moving - SpeedStep, MinSpeed))
            [] c.op = "SetSpeed" /\ speed # 0 /\ c.tenths \in Speeds ->
                   SetSpeedRequest(c.tenths)
            [] OTHER -> None
  BY DEF RequestFor, moving
<1>7. CASE c.op = "Stop"
  BY <1>3, <1>6, <1>7
<1>8. CASE c.op = "Start" /\ speed = 0
  BY <1>3, <1>6, <1>8
<1>9. CASE c.op = "Increase" /\ speed # 0 /\ moving < MaxSpeed
  BY <1>2, <1>4, <1>6, <1>9
<1>10. CASE c.op = "Decrease" /\ speed # 0 /\ moving > MinSpeed
  BY <1>2, <1>5, <1>6, <1>10
<1>11. CASE c.op = "SetSpeed" /\ speed # 0 /\ c.tenths \in Speeds
  BY <1>2, <1>6, <1>11
<1>12. CASE /\ ~(c.op = "Stop")
            /\ ~(c.op = "Start" /\ speed = 0)
            /\ ~(c.op = "Increase" /\ speed # 0 /\ moving < MaxSpeed)
            /\ ~(c.op = "Decrease" /\ speed # 0 /\ moving > MinSpeed)
            /\ ~(c.op = "SetSpeed" /\ speed # 0 /\ c.tenths \in Speeds)
  BY <1>6, <1>12
<1>. QED  BY <1>7, <1>8, <1>9, <1>10, <1>11, <1>12

LEMMA ControlSpeedType ==
    ASSUME NEW t \in Telemetry
    PROVE  ControlSpeed(t) \in Nat
  BY TypesAssumption DEF ControlSpeed, Telemetry, Speeds

\* What prepare returns is a request.
LEMMA RequestedType ==
    ASSUME NEW s \in DeckState, NEW c \in Command
    PROVE  Requested(s, c) \in Request \cup {None}
<1>1. CASE ~MayAsk(s, c) \/ c = StopCommand
  BY <1>1 DEF Requested, Request
<1>2. CASE MayAsk(s, c) /\ c # StopCommand
  <2>1. s.status \in AgedTelemetry
    BY <1>2 DEF MayAsk, HasFreshStatus, DeckState
  <2>2. s.status.telemetry \in Telemetry
    BY <2>1 DEF AgedTelemetry
  <2>3. Requested(s, c) = RequestFor(c, ControlSpeed(s.status.telemetry))
    BY <1>2 DEF Requested
  <2>. QED  BY <2>2, <2>3, RequestForType, ControlSpeedType
<1>. QED  BY <1>1, <1>2

LEMMA AwaitType ==
    ASSUME NEW s \in DeckState, NEW c \in Command, NEW r \in Request
    PROVE  /\ AwaitAnswer(s, c, r) \in DeckState
           /\ AwaitAnswer(s, c, r).pending # None
           /\ AwaitAnswer(s, c, r).pending.request = r
           /\ AwaitAnswer(s, c, r).connection = s.connection
<1>. DEFINE p == [ source |-> c, request |-> r, awaiting |-> FALSE, dueIn |-> ConfirmWithin ]
<1>1. p \in Pending /\ p.request = r
  BY DeckAssumption, TypesAssumption DEF Pending
<1>2. p # None
  BY <1>1, DeckNoneAssumption
<1>3. AwaitAnswer(s, c, r) = [s EXCEPT !.feedback = None, !.pending = p]
  BY DEF AwaitAnswer
<1>. HIDE DEF p
<1>. QED  BY <1>1, <1>2, <1>3 DEF DeckState

LEMMA RejectType ==
    ASSUME NEW s \in DeckState, NEW c \in Command
    PROVE  /\ Reject(s, c) \in DeckState
           /\ Reject(s, c).pending = s.pending
           /\ Reject(s, c).connection = s.connection
           /\ Reject(s, c).feedback # None
  BY DeckNoneAssumption DEF Reject, DeckState

LEMMA DropType ==
    ASSUME NEW s \in DeckState
    PROVE  [s EXCEPT !.pending = None] \in DeckState
  BY DEF DeckState

\* A wait that ends, ends visibly.
Ends(s, t) ==
    s.pending # None /\ t.pending = None =>
        \/ t.feedback # None
        \/ s.pending.awaiting /\ Confirms(s.pending.request, t.status.telemetry)

\* What a step of the deck may do to the command it waits for.
Waits(s, t) ==
    \/ t.pending = None
    \/ /\ s.pending # None
       /\ t.pending.request = s.pending.request
       /\ s.pending.awaiting => t.pending.awaiting

LEMMA ConnectionStep ==
    ASSUME NEW s \in DeckState, NEW c \in Connections
    PROVE  /\ ConnectionChanged(s, c) \in DeckState
           /\ ConnectionChanged(s, c).connection = c
           /\ c # "Connected" => ConnectionChanged(s, c).pending = None
           /\ Waits(s, ConnectionChanged(s, c))
           /\ Ends(s, ConnectionChanged(s, c))
<1>. DEFINE told == [s EXCEPT !.connection = c]
            dropped == [told EXCEPT !.pending = None]
<1>1. told \in DeckState /\ told.pending = s.pending /\ told.connection = c
  BY DEF DeckState
<1>2. ConnectionChanged(s, c) =
        IF c = "Connected" \/ s.pending = None THEN told ELSE Reject(dropped, s.pending.source)
  BY DEF ConnectionChanged
<1>. HIDE DEF told
<1>3. dropped \in DeckState /\ dropped.pending = None /\ dropped.connection = c
  BY <1>1, DropType DEF DeckState
<1>. HIDE DEF dropped
<1>4. CASE c = "Connected" \/ s.pending = None
  BY <1>1, <1>2, <1>4 DEF Waits, Ends
<1>5. CASE ~(c = "Connected" \/ s.pending = None)
  <2>1. s.pending.source \in Command
    BY <1>5 DEF DeckState, Pending
  <2>. QED  BY <1>2, <1>3, <1>5, <2>1, RejectType DEF Waits, Ends
<1>. QED  BY <1>4, <1>5

LEMMA SucceededStep ==
    ASSUME NEW s \in DeckState, NEW r \in Request
    PROVE  /\ CommandSucceeded(s, r) \in DeckState
           /\ CommandSucceeded(s, r).connection = s.connection
           /\ Waits(s, CommandSucceeded(s, r))
           /\ Ends(s, CommandSucceeded(s, r))
           /\ s.pending # None /\ s.pending.request = r =>
                  CommandSucceeded(s, r).pending.awaiting
<1>1. CASE s.pending # None /\ s.pending.request = r
  <2>. DEFINE p == [s.pending EXCEPT !.awaiting = TRUE]
  <2>1. s.pending \in Pending
    BY <1>1 DEF DeckState
  <2>2. p \in Pending /\ p.request = r /\ p.awaiting
    BY <1>1, <2>1 DEF Pending
  <2>3. p # None
    BY <2>2, DeckNoneAssumption
  <2>4. CommandSucceeded(s, r) = [s EXCEPT !.pending = p]
    BY <1>1 DEF CommandSucceeded
  <2>. HIDE DEF p
  <2>5. /\ [s EXCEPT !.pending = p] \in DeckState
        /\ [s EXCEPT !.pending = p].pending = p
        /\ [s EXCEPT !.pending = p].connection = s.connection
    BY <2>2 DEF DeckState
  <2>. QED  BY <1>1, <2>2, <2>3, <2>4, <2>5 DEF Waits, Ends
<1>2. CASE ~(s.pending # None /\ s.pending.request = r)
  BY <1>2 DEF CommandSucceeded, Waits, Ends
<1>. QED  BY <1>1, <1>2

LEMMA FailedStep ==
    ASSUME NEW s \in DeckState, NEW r \in Request
    PROVE  /\ CommandFailed(s, r) \in DeckState
           /\ CommandFailed(s, r).connection = s.connection
           /\ CommandFailed(s, r).pending = None
           /\ CommandFailed(s, r).feedback # None
<1>. DEFINE blamed == IF s.pending # None /\ s.pending.request = r
                      THEN s.pending.source ELSE CommandFor(r)
            dropped == [s EXCEPT !.pending = None]
<1>1. r \in Command
  BY TypesAssumption
     DEF Request, MotionRequest, Command, StartRequest, StopRequest, SetSpeedRequest,
         StartCommand, StopCommand, SetSpeedCommand, Speeds
<1>2. blamed \in Command
  BY <1>1 DEF CommandFor, DeckState, Pending
<1>3. dropped \in DeckState /\ dropped.pending = None /\ dropped.connection = s.connection
  BY DEF DeckState
<1>4. CommandFailed(s, r) = Reject(dropped, blamed)
  BY DEF CommandFailed
<1>. HIDE DEF blamed, dropped
<1>. QED  BY <1>2, <1>3, <1>4, RejectType

\* Settling leaves the connection alone, and ends only a wait for confirmation.
LEMMA SettleStep ==
    ASSUME NEW s \in DeckState, NEW t \in Telemetry, NEW age \in Nat
    PROVE  /\ SettlePending(s, t, age) \in DeckState
           /\ SettlePending(s, t, age).connection = s.connection
           /\ Waits(s, SettlePending(s, t, age))
           /\ s.pending # None /\ ~s.pending.awaiting => SettlePending(s, t, age) = s
           /\ s.pending # None /\ SettlePending(s, t, age).pending = None =>
                \/ SettlePending(s, t, age).feedback # None
                \/ s.pending.awaiting /\ Confirms(s.pending.request, t)
<1>. DEFINE u == SettlePending(s, t, age)
            dropped == [s EXCEPT !.pending = None]
<1>1. dropped \in DeckState /\ dropped.pending = None /\ dropped.connection = s.connection
  BY DEF DeckState
<1>2. u = IF s.pending = None \/ ~s.pending.awaiting THEN s
          ELSE IF Confirms(s.pending.request, t) THEN dropped
          ELSE IF s.pending.dueIn + age > 0 THEN s
          ELSE Reject(dropped, s.pending.source)
  BY DEF SettlePending
<1>. HIDE DEF u, dropped
<1>3. CASE u = s
  BY <1>3 DEF Waits, u
<1>4. CASE s.pending # None /\ s.pending.awaiting /\ Confirms(s.pending.request, t)
  <2>1. u = dropped
    BY <1>2, <1>4
  <2>. QED  BY <1>1, <1>4, <2>1 DEF Waits, u
<1>5. CASE s.pending # None /\ s.pending.awaiting /\ u = Reject(dropped, s.pending.source)
  <2>1. s.pending.source \in Command
    BY <1>5 DEF DeckState, Pending
  <2>. QED  BY <1>1, <1>5, <2>1, RejectType DEF Waits, u
<1>. QED  BY <1>2, <1>3, <1>4, <1>5

LEMMA StatusStep ==
    ASSUME NEW s \in DeckState, NEW t \in Telemetry, NEW age \in 0..MaxLag
    PROVE  /\ ApplyStatus(s, t, age) \in DeckState
           /\ s.connection \in {"Connected", "Faulted"} =>
                ApplyStatus(s, t, age).connection = s.connection
           /\ ApplyStatus(s, t, age).connection = "Faulted" => s.connection = "Faulted"
           /\ Waits(s, ApplyStatus(s, t, age))
           /\ s.pending # None /\ ~s.pending.awaiting =>
                  ApplyStatus(s, t, age).pending = s.pending
           /\ Ends(s, ApplyStatus(s, t, age))
<1>. DEFINE u == SettlePending(s, t, age)
            status == [telemetry |-> t, age |-> age]
            connection == IF u.connection = "Faulted" THEN u.connection ELSE "Connected"
            v == ApplyStatus(s, t, age)
<1>1. age \in Nat /\ age \in 0..(StaleAfter + 1)
  BY DeckAssumption, TypesAssumption
<1>2. /\ u \in DeckState
      /\ u.connection = s.connection
      /\ Waits(s, u)
      /\ s.pending # None /\ ~s.pending.awaiting => u = s
      /\ s.pending # None /\ u.pending = None =>
            \/ u.feedback # None
            \/ s.pending.awaiting /\ Confirms(s.pending.request, t)
  BY <1>1, SettleStep
<1>3. status \in AgedTelemetry /\ status.telemetry = t
  BY <1>1 DEF AgedTelemetry
<1>4. v = [u EXCEPT !.status = status, !.connection = connection]
  BY DEF ApplyStatus
<1>5. connection \in Connections
  BY <1>2 DEF DeckState, Connections
<1>. HIDE DEF u, v, status
<1>6. /\ v \in DeckState
      /\ v.status = status
      /\ v.connection = connection
      /\ v.pending = u.pending
      /\ v.feedback = u.feedback
  BY <1>2, <1>3, <1>4, <1>5 DEF DeckState
<1>7. Ends(s, v)
  BY <1>2, <1>3, <1>6 DEF Ends
<1>8. Waits(s, v)
  BY <1>2, <1>6 DEF Waits
<1>. QED  BY <1>2, <1>6, <1>7, <1>8 DEF v

LEMMA AgedDeckType ==
    ASSUME NEW s \in DeckState
    PROVE  /\ AgedDeck(s) \in DeckState
           /\ AgedDeck(s).connection = s.connection
           /\ AgedDeck(s).pending = None <=> s.pending = None
           /\ s.pending # None =>
                /\ AgedDeck(s).pending.request = s.pending.request
                /\ AgedDeck(s).pending.awaiting = s.pending.awaiting
<1>. DEFINE status == IF s.status # None /\ s.status.age <= StaleAfter
                      THEN [s.status EXCEPT !.age = s.status.age + 1] ELSE s.status
            pending == IF s.pending # None /\ s.pending.dueIn > -MaxLag
                       THEN [s.pending EXCEPT !.dueIn = s.pending.dueIn - 1] ELSE s.pending
<1>1. AgedDeck(s) = [s EXCEPT !.status = status, !.pending = pending]
  BY DEF AgedDeck
<1>2. status \in AgedTelemetry \cup {None}
  <2>1. s.status \in AgedTelemetry \cup {None}
    BY DEF DeckState
  <2>2. CASE s.status # None /\ s.status.age <= StaleAfter
    BY <2>1, <2>2, AgedTelemetryType
  <2>3. CASE ~(s.status # None /\ s.status.age <= StaleAfter)
    BY <2>1, <2>3
  <2>. QED  BY <2>2, <2>3
<1>3. /\ pending \in Pending \cup {None}
      /\ pending = None <=> s.pending = None
      /\ s.pending # None => /\ pending.request = s.pending.request
                             /\ pending.awaiting = s.pending.awaiting
  <2>1. CASE s.pending # None /\ s.pending.dueIn > -MaxLag
    <3>. DEFINE p == [s.pending EXCEPT !.dueIn = s.pending.dueIn - 1]
    <3>1. s.pending \in Pending
      BY <2>1 DEF DeckState
    <3>2. MaxLag \in Nat /\ ConfirmWithin \in Nat
      BY DeckAssumption, TypesAssumption
    <3>3. s.pending.dueIn - 1 \in (-MaxLag)..ConfirmWithin
      BY <2>1, <3>1, <3>2 DEF Pending
    <3>4. /\ p \in Pending
          /\ p.request = s.pending.request
          /\ p.awaiting = s.pending.awaiting
      BY <3>1, <3>3 DEF Pending
    <3>5. p # None
      BY <3>4, DeckNoneAssumption
    <3>6. pending = p
      BY <2>1
    <3>. HIDE DEF p, pending
    <3>. QED  BY <2>1, <3>4, <3>5, <3>6
  <2>2. CASE ~(s.pending # None /\ s.pending.dueIn > -MaxLag)
    BY <2>2 DEF DeckState
  <2>. QED  BY <2>1, <2>2
<1>. HIDE DEF status, pending
<1>. QED  BY <1>1, <1>2, <1>3 DEF DeckState

-----------------------------------------------------------------------------
(* What the updates promise, and what the task is doing while the daemon    *)
(* runs: nobody asks it to shut down, and it holds a request only while it  *)
(* carries it out.                                                          *)

ServiceInv ==
    /\ TypeOK
    /\ RequestInHand
    /\ phase # "executing" => inHand = None
    /\ urgent \in Seq({"Stop"})
    /\ ~exiting
    /\ phase # "stopped"

Promises(q) ==
    \A i \in DOMAIN q : q[i].type = "Status" => q[i].age \in 0..MaxLag

LEMMA NotShutdown ==
    ASSUME ServiceInv, TakeUrgent("Shutdown")
    PROVE  FALSE
BY HeadTailProperties DEF ServiceInv, TakeUrgent

LEMMA ServiceInvInit == Init => ServiceInv
<1> SUFFICES ASSUME Init PROVE ServiceInv
    OBVIOUS
<1>1. <<>> \in Seq({"Stop"})
    OBVIOUS
<1> QED BY <1>1, TypeInit DEF Init, ServiceInv, RequestInHand

\* A step of the task, or a request sent to it, apart from its type.
LEMMA ServiceInvStep ==
    ASSUME ServiceInv,
           \/ ServiceStep \/ \E r \in Request : Send(r)
           \/ ReadsEvent \/ UNCHANGED serviceVars
    PROVE  ServiceInv'
<1>1. [Next]_serviceVars
    BY DEF Next
<1>2. TypeOK' /\ RequestInHand'
    BY <1>1, TypeStep, RequestInHandStep DEF ServiceInv
<1> DEFINE Rest == /\ phase # "executing" => inHand = None
                   /\ urgent \in Seq({"Stop"})
                   /\ ~exiting
                   /\ phase # "stopped"
<1>3. Rest
    BY DEF ServiceInv
<1>4. CASE UNCHANGED <<urgent, phase, inHand, exiting>>
    BY <1>3, <1>4, <1>2 DEF ServiceInv
<1>5. CASE \E r \in Request : Send(r)
    <2>1. UNCHANGED <<phase, inHand, exiting>>
        BY <1>5 DEF Send, commandVars
    <2>2. urgent' \in Seq({"Stop"})
        BY <1>3, <1>5, AppendProperties DEF Send
    <2> QED BY <1>2, <1>3, <2>1, <2>2 DEF ServiceInv
<1>6. ASSUME ServiceStep
      PROVE  Rest'
    <2>1. CASE TakeUrgent("Stop") /\ (ConnectRefusesStop \/ WaitRefusesStop)
        BY <1>3, <2>1, HeadTailProperties
        DEF ConnectRefusesStop, WaitRefusesStop, TakeUrgent, commandVars
    <2>2. CASE TakesStop \/ StopPreempts
        BY <1>3, <2>2, HeadTailProperties
        DEF TakesStop, StopPreempts, TakeUrgent, Serving, commandVars
    <2>3. CASE ConnectRefusesMotion \/ WaitRefusesMotion
        BY <1>3, <2>3 DEF ConnectRefusesMotion, WaitRefusesMotion, TakeNormal, commandVars
    <2>4. CASE RefusesMotion \/ ExecutesMotion
        BY <1>3, <2>4 DEF RefusesMotion, ExecutesMotion, TakeNormal, Serving, BackToLoop, commandVars
    <2>5. CASE Retry \/ ConnectOpens \/ ConnectFails \/ StartsPoll
        BY <1>3, <2>5
        DEF Retry, ConnectOpens, ConnectFails, StartsPoll, StartWaiting, channelVars, commandVars
    <2>6. CASE StopsUnconnected \/ TakesShutdown \/ ShutdownPreempts
        BY <2>6, NotShutdown DEF StopsUnconnected, TakesShutdown, ShutdownPreempts
    <2>7. CASE AcquireLock \/ Wakes
        BY <1>3, <2>7 DEF AcquireLock, Wakes, channelVars, commandVars
    <2>8. CASE MotionSucceeds \/ HaltSucceeds
        BY <1>3, <2>8 DEF MotionSucceeds, HaltSucceeds, BackToLoop, NoCommand, channelVars
    <2>9. CASE MotionFails \/ HaltFails \/ PollFails
        BY <1>3, <2>9
        DEF MotionFails, HaltFails, PollFails, LeaveConnection, NoCommand, channelVars
    <2>10. CASE \E t \in Samples, c \in Counters : PollAnswers(t, c)
        BY <1>3, <2>10 DEF PollAnswers, BackToLoop, channelVars, commandVars
    <2>11. CASE Disconnects
        BY <1>3, <2>11 DEF Disconnects, StartWaiting, channelVars, commandVars
    <2>12. ConnectRefusesStop => TakeUrgent("Stop")
        BY DEF ConnectRefusesStop
    <2>13. WaitRefusesStop => TakeUrgent("Stop")
        BY DEF WaitRefusesStop
    <2> QED
        BY <1>6, <2>1, <2>2, <2>3, <2>4, <2>5, <2>6, <2>7, <2>8, <2>9, <2>10, <2>11, <2>12, <2>13
        DEF ServiceStep, Handles, PadAnswers
<1>7. CASE ServiceStep
    BY <1>2, <1>6, <1>7 DEF ServiceInv
<1>8. CASE ReadsEvent
    BY <1>4, <1>8 DEF ReadsEvent, channelVars, commandVars
<1>9. CASE UNCHANGED serviceVars
    BY <1>4, <1>9 DEF serviceVars
<1> QED BY <1>5, <1>7, <1>8, <1>9

\* The clock ages the updates on their way, and changes nothing else of them.
LEMMA OlderType ==
    ASSUME NEW u \in Update
    PROVE  /\ Older(u) \in Update
           /\ Older(u).type = u.type
           /\ u.type = "Connection" => Older(u).state = u.state
           /\ u.type \in {"Succeeded", "Failed"} => Older(u).request = u.request
           /\ u.type = "Status" => Older(u).age = u.age + 1
<1>1. CASE u.type = "Status"
    <2>1. u \in [type : {"Status"}, telemetry : Telemetry, age : Nat]
        BY <1>1 DEF Update
    <2>2. Older(u) = [u EXCEPT !.age = u.age + 1]
        BY <1>1 DEF Older
    <2> QED BY <1>1, <2>1, <2>2 DEF Update
<1>2. CASE u.type # "Status"
    BY <1>2 DEF Older
<1> QED BY <1>1, <1>2

LEMMA ServiceInvTick ==
    ASSUME ServiceInv, Tick
    PROVE  ServiceInv'
<1>1. lastStatus' \in AgedTelemetry \cup {None}
    BY AgedTelemetryType DEF Tick, TickService, ServiceInv, TypeOK
<1>2. watchdog' \in Watchdog
    BY WatchdogAgedType DEF Tick, TickService, ServiceInv, TypeOK
<1>3. pollIn' \in 0..PollInterval /\ retryIn' \in 0..RetryMax
    BY ServiceAssumption DEF Tick, TickService, ServiceInv, TypeOK
<1>4. events' \in Seq(Update) /\ Len(events') <= MaxEvents
    <2>1. /\ events \in Seq(Update) /\ Len(events) <= MaxEvents
          /\ Len(events) \in Nat /\ DOMAIN events = 1..Len(events)
        BY LenProperties DEF ServiceInv, TypeOK
    <2>2. \A i \in 1..Len(events) : Older(events[i]) \in Update
        BY <2>1, OlderType
    <2>3. events' = [i \in 1..Len(events) |-> Older(events[i])]
        BY <2>1 DEF Tick
    <2>4. Len(events') = Len(events) /\ events' \in Seq(Update)
        BY <2>1, <2>2, <2>3
    <2> QED BY <2>1, <2>4
<1> QED
    BY <1>1, <1>2, <1>3, <1>4
    DEF Tick, TickService, ServiceInv, TypeOK, RequestInHand, channelVars, commandVars, auxVars

-----------------------------------------------------------------------------
(* What a step of the task publishes, by what it means to the deck.         *)

\* The two announcements of a connection that serves requests.
Serves == Announced \subseteq {"Connected", "Faulted"}

\* A step of the task: what it appends to the updates, and what becomes of the
\* connection it last announced.
Appends(us) == events' = events \o us

TaskSays ==
    \/ UNCHANGED events /\ Announced \subseteq Announced'
    \/ \E r \in Request : /\ Appends(<<Failed(r)>>) \/ Appends(<<Succeeded(r)>>)
                          /\ Announced' = Announced
    \/ \E c \in Connections : /\ c \in Announced'
                              /\ \/ Appends(<<Connection(c)>>)
                                 \/ \E r \in Request : Appends(<<Failed(r), Connection(c)>>)
                                 \/ \E t \in Telemetry : Appends(<<Status(t), Connection(c)>>)
    \/ \E t \in Telemetry : /\ Appends(<<Status(t)>>)
                            /\ Announced' = Announced
                            /\ Serves

\* Announced, phase by phase.
LEMMA AnnouncedBy ==
    /\ phase = "connecting" => Announced = {"Connecting"}
    /\ phase = "closing" => Announced = {"Disconnected"}
    /\ phase = "waiting" => Announced = {"Disconnected", "Locked"}
    /\ phase \in {"connected", "polling", "executing", "stopping"} =>
          /\ motionFault => Announced = {"Faulted"}
          /\ ~motionFault => Announced = {"Connected"}
<1>1. CASE phase = "connecting"
    BY <1>1 DEF Announced
<1>2. CASE phase = "closing"
    BY <1>2 DEF Announced
<1>3. CASE phase = "waiting"
    BY <1>3 DEF Announced
<1>4. ASSUME phase \in {"connected", "polling", "executing", "stopping"}
      PROVE  /\ motionFault => Announced = {"Faulted"}
             /\ ~motionFault => Announced = {"Connected"}
    <2>1. phase # "connecting" /\ phase # "closing" /\ phase # "waiting"
        BY <1>4
    <2> QED BY <2>1 DEF Announced
<1> QED BY <1>1, <1>2, <1>3, <1>4

LEMMA AnnouncedNext ==
    /\ phase' = "connecting" => Announced' = {"Connecting"}
    /\ phase' = "closing" => Announced' = {"Disconnected"}
    /\ phase' = "waiting" => Announced' = {"Disconnected", "Locked"}
    /\ phase' \in {"connected", "polling", "executing", "stopping"} =>
          /\ motionFault' => Announced' = {"Faulted"}
          /\ ~motionFault' => Announced' = {"Connected"}
<1>1. CASE phase' = "connecting"
    BY <1>1 DEF Announced
<1>2. CASE phase' = "closing"
    BY <1>2 DEF Announced
<1>3. CASE phase' = "waiting"
    BY <1>3 DEF Announced
<1>4. ASSUME phase' \in {"connected", "polling", "executing", "stopping"}
      PROVE  /\ motionFault' => Announced' = {"Faulted"}
             /\ ~motionFault' => Announced' = {"Connected"}
    <2>1. phase' # "connecting" /\ phase' # "closing" /\ phase' # "waiting"
        BY <1>4
    <2> QED BY <2>1 DEF Announced
<1> QED BY <1>1, <1>2, <1>3, <1>4

\* The verdict on a sample and the fault the task keeps say the same.
LEMMA VerdictIsAnnounced ==
    ASSUME TypeOK, NEW t \in Telemetry, NEW c \in Counters, PollAnswers(t, c)
    PROVE  TaskSays
<1> DEFINE o == Observation(watchdog, t, c)
<1>1. Publish(<<Status(t)>> \o Verdict(o))
    BY DEF PollAnswers
<1>2. phase = "polling" /\ phase' = "connected"
    BY DEF PollAnswers, BackToLoop
<1>3. motionFault' = CASE o = "FaultDetected" -> TRUE
                       [] o = "Recovered"     -> FALSE
                       [] OTHER               -> motionFault
    BY DEF PollAnswers
<1> HIDE DEF o
<1>4. Status(t) \in Update /\ Connection("Faulted") \in Update /\ Connection("Connected") \in Update
    BY UpdateType DEF Connections
<1>5. CASE o = "FaultDetected"
    <2>1. Verdict(o) = <<Connection("Faulted")>> /\ motionFault' = TRUE
        BY <1>3, <1>5 DEF Verdict
    <2>2. <<Status(t)>> \o Verdict(o) = <<Status(t), Connection("Faulted")>>
        BY <1>4, <2>1, PairIsConcat
    <2>3. "Faulted" \in Announced' /\ "Faulted" \in Connections
        BY <1>2, <2>1, AnnouncedNext DEF Connections
    <2>4. Appends(<<Status(t), Connection("Faulted")>>)
        BY <1>1, <2>2 DEF Publish, Appends
    <2> QED BY <2>3, <2>4 DEF TaskSays
<1>6. CASE o = "Recovered"
    <2>1. Verdict(o) = <<Connection("Connected")>> /\ motionFault' = FALSE
        BY <1>3, <1>6 DEF Verdict
    <2>2. <<Status(t)>> \o Verdict(o) = <<Status(t), Connection("Connected")>>
        BY <1>4, <2>1, PairIsConcat
    <2>3. "Connected" \in Announced' /\ "Connected" \in Connections
        BY <1>2, <2>1, AnnouncedNext DEF Connections
    <2>4. Appends(<<Status(t), Connection("Connected")>>)
        BY <1>1, <2>2 DEF Publish, Appends
    <2> QED BY <2>3, <2>4 DEF TaskSays
<1>7. CASE o # "FaultDetected" /\ o # "Recovered"
    <2>1. Verdict(o) = <<>> /\ motionFault' = motionFault
        BY <1>3, <1>7 DEF Verdict
    <2>2. <<Status(t)>> \o Verdict(o) = <<Status(t)>>
        BY <1>4, <2>1, PairType, ConcatEmptySeq
    <2>3. motionFault \in BOOLEAN
        BY DEF TypeOK
    <2>4. Announced' = Announced /\ Serves
        BY <1>2, <2>1, <2>3, AnnouncedBy, AnnouncedNext DEF Serves
    <2>5. Appends(<<Status(t)>>)
        BY <1>1, <2>2 DEF Publish, Appends
    <2> QED BY <2>4, <2>5 DEF TaskSays
<1> QED BY <1>5, <1>6, <1>7

LEMMA TaskStep ==
    ASSUME ServiceInv, ServiceStep
    PROVE  TaskSays
<1>0. /\ TypeOK
      /\ motionFault \in BOOLEAN
      /\ phase = "executing" => inHand \in Request
      /\ StopRequest \in Request
      /\ MotionRequest \subseteq Request
    BY DEF ServiceInv, TypeOK, RequestInHand, Request
<1>1. CASE ConnectRefusesStop
    <2>1. phase' = "connecting" /\ Appends(<<Failed(StopRequest), Connection("Connecting")>>)
        BY <1>1 DEF ConnectRefusesStop, Publish, Appends
    <2>2. "Connecting" \in Announced' /\ "Connecting" \in Connections
        BY <2>1, AnnouncedNext DEF Connections
    <2> QED BY <1>0, <2>1, <2>2 DEF TaskSays
<1>2. CASE ConnectRefusesMotion
    <2>1. /\ phase' = "connecting"
          /\ Head(normal) \in Request
          /\ Appends(<<Failed(Head(normal)), Connection("Connecting")>>)
        BY <1>0, <1>2, TakeNormalType DEF ConnectRefusesMotion, Publish, Appends
    <2>2. "Connecting" \in Announced' /\ "Connecting" \in Connections
        BY <2>1, AnnouncedNext DEF Connections
    <2> QED BY <2>1, <2>2 DEF TaskSays
<1>3. CASE WaitRefusesStop
    <2>1. phase = "waiting" /\ phase' = "waiting" /\ Appends(<<Failed(StopRequest)>>)
        BY <1>3 DEF WaitRefusesStop, Publish, Appends
    <2> QED BY <1>0, <2>1, AnnouncedBy, AnnouncedNext DEF TaskSays
<1>4. CASE WaitRefusesMotion
    <2>1. /\ phase = "waiting" /\ phase' = "waiting"
          /\ Head(normal) \in Request
          /\ Appends(<<Failed(Head(normal))>>)
        BY <1>0, <1>4, TakeNormalType DEF WaitRefusesMotion, Publish, Appends
    <2> QED BY <2>1, AnnouncedBy, AnnouncedNext DEF TaskSays
<1>5. CASE Retry
    <2>1. phase' = "connecting" /\ Appends(<<Connection("Connecting")>>)
        BY <1>5 DEF Retry, Publish, Appends
    <2> QED BY <2>1, AnnouncedNext DEF TaskSays, Connections
<1>6. CASE StopsUnconnected \/ TakesShutdown \/ ShutdownPreempts
    BY <1>6, NotShutdown DEF StopsUnconnected, TakesShutdown, ShutdownPreempts
<1>7. CASE TakesStop \/ StopPreempts \/ ExecutesMotion \/ StartsPoll \/ Wakes
    <2>1. /\ phase \in {"connected", "polling", "executing"}
          /\ phase' \in {"stopping", "executing", "polling"}
          /\ UNCHANGED <<events, motionFault>>
        BY <1>7
        DEF TakesStop, StopPreempts, ExecutesMotion, StartsPoll, Wakes, Serving, connectionVars
    <2> QED BY <1>0, <2>1, AnnouncedBy, AnnouncedNext DEF TaskSays
<1>8. CASE RefusesMotion
    <2>1. /\ phase \in {"connected", "polling"} /\ phase' = "connected"
          /\ UNCHANGED motionFault
          /\ Head(normal) \in Request
          /\ Appends(<<Failed(Head(normal))>>)
        BY <1>0, <1>8, TakeNormalType DEF RefusesMotion, Serving, BackToLoop, Publish, Appends
    <2>2. Announced' = Announced
        BY <1>0, <2>1, AnnouncedBy, AnnouncedNext
    <2> QED BY <2>1, <2>2 DEF TaskSays
<1>9. CASE MotionSucceeds
    <2>1. /\ phase = "executing" /\ phase' = "connected"
          /\ UNCHANGED motionFault
          /\ Appends(<<Succeeded(inHand)>>)
        BY <1>9 DEF MotionSucceeds, BackToLoop, Publish, Appends
    <2>2. Announced' = Announced
        BY <1>0, <2>1, AnnouncedBy, AnnouncedNext
    <2> QED BY <1>0, <2>1, <2>2 DEF TaskSays
<1>10. CASE HaltSucceeds
    <2>1. /\ phase = "stopping" /\ phase' = "connected"
          /\ UNCHANGED motionFault
          /\ Appends(<<Succeeded(StopRequest)>>)
        BY <1>10 DEF HaltSucceeds, BackToLoop, Publish, Appends
    <2>2. Announced' = Announced
        BY <1>0, <2>1, AnnouncedBy, AnnouncedNext
    <2> QED BY <1>0, <2>1, <2>2 DEF TaskSays
<1>11. CASE MotionFails
    <2>1. /\ phase = "executing" /\ phase' = "closing"
          /\ Appends(<<Failed(inHand), Connection("Disconnected")>>)
        BY <1>11 DEF MotionFails, LeaveConnection, Publish, Appends
    <2>2. "Disconnected" \in Announced' /\ "Disconnected" \in Connections
        BY <2>1, AnnouncedNext DEF Connections
    <2> QED BY <1>0, <2>1, <2>2 DEF TaskSays
<1>12. CASE HaltFails
    <2>1. phase' = "closing" /\ Appends(<<Failed(StopRequest), Connection("Disconnected")>>)
        BY <1>12 DEF HaltFails, LeaveConnection, Publish, Appends
    <2>2. "Disconnected" \in Announced' /\ "Disconnected" \in Connections
        BY <2>1, AnnouncedNext DEF Connections
    <2> QED BY <1>0, <2>1, <2>2 DEF TaskSays
<1>13. CASE PollFails
    <2>1. phase' = "closing" /\ Appends(<<Connection("Disconnected")>>)
        BY <1>13 DEF PollFails, LeaveConnection, Publish, Appends
    <2>2. "Disconnected" \in Announced' /\ "Disconnected" \in Connections
        BY <2>1, AnnouncedNext DEF Connections
    <2> QED BY <2>1, <2>2 DEF TaskSays
<1>14. CASE \E t \in Samples, c \in Counters : PollAnswers(t, c)
    BY <1>0, <1>14, VerdictIsAnnounced, ServiceAssumption
<1>15. CASE AcquireLock
    <2>1. phase = "connecting" /\ phase' = "connecting" /\ UNCHANGED events
        BY <1>15 DEF AcquireLock
    <2> QED BY <2>1, AnnouncedBy, AnnouncedNext DEF TaskSays
<1>16. CASE ConnectOpens
    <2>1. /\ phase' = "connected" /\ motionFault' = FALSE
          /\ Appends(<<Connection("Connected")>>)
        BY <1>16 DEF ConnectOpens, FreshConnection, Publish, Appends
    <2> QED BY <2>1, AnnouncedNext DEF TaskSays, Connections
<1>17. CASE ConnectFails
    <2>1. /\ phase' = "waiting"
          /\ \E c \in {"Locked", "Disconnected"} : Appends(<<Connection(c)>>)
        BY <1>17 DEF ConnectFails, StartWaiting, Publish, Appends
    <2>2. \A c \in {"Locked", "Disconnected"} : c \in Announced' /\ c \in Connections
        BY <2>1, AnnouncedNext DEF Connections
    <2> QED BY <2>1, <2>2 DEF TaskSays
<1>18. CASE Disconnects
    <2>1. phase = "closing" /\ phase' = "waiting" /\ UNCHANGED events
        BY <1>18 DEF Disconnects, StartWaiting, ServiceInv
    <2> QED BY <2>1, AnnouncedBy, AnnouncedNext DEF TaskSays
<1> QED
    BY <1>1, <1>2, <1>3, <1>4, <1>5, <1>6, <1>7, <1>8, <1>9, <1>10, <1>11, <1>12, <1>13,
       <1>14, <1>15, <1>16, <1>17, <1>18
    DEF ServiceStep, Handles, PadAnswers

-----------------------------------------------------------------------------
(* The updates on their way, as a sequence that grows at one end and is     *)
(* read at the other.                                                       *)

LEMMA OneMoreUpdate ==
    ASSUME NEW q \in Seq(Update), NEW u \in Update
    PROVE  LET p == q \o <<u>> IN
           /\ p \in Seq(Update)
           /\ Len(q) \in Nat
           /\ DOMAIN q = 1..Len(q)
           /\ DOMAIN p = 1..(Len(q) + 1)
           /\ \A i \in 1..Len(q) : p[i] = q[i]
           /\ p[Len(q) + 1] = u
<1>1. <<u>> \in Seq(Update) /\ Len(<<u>>) = 1 /\ <<u>>[1] = u
    BY PairType
<1>2. Len(q) \in Nat /\ DOMAIN q = 1..Len(q)
    BY LenProperties
<1>3. /\ q \o <<u>> \in Seq(Update)
      /\ Len(q \o <<u>>) = Len(q) + 1
      /\ \A i \in 1..(Len(q) + 1) :
            (q \o <<u>>)[i] = IF i <= Len(q) THEN q[i] ELSE <<u>>[i - Len(q)]
    BY <1>1, <1>2, ConcatProperties
<1>4. DOMAIN (q \o <<u>>) = 1..(Len(q) + 1)
    BY <1>3, LenProperties
<1> QED BY <1>1, <1>2, <1>3, <1>4

LEMMA TwoMoreUpdates ==
    ASSUME NEW q \in Seq(Update), NEW u \in Update, NEW v \in Update
    PROVE  q \o <<u, v>> = (q \o <<u>>) \o <<v>>
<1>1. <<u, v>> = <<u>> \o <<v>>
    BY PairIsConcat
<1>2. <<u>> \in Seq(Update) /\ <<v>> \in Seq(Update)
    BY PairType
<1> QED BY <1>1, <1>2, ConcatAssociative

LEMMA FewerUpdates ==
    ASSUME NEW q \in Seq(Update), q # <<>>
    PROVE  /\ Head(q) = q[1] /\ Head(q) \in Update
           /\ Tail(q) \in Seq(Update)
           /\ Len(q) \in Nat \ {0}
           /\ DOMAIN q = 1..Len(q)
           /\ DOMAIN Tail(q) = 1..(Len(q) - 1)
           /\ \A i \in 1..(Len(q) - 1) : Tail(q)[i] = q[i + 1]
BY HeadTailProperties, LenProperties, EmptySeq

\* Once all of q is read, the deck shows a connection of the set A; and no
\* status is read that could undo it.
Sure(conn) == conn \in {"Connected", "Faulted"}

NewsFrom(q, i, conn) ==
    \A j \in DOMAIN q : j > i => /\ q[j].type # "Connection"
                                 /\ q[j].type = "Status" => Sure(conn)

LeadsTo(conn, q, A) ==
    \/ \E i \in DOMAIN q : /\ q[i].type = "Connection"
                           /\ q[i].state \in A
                           /\ NewsFrom(q, i, q[i].state)
    \/ conn \in A /\ NewsFrom(q, 0, conn)

LEMMA LeadsToWider ==
    ASSUME NEW conn, NEW q, NEW A, NEW B, A \subseteq B, LeadsTo(conn, q, A)
    PROVE  LeadsTo(conn, q, B)
BY DEF LeadsTo

LEMMA UpdateKinds ==
    /\ \A c \in Connections : /\ Connection(c) \in Update
                              /\ Connection(c).type = "Connection"
                              /\ Connection(c).state = c
    /\ \A t \in Telemetry : /\ Status(t) \in Update
                            /\ Status(t).type = "Status"
                            /\ Status(t).telemetry = t
                            /\ Status(t).age = 0
    /\ \A r \in Request : /\ Succeeded(r) \in Update
                          /\ Succeeded(r).type = "Succeeded"
                          /\ Succeeded(r).request = r
                          /\ Failed(r) \in Update
                          /\ Failed(r).type = "Failed"
                          /\ Failed(r).request = r
BY UpdateType DEF Connection, Status, Succeeded, Failed

\* A connection that is announced is where the queue leads.
LEMMA LeadsToLast ==
    ASSUME NEW conn, NEW q \in Seq(Update), NEW c \in Connections, NEW A, c \in A
    PROVE  LeadsTo(conn, q \o <<Connection(c)>>, A)
<1> DEFINE p == q \o <<Connection(c)>>
           n == Len(q) + 1
<1>1. /\ n \in DOMAIN p
      /\ p[n] = Connection(c)
      /\ \A j \in DOMAIN p : ~(j > n)
    BY OneMoreUpdate, UpdateKinds
<1>2. p[n].type = "Connection" /\ p[n].state \in A
    BY <1>1, UpdateKinds
<1> HIDE DEF p, n
<1>3. NewsFrom(p, n, p[n].state)
    BY <1>1 DEF NewsFrom
<1>4. LeadsTo(conn, p, A)
    BY <1>1, <1>2, <1>3 DEF LeadsTo
<1> QED BY <1>4 DEF p

\* Any other update leaves the queue leading where it did: a status only comes
\* from a task that serves its connection.
LEMMA LeadsToStill ==
    ASSUME NEW conn, NEW q \in Seq(Update), NEW A, LeadsTo(conn, q, A),
           NEW u \in Update, u.type # "Connection",
           u.type = "Status" => A \subseteq {"Connected", "Faulted"}
    PROVE  LeadsTo(conn, q \o <<u>>, A)
<1> DEFINE p == q \o <<u>>
<1>1. /\ Len(q) \in Nat
      /\ DOMAIN q = 1..Len(q)
      /\ DOMAIN p = 1..(Len(q) + 1)
      /\ \A i \in 1..Len(q) : p[i] = q[i]
      /\ p[Len(q) + 1] = u
    BY OneMoreUpdate
<1> HIDE DEF p
<1>2. ASSUME NEW i \in 0..Len(q), NEW d, d \in A, NewsFrom(q, i, d)
      PROVE  NewsFrom(p, i, d)
    <2> SUFFICES ASSUME NEW j \in DOMAIN p, j > i
                 PROVE  p[j].type # "Connection" /\ (p[j].type = "Status" => Sure(d))
        BY DEF NewsFrom
    <2>1. CASE j \in DOMAIN q
        BY <1>1, <1>2, <2>1 DEF NewsFrom
    <2>2. CASE j = Len(q) + 1
        BY <1>1, <1>2, <2>2 DEF Sure
    <2> QED BY <1>1, <2>1, <2>2
<1>3. CASE conn \in A /\ NewsFrom(q, 0, conn)
    <2>1. NewsFrom(p, 0, conn)
        BY <1>1, <1>2, <1>3
    <2> QED BY <1>3, <2>1 DEF LeadsTo, p
<1>4. ASSUME NEW i \in DOMAIN q, q[i].type = "Connection", q[i].state \in A,
             NewsFrom(q, i, q[i].state)
      PROVE  LeadsTo(conn, p, A)
    <2>1. i \in DOMAIN p /\ p[i] = q[i] /\ i \in 0..Len(q)
        BY <1>1
    <2>2. NewsFrom(p, i, p[i].state)
        BY <1>2, <1>4, <2>1
    <2> QED BY <1>4, <2>1, <2>2 DEF LeadsTo
<1> QED BY <1>3, <1>4 DEF LeadsTo, p

\* Reading an update: the deck takes the step that the update says.
LEMMA LeadsToNext ==
    ASSUME NEW conn, NEW next, NEW q \in Seq(Update), q # <<>>, NEW A, LeadsTo(conn, q, A),
           Head(q).type = "Connection" => next = Head(q).state,
           Head(q).type # "Connection" /\ (Head(q).type = "Status" => Sure(conn)) => next = conn
    PROVE  LeadsTo(next, Tail(q), A)
<1> DEFINE p == Tail(q)
<1>1. /\ Head(q) = q[1]
      /\ Len(q) \in Nat \ {0}
      /\ DOMAIN q = 1..Len(q)
      /\ DOMAIN p = 1..(Len(q) - 1)
      /\ \A i \in 1..(Len(q) - 1) : p[i] = q[i + 1]
    BY FewerUpdates
<1> HIDE DEF p
<1>2. ASSUME NEW i \in 1..Len(q), NEW d, NewsFrom(q, i, d)
      PROVE  NewsFrom(p, i - 1, d)
    <2> SUFFICES ASSUME NEW j \in DOMAIN p, j > i - 1
                 PROVE  p[j].type # "Connection" /\ (p[j].type = "Status" => Sure(d))
        BY DEF NewsFrom
    <2>1. j + 1 \in DOMAIN q /\ j + 1 > i /\ p[j] = q[j + 1]
        BY <1>1
    <2> QED BY <1>2, <2>1 DEF NewsFrom
<1>3. CASE conn \in A /\ NewsFrom(q, 0, conn)
    <2>1. 1 \in DOMAIN q /\ 1 > 0
        BY <1>1
    <2>2. q[1].type # "Connection" /\ (q[1].type = "Status" => Sure(conn))
        BY <1>3, <2>1 DEF NewsFrom
    <2>3. next = conn
        BY <1>1, <2>2
    <2>4. NewsFrom(q, 1, conn)
        BY <1>1, <1>3 DEF NewsFrom
    <2>5. NewsFrom(p, 0, conn)
        BY <1>1, <1>2, <2>4
    <2> QED BY <1>3, <2>3, <2>5 DEF LeadsTo, p
<1>4. ASSUME NEW i \in DOMAIN q, q[i].type = "Connection", q[i].state \in A,
             NewsFrom(q, i, q[i].state)
      PROVE  LeadsTo(next, p, A)
    <2>1. NewsFrom(p, i - 1, q[i].state)
        BY <1>1, <1>2, <1>4
    <2>2. CASE i = 1
        BY <1>1, <1>4, <2>1, <2>2 DEF LeadsTo
    <2>3. CASE i # 1
        <3>1. i - 1 \in DOMAIN p /\ p[i - 1] = q[i]
            BY <1>1, <2>3
        <3> QED BY <1>4, <2>1, <3>1 DEF LeadsTo
    <2> QED BY <2>2, <2>3
<1> QED BY <1>3, <1>4 DEF LeadsTo, p

\* Waiting does not change where the queue leads.
LEMMA LeadsToOlder ==
    ASSUME NEW conn, NEW q \in Seq(Update), NEW A, LeadsTo(conn, q, A)
    PROVE  LeadsTo(conn, [i \in DOMAIN q |-> Older(q[i])], A)
<1> DEFINE p == [i \in DOMAIN q |-> Older(q[i])]
<1>1. /\ DOMAIN p = DOMAIN q
      /\ \A i \in DOMAIN q : /\ p[i].type = q[i].type
                             /\ q[i].type = "Connection" => p[i].state = q[i].state
    BY OlderType, LenProperties
<1> HIDE DEF p
<1>2. \A i, d : NewsFrom(q, i, d) => NewsFrom(p, i, d)
    BY <1>1 DEF NewsFrom
<1>3. CASE conn \in A /\ NewsFrom(q, 0, conn)
    BY <1>2, <1>3 DEF LeadsTo, p
<1>4. ASSUME NEW i \in DOMAIN q, q[i].type = "Connection", q[i].state \in A,
             NewsFrom(q, i, q[i].state)
      PROVE  LeadsTo(conn, p, A)
    BY <1>1, <1>2, <1>4 DEF LeadsTo
<1> QED BY <1>3, <1>4 DEF LeadsTo, p

-----------------------------------------------------------------------------
(* One update, applied to the deck.                                         *)

LEMMA AppliedIs ==
    ASSUME NEW s, NEW u
    PROVE  /\ u.type = "Connection" => Applied(s, u) = ConnectionChanged(s, u.state)
           /\ u.type = "Status" => Applied(s, u) = ApplyStatus(s, u.telemetry, u.age)
           /\ u.type = "Succeeded" => Applied(s, u) = CommandSucceeded(s, u.request)
           /\ u.type = "Failed" => Applied(s, u) = CommandFailed(s, u.request)
<1>1. CASE u.type = "Connection"
    BY <1>1 DEF Applied
<1>2. CASE u.type = "Status"
    BY <1>2 DEF Applied
<1>3. CASE u.type = "Succeeded"
    BY <1>3 DEF Applied
<1>4. CASE u.type = "Failed"
    BY <1>4 DEF Applied
<1> QED BY <1>1, <1>2, <1>3, <1>4

LEMMA KindsOfUpdate ==
    ASSUME NEW u \in Update
    PROVE  \/ u.type = "Connection" /\ u.state \in Connections
           \/ u.type = "Status" /\ u.telemetry \in Telemetry /\ u.age \in Nat
           \/ u.type = "Succeeded" /\ u.request \in Request
           \/ u.type = "Failed" /\ u.request \in Request
BY DEF Update

LEMMA AppliedStep ==
    ASSUME NEW s \in DeckState, NEW u \in Update,
           u.type = "Status" => u.age \in 0..MaxLag
    PROVE  LET t == Applied(s, u) IN
           /\ t \in DeckState
           /\ Waits(s, t)
           /\ Ends(s, t)
           /\ u.type = "Connection" => t.connection = u.state
           /\ u.type # "Connection" /\ (u.type = "Status" => Sure(s.connection)) =>
                  t.connection = s.connection
           /\ t.connection = "Faulted" => t.pending = None \/ s.connection = "Faulted"
<1> DEFINE t == Applied(s, u)
<1>1. CASE u.type = "Connection" /\ u.state \in Connections
    <2>1. t = ConnectionChanged(s, u.state)
        BY <1>1, AppliedIs
    <2> HIDE DEF t
    <2>2. /\ t \in DeckState /\ t.connection = u.state /\ Waits(s, t) /\ Ends(s, t)
          /\ u.state # "Connected" => t.pending = None
        BY <1>1, <2>1, ConnectionStep
    <2> QED BY <1>1, <2>2 DEF t
<1>2. CASE u.type = "Status" /\ u.telemetry \in Telemetry
    <2>1. t = ApplyStatus(s, u.telemetry, u.age) /\ u.age \in 0..MaxLag
        BY <1>2, AppliedIs
    <2> HIDE DEF t
    <2>2. /\ t \in DeckState /\ Waits(s, t) /\ Ends(s, t)
          /\ s.connection \in {"Connected", "Faulted"} => t.connection = s.connection
          /\ t.connection = "Faulted" => s.connection = "Faulted"
        BY <1>2, <2>1, StatusStep
    <2> QED BY <1>2, <2>2 DEF t, Sure
<1>3. CASE u.type = "Succeeded" /\ u.request \in Request
    <2>1. t = CommandSucceeded(s, u.request)
        BY <1>3, AppliedIs
    <2> HIDE DEF t
    <2>2. t \in DeckState /\ Waits(s, t) /\ Ends(s, t) /\ t.connection = s.connection
        BY <1>3, <2>1, SucceededStep
    <2> QED BY <1>3, <2>2 DEF t
<1>4. CASE u.type = "Failed" /\ u.request \in Request
    <2>1. t = CommandFailed(s, u.request)
        BY <1>4, AppliedIs
    <2> HIDE DEF t
    <2>2. /\ t \in DeckState /\ t.connection = s.connection
          /\ t.pending = None /\ t.feedback # None
        BY <1>4, <2>1, FailedStep
    <2> QED BY <1>4, <2>2 DEF t, Waits, Ends
<1> QED BY <1>1, <1>2, <1>3, <1>4, KindsOfUpdate

-----------------------------------------------------------------------------
(* The invariant of the deck and the task.                                  *)

DeckInv ==
    /\ ServiceInv
    /\ Promises(events)
    /\ DeckTypeOK
    /\ LeadsTo(deck.connection, events, Announced)
    /\ FaultHoldsControls

\* A command that is sent, and what it leaves of the deck.
LEMMA AcceptedStep ==
    ASSUME NEW c \in Command, deck \in DeckState, PressAccepted(c)
    PROVE  /\ Requested(deck, c) \in Request
           /\ Send(Requested(deck, c))
           /\ deck' \in DeckState
           /\ deck'.connection = deck.connection
           /\ deck'.pending # None
           /\ deck'.pending.request = Requested(deck, c)
           /\ deck.connection = "Faulted" => Requested(deck, c) = StopRequest
           /\ deck.pending # None => Requested(deck, c) = StopRequest
           /\ UNCHANGED <<events, phase, motionFault, feedbackIn>>
<1>1. Requested(deck, c) \in Request
    BY RequestedType DEF PressAccepted
<1>2. deck' = AwaitAnswer(deck, c, Requested(deck, c))
    BY DEF PressAccepted
<1>3. c # StopCommand => deck.pending = None /\ deck.connection = "Connected"
    BY DEF PressAccepted, Requested, MayAsk, HasFreshStatus
<1>4. c = StopCommand => Requested(deck, c) = StopRequest
    BY DEF PressAccepted, Requested
<1>5. Send(Requested(deck, c)) /\ UNCHANGED feedbackIn
    BY DEF PressAccepted
<1>6. UNCHANGED <<events, phase, motionFault>>
    BY <1>5 DEF Send, connectionVars
<1> QED BY <1>1, <1>2, <1>3, <1>4, <1>5, <1>6, AwaitType

LEMMA RefusedStep ==
    ASSUME NEW c \in Command, deck \in DeckState, PressRefused(c)
    PROVE  /\ deck' \in DeckState
           /\ deck'.connection = deck.connection
           /\ deck'.pending = deck.pending
           /\ feedbackIn' = FeedbackTime
           /\ UNCHANGED serviceVars
BY RejectType DEF PressRefused

\* The updates keep what they promise, and keep leading to the connection.
LEMMA QueueStep ==
    ASSUME ServiceInv, ServiceInv', Promises(events),
           LeadsTo(deck.connection, events, Announced),
           ServiceStep, UNCHANGED deck
    PROVE  Promises(events') /\ LeadsTo(deck.connection, events', Announced')
<1>1. events \in Seq(Update) /\ TaskSays /\ 0 \in 0..MaxLag
    BY TaskStep, DeckAssumption DEF ServiceInv, TypeOK
<1>2. ASSUME NEW q \in Seq(Update), Promises(q), NEW u \in Update,
             u.type = "Status" => u.age = 0
      PROVE  Promises(q \o <<u>>)
    <2> DEFINE p == q \o <<u>>
    <2>1. /\ Len(q) \in Nat
          /\ DOMAIN q = 1..Len(q)
          /\ DOMAIN p = 1..(Len(q) + 1)
          /\ \A i \in 1..Len(q) : p[i] = q[i]
          /\ p[Len(q) + 1] = u
        BY OneMoreUpdate
    <2> HIDE DEF p
    <2>2. Promises(p)
        BY <1>1, <1>2, <2>1 DEF Promises
    <2> QED BY <2>2 DEF p
<1>3. CASE UNCHANGED events /\ Announced \subseteq Announced'
    BY <1>3, LeadsToWider
<1>4. CASE \E r \in Request : /\ Appends(<<Failed(r)>>) \/ Appends(<<Succeeded(r)>>)
                              /\ Announced' = Announced
    <2>1. PICK u \in Update : /\ u.type \in {"Failed", "Succeeded"}
                              /\ events' = events \o <<u>>
                              /\ Announced' = Announced
        BY <1>4, UpdateKinds DEF Appends
    <2>2. u.type # "Connection" /\ u.type # "Status"
        BY <2>1
    <2>3. Promises(events')
        BY <1>1, <1>2, <2>1, <2>2
    <2>4. LeadsTo(deck.connection, events \o <<u>>, Announced)
        BY <1>1, <2>2, LeadsToStill
    <2> QED BY <2>1, <2>3, <2>4
<1>5. CASE \E c \in Connections :
              /\ c \in Announced'
              /\ \/ Appends(<<Connection(c)>>)
                 \/ \E r \in Request : Appends(<<Failed(r), Connection(c)>>)
                 \/ \E t \in Telemetry : Appends(<<Status(t), Connection(c)>>)
    <2>1. PICK c \in Connections :
              /\ c \in Announced'
              /\ \/ Appends(<<Connection(c)>>)
                 \/ \E r \in Request : Appends(<<Failed(r), Connection(c)>>)
                 \/ \E t \in Telemetry : Appends(<<Status(t), Connection(c)>>)
        BY <1>5
    <2>2. Connection(c) \in Update /\ Connection(c).type = "Connection"
        BY UpdateKinds
    <2>3. ASSUME NEW q \in Seq(Update), Promises(q), events' = q \o <<Connection(c)>>
          PROVE  Promises(events') /\ LeadsTo(deck.connection, events', Announced')
        BY <1>2, <2>1, <2>2, <2>3, LeadsToLast
    <2>4. ASSUME NEW u \in Update, u.type = "Status" => u.age = 0,
                 Appends(<<u, Connection(c)>>)
          PROVE  Promises(events') /\ LeadsTo(deck.connection, events', Announced')
        <3>1. events \o <<u>> \in Seq(Update) /\ Promises(events \o <<u>>)
            BY <1>1, <1>2, <2>4, OneMoreUpdate
        <3>2. events' = (events \o <<u>>) \o <<Connection(c)>>
            BY <1>1, <2>2, <2>4, TwoMoreUpdates DEF Appends
        <3> QED BY <2>3, <3>1, <3>2
    <2>5. CASE Appends(<<Connection(c)>>)
        BY <1>1, <2>3, <2>5 DEF Appends
    <2>6. CASE \E r \in Request : Appends(<<Failed(r), Connection(c)>>)
        BY <2>4, <2>6, UpdateKinds
    <2>7. CASE \E t \in Telemetry : Appends(<<Status(t), Connection(c)>>)
        BY <2>4, <2>7, UpdateKinds
    <2> QED BY <2>1, <2>5, <2>6, <2>7
<1>6. CASE \E t \in Telemetry : /\ Appends(<<Status(t)>>)
                                /\ Announced' = Announced
                                /\ Serves
    <2>1. PICK t \in Telemetry : /\ events' = events \o <<Status(t)>>
                                 /\ Announced' = Announced
                                 /\ Announced \subseteq {"Connected", "Faulted"}
        BY <1>6 DEF Appends, Serves
    <2>2. /\ Status(t) \in Update
          /\ Status(t).type # "Connection"
          /\ Status(t).age = 0
        BY UpdateKinds
    <2>3. Promises(events')
        BY <1>1, <1>2, <2>1, <2>2
    <2>4. LeadsTo(deck.connection, events \o <<Status(t)>>, Announced)
        BY <1>1, <2>1, <2>2, LeadsToStill
    <2> QED BY <2>1, <2>3, <2>4
<1> QED BY <1>1, <1>3, <1>4, <1>5, <1>6 DEF TaskSays

LEMMA DeckInvInit == SystemInit => DeckInv
<1> SUFFICES ASSUME SystemInit PROVE DeckInv
    OBVIOUS
<1>1. ServiceInv
    BY ServiceInvInit DEF SystemInit
<1>2. /\ events = <<>> \o <<Connection("Connecting")>>
      /\ <<>> \in Seq(Update)
      /\ Connection("Connecting") \in Update
    <2>1. Connection("Connecting") \in Update
        BY UpdateKinds DEF Connections
    <2>2. <<Connection("Connecting")>> \in Seq(Update)
        BY <2>1, PairType
    <2>3. <<>> \o <<Connection("Connecting")>> = <<Connection("Connecting")>>
        BY <2>2, ConcatEmptySeq
    <2> QED BY <2>1, <2>3 DEF SystemInit, Init
<1>3. "Connecting" \in Announced /\ "Connecting" \in Connections
    BY AnnouncedBy DEF SystemInit, Init, Connections
<1>4. LeadsTo(deck.connection, events, Announced)
    BY <1>2, <1>3, LeadsToLast
<1>5. Promises(events)
    <2>1. DOMAIN events = {1} /\ events[1] = Connection("Connecting")
        BY DEF SystemInit, Init
    <2> QED BY <1>3, <2>1, UpdateKinds DEF Promises
<1>6. DeckTypeOK /\ FaultHoldsControls
    BY DEF SystemInit, NewDeck, DeckTypeOK, DeckState, Connections, FaultHoldsControls
<1> QED BY <1>1, <1>4, <1>5, <1>6 DEF DeckInv

LEMMA DeckInvStep == DeckInv /\ [SystemNext]_vars => DeckInv'
<1> SUFFICES ASSUME DeckInv, [SystemNext]_vars PROVE DeckInv'
    OBVIOUS
<1>1. /\ ServiceInv /\ TypeOK /\ events \in Seq(Update)
      /\ Promises(events)
      /\ deck \in DeckState
      /\ feedbackIn \in 0..FeedbackTime \cup {None}
      /\ LeadsTo(deck.connection, events, Announced)
      /\ FaultHoldsControls
    BY DEF DeckInv, DeckTypeOK, ServiceInv, TypeOK
<1>2. FeedbackTime \in Nat /\ Commands \subseteq Command /\ None \notin Int
    BY SystemAssumption, NoneAssumption
<1>3. CASE ServiceStep /\ UNCHANGED deckVars
    <2>1. ServiceInv' /\ UNCHANGED <<deck, feedbackIn>>
        BY <1>1, <1>3, ServiceInvStep DEF deckVars
    <2>2. Promises(events') /\ LeadsTo(deck.connection, events', Announced')
        BY <1>1, <1>3, <2>1, QueueStep
    <2> QED BY <1>1, <2>1, <2>2 DEF DeckInv, DeckTypeOK, FaultHoldsControls
<1>4. ASSUME NEW c \in Commands, PressAccepted(c)
      PROVE  DeckInv'
    <2>1. /\ Requested(deck, c) \in Request
          /\ Send(Requested(deck, c))
          /\ deck' \in DeckState
          /\ deck'.connection = deck.connection
          /\ deck'.pending.request = Requested(deck, c)
          /\ deck.connection = "Faulted" => Requested(deck, c) = StopRequest
          /\ UNCHANGED <<events, phase, motionFault, feedbackIn>>
        BY <1>1, <1>2, <1>4, AcceptedStep
    <2>2. ServiceInv'
        BY <1>1, <2>1, ServiceInvStep
    <2>3. Announced' = Announced
        BY <2>1 DEF Announced
    <2> QED BY <1>1, <2>1, <2>2, <2>3 DEF DeckInv, DeckTypeOK, FaultHoldsControls
<1>5. ASSUME NEW c \in Commands, PressRefused(c)
      PROVE  DeckInv'
    <2>1. /\ deck' \in DeckState
          /\ deck'.connection = deck.connection
          /\ deck'.pending = deck.pending
          /\ feedbackIn' = FeedbackTime
          /\ UNCHANGED serviceVars
        BY <1>1, <1>2, <1>5, RefusedStep
    <2>2. ServiceInv' /\ UNCHANGED <<events, phase, motionFault>>
        BY <1>1, <2>1, ServiceInvStep DEF serviceVars
    <2>3. Announced' = Announced
        BY <2>2 DEF Announced
    <2> QED BY <1>1, <1>2, <2>1, <2>2, <2>3 DEF DeckInv, DeckTypeOK, FaultHoldsControls
<1>6. CASE WalkingPadUpdate
    <2> DEFINE u == Head(events)
    <2>1. /\ events # <<>> /\ events' = Tail(events)
          /\ UNCHANGED <<phase, motionFault>>
          /\ deck' = Applied(deck, u)
          /\ feedbackIn' = FeedbackTime \/ feedbackIn' = feedbackIn
        BY <1>6 DEF WalkingPadUpdate, ReadsEvent, connectionVars
    <2>2. ServiceInv'
        BY <1>1, <1>6, ServiceInvStep DEF WalkingPadUpdate
    <2>3. /\ u = events[1] /\ u \in Update /\ 1 \in DOMAIN events
          /\ Len(events) \in Nat
          /\ DOMAIN events = 1..Len(events)
          /\ DOMAIN events' = 1..(Len(events) - 1)
          /\ \A i \in 1..(Len(events) - 1) : events'[i] = events[i + 1]
        BY <1>1, <2>1, FewerUpdates
    <2>4. u.type = "Status" => u.age \in 0..MaxLag
        BY <1>1, <2>3 DEF Promises
    <2>5. Promises(events')
        BY <1>1, <2>3 DEF Promises
    <2> HIDE DEF u
    <2>6. /\ deck' \in DeckState
          /\ Waits(deck, deck')
          /\ u.type = "Connection" => deck'.connection = u.state
          /\ u.type # "Connection" /\ (u.type = "Status" => Sure(deck.connection)) =>
                 deck'.connection = deck.connection
          /\ deck'.connection = "Faulted" => deck'.pending = None \/ deck.connection = "Faulted"
        BY <1>1, <2>1, <2>3, <2>4, AppliedStep
    <2>7. Announced' = Announced
        BY <2>1 DEF Announced
    <2>8. LeadsTo(deck'.connection, events', Announced')
        BY <1>1, <2>1, <2>6, <2>7, LeadsToNext DEF u
    <2>9. FaultHoldsControls'
        BY <1>1, <2>6 DEF FaultHoldsControls, Waits
    <2> QED BY <1>1, <1>2, <2>1, <2>2, <2>5, <2>6, <2>8, <2>9 DEF DeckInv, DeckTypeOK
<1>7. CASE FeedbackExpires \/ SystemWakes \/ UNCHANGED vars
    <2>1. /\ UNCHANGED serviceVars
          /\ deck' \in DeckState
          /\ deck'.connection = deck.connection
          /\ deck'.pending = deck.pending
          /\ feedbackIn' \in {feedbackIn, None}
        BY <1>1, <1>7 DEF FeedbackExpires, SystemWakes, vars, deckVars, DeckState
    <2>2. ServiceInv' /\ UNCHANGED <<events, phase, motionFault>>
        BY <1>1, <2>1, ServiceInvStep DEF serviceVars
    <2>3. Announced' = Announced
        BY <2>2 DEF Announced
    <2> QED BY <1>1, <2>1, <2>2, <2>3 DEF DeckInv, DeckTypeOK, FaultHoldsControls
<1>8. CASE Tick
    <2>1. ServiceInv'
        BY <1>1, <1>8, ServiceInvTick
    <2>2. /\ events' = [i \in DOMAIN events |-> Older(events[i])]
          /\ \A i \in DOMAIN events : events[i].type = "Status" => events[i].age < MaxLag
          /\ deck' = AgedDeck(deck)
          /\ UNCHANGED <<phase, motionFault>>
          /\ feedbackIn' = IF feedbackIn \in Nat \ {0} THEN feedbackIn - 1 ELSE feedbackIn
        BY <1>8 DEF Tick, TickService
    <2>3. Announced' = Announced
        BY <2>2 DEF Announced
    <2>4. /\ deck' \in DeckState
          /\ deck'.connection = deck.connection
          /\ deck'.pending = None <=> deck.pending = None
          /\ deck.pending # None => deck'.pending.request = deck.pending.request
        BY <1>1, <2>2, AgedDeckType
    <2>5. LeadsTo(deck.connection, events', Announced)
        BY <1>1, <2>2, LeadsToOlder
    <2>6. Promises(events')
        <3> SUFFICES ASSUME NEW i \in DOMAIN events', events'[i].type = "Status"
                     PROVE  events'[i].age \in 0..MaxLag
            BY DEF Promises
        <3>1. i \in DOMAIN events /\ events[i] \in Update /\ events'[i] = Older(events[i])
            BY <1>1, <2>2, LenProperties
        <3>2. events[i].type = "Status" /\ events'[i].age = events[i].age + 1
            BY <3>1, OlderType
        <3>3. events[i].age \in 0..MaxLag /\ events[i].age < MaxLag
            BY <1>1, <2>2, <3>1, <3>2 DEF Promises
        <3> QED BY <3>2, <3>3, DeckAssumption
    <2>7. feedbackIn' \in 0..FeedbackTime \cup {None}
        BY <1>1, <1>2, <2>2
    <2> QED BY <1>1, <2>1, <2>3, <2>4, <2>5, <2>6, <2>7 DEF DeckInv, DeckTypeOK, FaultHoldsControls
<1> QED BY <1>3, <1>4, <1>5, <1>6, <1>7, <1>8 DEF SystemNext

LEMMA DeckInvHolds == System => []DeckInv
<1> QED BY DeckInvInit, DeckInvStep, PTL DEF System

\* The deck keeps its shape, whatever is pressed and however late the runtime
\* reads the updates of the task.
THEOREM DeckTypeCorrect == System => []DeckTypeOK
<1>1. DeckInv => DeckTypeOK
    BY DEF DeckInv
<1> QED BY <1>1, DeckInvHolds, PTL

\* Once the runtime has read every update, the deck shows the connection that
\* the task is in.
THEOREM DeckAlwaysFollowsTask == System => []DeckFollowsTask
<1>1. DeckInv => DeckFollowsTask
    <2> SUFFICES ASSUME DeckInv, events = <<>> PROVE deck.connection \in Announced
        BY DEF DeckFollowsTask
    <2>1. LeadsTo(deck.connection, <<>>, Announced) /\ DOMAIN <<>> = {}
        BY DEF DeckInv
    <2> QED BY <2>1 DEF LeadsTo
<1> QED BY <1>1, DeckInvHolds, PTL

\* In a fault the deck waits for a Stop or for nothing.
THEOREM FaultAlwaysHoldsControls == System => []FaultHoldsControls
<1>1. DeckInv => FaultHoldsControls
    BY DEF DeckInv
<1> QED BY <1>1, DeckInvHolds, PTL

-----------------------------------------------------------------------------
(* How a wait ends.                                                         *)

LEMMA VisibleStep ==
    ASSUME DeckInv, [SystemNext]_vars, deck.pending # None, deck'.pending = None
    PROVE  \/ deck'.feedback # None
           \/ /\ deck.pending.awaiting
              /\ Confirms(deck.pending.request, deck'.status.telemetry)
<1>1. events \in Seq(Update) /\ Promises(events) /\ deck \in DeckState
    BY DEF DeckInv, DeckTypeOK, ServiceInv, TypeOK
<1>2. CASE WalkingPadUpdate
    <2>1. /\ events # <<>>
          /\ deck' = Applied(deck, Head(events))
        BY <1>2 DEF WalkingPadUpdate, ReadsEvent
    <2>2. Head(events) = events[1] /\ Head(events) \in Update /\ 1 \in DOMAIN events
        BY <1>1, <2>1, FewerUpdates
    <2>3. Head(events).type = "Status" => Head(events).age \in 0..MaxLag
        BY <1>1, <2>2 DEF Promises
    <2>4. Ends(deck, deck')
        BY <1>1, <2>1, <2>2, <2>3, AppliedStep
    <2> QED BY <2>4 DEF Ends
<1>3. ~(ServiceStep /\ UNCHANGED deckVars)
    BY DEF deckVars
<1>4. ASSUME NEW c \in Commands PROVE ~PressAccepted(c)
    BY <1>1, AcceptedStep, SystemAssumption
<1>5. ASSUME NEW c \in Commands PROVE ~PressRefused(c)
    BY <1>1, RefusedStep, SystemAssumption
<1>6. ~(FeedbackExpires \/ SystemWakes \/ UNCHANGED vars)
    BY <1>1 DEF FeedbackExpires, SystemWakes, vars, deckVars, DeckState
<1>7. ~Tick
    BY <1>1, AgedDeckType DEF Tick
<1> QED BY <1>2, <1>3, <1>4, <1>5, <1>6, <1>7 DEF SystemNext

\* No wait for a command ends without a word: the belt confirms it, or the deck
\* shows what became of it.
THEOREM PendingAlwaysEndsVisibly == System => PendingEndsVisibly
<1>1. DeckInv /\ [SystemNext]_vars
          => [deck.pending # None /\ deck'.pending = None =>
                 \/ deck'.feedback # None
                 \/ /\ deck.pending.awaiting
                    /\ Confirms(deck.pending.request, deck'.status.telemetry)]_vars
    BY VisibleStep
<1> QED BY <1>1, DeckInvHolds, PTL DEF System, PendingEndsVisibly

-----------------------------------------------------------------------------
(* The keys.                                                                *)

LEMMA KeyCommandKinds ==
    ASSUME NEW c \in KeyCommands
    PROVE  /\ c \in Command
           /\ c.op \in {"Start", "Stop", "Increase", "Decrease", "SetSpeed"}
           /\ c.op = "Start" => c = StartCommand
           /\ c.op = "Stop" <=> c = StopCommand
           /\ c.op = "SetSpeed" => c.tenths \in Speeds /\ c = SetSpeedCommand(c.tenths)
<1>1. \A n \in Speeds : n \in 0..(MaxSpeed + 1)
    BY TypesAssumption DEF Speeds
<1>2. CASE c \in {StartCommand, StopCommand, IncreaseCommand, DecreaseCommand}
    BY <1>2 DEF Command, StartCommand, StopCommand, IncreaseCommand, DecreaseCommand
<1>3. ASSUME NEW n \in Speeds, c = SetSpeedCommand(n)
      PROVE  /\ c \in Command
             /\ c.op = "SetSpeed"
             /\ c.tenths = n
             /\ c # StopCommand
    BY <1>1, <1>3 DEF Command, SetSpeedCommand, StopCommand
<1> QED BY <1>2, <1>3 DEF KeyCommands

LEMMA KeyStatusIs ==
    ASSUME NEW s, NEW c
    PROVE  /\ c.op = "Start" => KeyStatus(s, c) = walkingpad_start(s)
           /\ c.op = "Stop" => KeyStatus(s, c) = walkingpad_stop(s)
           /\ c.op \in {"Increase", "Decrease"} => KeyStatus(s, c) = walkingpad_speed_adjust(s, c)
           /\ c.op = "SetSpeed" => KeyStatus(s, c) = walkingpad_speed_choice(s, c)
<1>1. CASE c.op = "Start"
    BY <1>1 DEF KeyStatus
<1>2. CASE c.op = "Stop"
    BY <1>2 DEF KeyStatus
<1>3. CASE c.op \in {"Increase", "Decrease"}
    <2>1. c.op # "Start" /\ c.op # "Stop"
        BY <1>3
    <2> QED BY <1>3, <2>1 DEF KeyStatus
<1>4. CASE c.op = "SetSpeed"
    <2>1. c.op # "Start" /\ c.op # "Stop" /\ c.op \notin {"Increase", "Decrease"}
        BY <1>4
    <2> QED BY <1>4, <2>1 DEF KeyStatus
<1> QED BY <1>1, <1>2, <1>3, <1>4

\* The request of a command, case by case.
LEMMA RequestForIs ==
    ASSUME NEW c, NEW speed
    PROVE  /\ c.op = "Start" => /\ speed = 0 => RequestFor(c, speed) = StartRequest
                                /\ speed # 0 => RequestFor(c, speed) = None
           /\ c.op = "SetSpeed" =>
                 /\ speed # 0 /\ c.tenths \in Speeds => RequestFor(c, speed) = SetSpeedRequest(c.tenths)
                 /\ speed = 0 => RequestFor(c, speed) = None
<1>1. CASE c.op = "Start" /\ speed = 0
    <2>1. c.op # "Stop"
        BY <1>1
    <2> QED BY <1>1, <2>1 DEF RequestFor
<1>2. CASE c.op = "Start" /\ speed # 0
    <2>1. c.op # "Stop" /\ c.op # "Increase" /\ c.op # "Decrease" /\ c.op # "SetSpeed"
        BY <1>2
    <2> QED BY <1>2, <2>1 DEF RequestFor
<1>3. CASE c.op = "SetSpeed" /\ speed # 0 /\ c.tenths \in Speeds
    <2>1. c.op # "Stop" /\ c.op # "Start" /\ c.op # "Increase" /\ c.op # "Decrease"
        BY <1>3
    <2> QED BY <1>3, <2>1 DEF RequestFor
<1>4. CASE c.op = "SetSpeed" /\ speed = 0
    <2>1. c.op # "Stop" /\ c.op # "Start" /\ c.op # "Increase" /\ c.op # "Decrease"
        BY <1>4
    <2> QED BY <1>4, <2>1 DEF RequestFor
<1>5. CASE c.op # "Start" /\ c.op # "SetSpeed"
    BY <1>5
<1>6. CASE c.op = "SetSpeed" /\ speed # 0 /\ c.tenths \notin Speeds
    BY <1>6
<1> QED BY <1>1, <1>2, <1>3, <1>4, <1>5, <1>6

\* The belt moves exactly when its control speed is not zero.
LEMMA ControlSpeedMoves ==
    ASSUME NEW t \in Telemetry
    PROVE  ControlSpeed(t) = 0 <=> ~IsMoving(t)
BY TypesAssumption DEF ControlSpeed, Telemetry, IsMoving, Speeds

LEMMA TruthOfStart ==
    ASSUME NEW s \in DeckState
    PROVE  /\ walkingpad_start(s) = "Ok" => Sends(s, StartCommand)
           /\ walkingpad_start(s) = "Disabled" => ~Sends(s, StartCommand)
<1>1. StartCommand.op = "Start" /\ StartCommand # StopCommand
    BY DEF StartCommand, StopCommand
<1>2. s.status # None => s.status.telemetry \in Telemetry
    BY DEF DeckState, AgedTelemetry
<1>3. StartRequest # None
    BY NoneAssumption DEF Request, MotionRequest
<1>4. Sends(s, StartCommand) <=> s.pending = None /\ HasFreshStatus(s) /\ Stopped(s)
    <2>1. MayAsk(s, StartCommand) <=> s.pending = None /\ HasFreshStatus(s)
        BY <1>1 DEF MayAsk
    <2>2. HasFreshStatus(s) => s.status # None
        BY DEF HasFreshStatus
    <2>3. s.status # None =>
            (RequestFor(StartCommand, ControlSpeed(s.status.telemetry)) # None <=> Stopped(s))
        BY <1>1, <1>2, <1>3, ControlSpeedMoves, RequestForIs DEF Stopped
    <2> QED BY <1>1, <2>1, <2>2, <2>3 DEF Sends, Requested, NothingToStop
<1> QED BY <1>4 DEF walkingpad_start

LEMMA TruthOfStop ==
    ASSUME NEW s \in DeckState
    PROVE  /\ walkingpad_stop(s) = "Ok" => Sends(s, StopCommand)
           /\ walkingpad_stop(s) = "Disabled" => ~Sends(s, StopCommand)
<1>1. StopRequest # None
    BY NoneAssumption DEF Request
<1>2. Sends(s, StopCommand) <=>
        /\ s.connection \in {"Connected", "Faulted"}
        /\ ~(s.pending = None /\ HasFreshStatus(s) /\ ~IsMoving(s.status.telemetry))
    BY <1>1 DEF Sends, Requested, MayAsk, NothingToStop
<1>3. HasFreshStatus(s) => s.connection = "Connected" /\ s.status # None
    BY DEF HasFreshStatus
<1> QED BY <1>2, <1>3 DEF walkingpad_stop, Moving

LEMMA TruthOfAdjust ==
    ASSUME NEW s \in DeckState, NEW c \in Command, c # StopCommand
    PROVE  /\ walkingpad_speed_adjust(s, c) = "Ok" => Sends(s, c)
           /\ walkingpad_speed_adjust(s, c) = "Disabled" => ~Sends(s, c)
<1>1. HasFreshStatus(s) => s.status # None
    BY DEF HasFreshStatus
<1>2. Sends(s, c) <=> HasFreshStatus(s) /\ s.pending = None /\ TargetOf(s, c) # None
    BY <1>1 DEF Sends, Requested, MayAsk, NothingToStop, TargetOf
<1> QED BY <1>2 DEF walkingpad_speed_adjust

LEMMA TruthOfChoice ==
    ASSUME NEW s \in DeckState, NEW c \in Command, c.op = "SetSpeed", c.tenths \in Speeds,
           c # StopCommand
    PROVE  /\ walkingpad_speed_choice(s, c) = "Ok" => Sends(s, c)
           /\ walkingpad_speed_choice(s, c) = "Disabled" => ~Sends(s, c)
<1>1. SetSpeedRequest(c.tenths) # None
    BY NoneAssumption DEF Request, MotionRequest
<1>2. s.status # None => s.status.telemetry \in Telemetry
    BY DEF DeckState, AgedTelemetry
<1>3. Sends(s, c) <=> HasFreshStatus(s) /\ Moving(s) /\ s.pending = None
    <2>1. HasFreshStatus(s) => s.status # None
        BY DEF HasFreshStatus
    <2>2. s.status # None =>
            (RequestFor(c, ControlSpeed(s.status.telemetry)) # None <=> Moving(s))
        BY <1>1, <1>2, ControlSpeedMoves, RequestForIs DEF Moving
    <2> QED BY <2>1, <2>2 DEF Sends, Requested, MayAsk, NothingToStop
<1> QED BY <1>3 DEF walkingpad_speed_choice

\* The connection key: what READY and WALKING stand for.
LEMMA ConnectionKeyIs ==
    ASSUME NEW s \in DeckState, s.pending = None
    PROVE  /\ walkingpad_connection(s) = "Ok" => HasFreshStatus(s) /\ ~Moving(s)
           /\ walkingpad_connection(s) = "Selected" => HasFreshStatus(s) /\ Moving(s)
<1>1. walkingpad_connection(s) = walkingpad_connection_label(s)
    <2>1. ~PendingIs(s, StartRequest) /\ ~PendingIs(s, StopRequest)
        BY DEF PendingIs
    <2> QED BY <2>1 DEF walkingpad_connection
<1>2. CASE s.connection \in {"Locked", "Faulted"}
    <2>1. walkingpad_connection_label(s) = "Error"
        BY <1>2 DEF walkingpad_connection_label
    <2> QED BY <1>1, <2>1
<1>3. CASE s.connection = "Connecting"
    <2>1. walkingpad_connection_label(s) = "Loading"
        BY <1>3 DEF walkingpad_connection_label
    <2> QED BY <1>1, <2>1
<1>4. CASE s.connection = "Disconnected"
    <2>1. walkingpad_connection_label(s) = "Disabled"
        BY <1>4 DEF walkingpad_connection_label
    <2> QED BY <1>1, <2>1
<1>5. CASE s.connection = "Connected"
    <2>1. walkingpad_connection_label(s) =
              IF ~HasFreshStatus(s) THEN "Stale"
              ELSE IF Moving(s) THEN "Selected" ELSE "Ok"
        BY <1>5 DEF walkingpad_connection_label
    <2> QED BY <1>1, <2>1
<1> QED BY <1>2, <1>3, <1>4, <1>5 DEF DeckState, Connections

\* Every key of the WalkingPad pages tells the truth about what a press of it
\* would do, in every state of the deck.
THEOREM KeysAlwaysTellTheTruth == System => []KeysTellTheTruth
<1>1. DeckTypeOK => KeysTellTheTruth
    <2> SUFFICES ASSUME deck \in DeckState PROVE KeysTellTheTruth
        BY DEF DeckTypeOK
    <2>1. ASSUME NEW c \in KeyCommands
          PROVE  /\ KeyStatus(deck, c) = "Ok" => Sends(deck, c)
                 /\ KeyStatus(deck, c) = "Disabled" => ~Sends(deck, c)
        <3>1. CASE c.op = "Start"
            BY <3>1, KeyCommandKinds, KeyStatusIs, TruthOfStart
        <3>2. CASE c.op = "Stop"
            BY <3>2, KeyCommandKinds, KeyStatusIs, TruthOfStop
        <3>3. CASE c.op \in {"Increase", "Decrease"}
            BY <3>3, KeyCommandKinds, KeyStatusIs, TruthOfAdjust
        <3>4. CASE c.op = "SetSpeed"
            BY <3>4, KeyCommandKinds, KeyStatusIs, TruthOfChoice
        <3> QED BY <3>1, <3>2, <3>3, <3>4, KeyCommandKinds
    <2>2. walkingpad_connection(deck) = "Ok" /\ deck.pending = None =>
              walkingpad_start(deck) \in {"Ok", "Error"}
        <3> SUFFICES ASSUME walkingpad_connection(deck) = "Ok", deck.pending = None
                     PROVE  walkingpad_start(deck) \in {"Ok", "Error"}
            OBVIOUS
        <3>1. HasFreshStatus(deck) /\ Stopped(deck) /\ ~PendingIs(deck, StartRequest)
            BY ConnectionKeyIs DEF HasFreshStatus, Moving, Stopped, PendingIs
        <3> QED BY <3>1 DEF walkingpad_start
    <2>3. walkingpad_connection(deck) = "Selected" /\ deck.pending = None =>
              walkingpad_stop(deck) \in {"Ok", "Error"}
        <3> SUFFICES ASSUME walkingpad_connection(deck) = "Selected", deck.pending = None
                     PROVE  walkingpad_stop(deck) \in {"Ok", "Error"}
            OBVIOUS
        <3>1. deck.connection = "Connected" /\ Moving(deck) /\ ~PendingIs(deck, StopRequest)
            BY ConnectionKeyIs DEF HasFreshStatus, PendingIs
        <3> QED BY <3>1 DEF walkingpad_stop
    <2> QED BY <2>1, <2>2, <2>3 DEF KeysTellTheTruth
<1> QED BY <1>1, DeckTypeCorrect, PTL

-----------------------------------------------------------------------------
(* The answer to a command that waits: in a channel, in hand, being carried *)
(* out, or among the updates.                                               *)

Reports(u, r) ==
    \/ u.type = "Succeeded" /\ u.request = r
    \/ u.type = "Failed"
    \/ u.type = "Connection" /\ u.state # "Connected"

Told(r) == \E u \in Range(events) : Reports(u, r)
Queued(r) == r \in Range(normal)
Halting(r) == r = StopRequest /\ (phase = "stopping" \/ urgent # <<>>)

\* A motion command that still waits while a Stop is in the channel does not
\* wait for the command in hand, which the Stop is about to drop: the wait for
\* that one ended when the Stop was sent.
BehindStop(r) == urgent # <<>> /\ r # StopRequest => Queued(r) \/ Told(r)

AnswerInv ==
    deck.pending # None /\ ~deck.pending.awaiting =>
        /\ AnswerComing(deck.pending.request)
        /\ BehindStop(deck.pending.request)

LEMMA AnswerComingIs ==
    ASSUME NEW r
    PROVE  AnswerComing(r) <=> Queued(r) \/ inHand = r \/ Halting(r) \/ Told(r)
BY DEF AnswerComing, Queued, Halting, Told, Reports

LEMMA AnswerComingNext ==
    ASSUME NEW r
    PROVE  AnswerComing(r)' <=> Queued(r)' \/ inHand' = r \/ Halting(r)' \/ Told(r)'
BY DEF AnswerComing, Queued, Halting, Told, Reports

LEMMA OneSaid ==
    ASSUME NEW q \in Seq(Update), NEW u \in Update
    PROVE  Range(q \o <<u>>) = Range(q) \cup {u}
<1> DEFINE p == q \o <<u>>
<1>1. /\ Len(q) \in Nat
      /\ DOMAIN q = 1..Len(q)
      /\ DOMAIN p = 1..(Len(q) + 1)
      /\ \A i \in 1..Len(q) : p[i] = q[i]
      /\ p[Len(q) + 1] = u
    BY OneMoreUpdate
<1> HIDE DEF p
<1>2. Range(p) = Range(q) \cup {u}
    BY <1>1 DEF Range
<1> QED BY <1>2 DEF p

LEMMA TwoSaid ==
    ASSUME NEW q \in Seq(Update), NEW u \in Update, NEW v \in Update
    PROVE  Range(q \o <<u, v>>) = Range(q) \cup {u, v}
<1>1. q \o <<u>> \in Seq(Update)
    BY OneMoreUpdate
<1>2. Range((q \o <<u>>) \o <<v>>) = Range(q) \cup {u} \cup {v}
    BY <1>1, OneSaid
<1> QED BY <1>2, TwoMoreUpdates

\* What the task has told stays told.
LEMMA ToldStays ==
    ASSUME ServiceInv, ServiceStep
    PROVE  Range(events) \subseteq Range(events')
<1>1. events \in Seq(Update) /\ TaskSays
    BY TaskStep DEF ServiceInv, TypeOK
<1>2. ASSUME NEW u \in Update, Appends(<<u>>)
      PROVE  Range(events) \subseteq Range(events')
    BY <1>1, <1>2, OneSaid DEF Appends
<1>3. ASSUME NEW u \in Update, NEW v \in Update, Appends(<<u, v>>)
      PROVE  Range(events) \subseteq Range(events')
    BY <1>1, <1>3, TwoSaid DEF Appends
<1>4. CASE UNCHANGED events
    BY <1>4
<1>5. CASE \E r \in Request : Appends(<<Failed(r)>>) \/ Appends(<<Succeeded(r)>>)
    BY <1>2, <1>5, UpdateKinds
<1>6. CASE \E c \in Connections :
              \/ Appends(<<Connection(c)>>)
              \/ \E r \in Request : Appends(<<Failed(r), Connection(c)>>)
              \/ \E t \in Telemetry : Appends(<<Status(t), Connection(c)>>)
    BY <1>2, <1>3, <1>6, UpdateKinds
<1>7. CASE \E t \in Telemetry : Appends(<<Status(t)>>)
    BY <1>2, <1>7, UpdateKinds
<1> QED BY <1>1, <1>4, <1>5, <1>6, <1>7 DEF TaskSays

LEMMA TellsOne ==
    ASSUME TypeOK, NEW u \in Update, Publish(<<u>>), NEW r, Reports(u, r)
    PROVE  Told(r)'
<1>1. u \in Range(events')
    BY OneSaid DEF TypeOK, Publish
<1> QED BY <1>1 DEF Told, Reports

LEMMA TellsTwo ==
    ASSUME TypeOK, NEW u \in Update, NEW v \in Update, Publish(<<u, v>>),
           NEW r, Reports(u, r) \/ Reports(v, r)
    PROVE  Told(r)'
<1>1. u \in Range(events') /\ v \in Range(events')
    BY TwoSaid DEF TypeOK, Publish
<1> QED BY <1>1 DEF Told, Reports

LEMMA TakenOrQueued ==
    ASSUME TypeOK, TakeNormal, NEW r, Queued(r)
    PROVE  r = Head(normal) \/ Queued(r)'
<1>1. PICK i \in DOMAIN normal : r = normal[i]
    BY DEF Queued, Range
<1>2. /\ normal \in Seq(MotionRequest) /\ normal # <<>>
      /\ normal' = Tail(normal)
      /\ DOMAIN normal = 1..Len(normal) /\ Len(normal) \in Nat
    BY LenProperties DEF TypeOK, TakeNormal
<1>3. /\ Head(normal) = normal[1]
      /\ DOMAIN normal' = 1..(Len(normal) - 1)
      /\ \A j \in 1..(Len(normal) - 1) : normal'[j] = normal[j + 1]
    BY <1>2, HeadTailProperties, LenProperties
<1>4. CASE i = 1
    BY <1>1, <1>3, <1>4
<1>5. CASE i # 1
    <2>1. i - 1 \in DOMAIN normal' /\ normal'[i - 1] = r
        BY <1>1, <1>2, <1>3, <1>5
    <2> QED BY <2>1 DEF Queued, Range
<1> QED BY <1>4, <1>5

LEMMA AnswerStep ==
    ASSUME ServiceInv, ServiceStep, NEW r \in Request, AnswerComing(r), BehindStop(r)
    PROVE  AnswerComing(r)' /\ BehindStop(r)'
<1>0. /\ TypeOK
      /\ phase # "executing" => inHand = None
      /\ phase = "executing" => inHand \in MotionRequest
      /\ r # None
      /\ MotionRequest \subseteq Request /\ StopRequest \in Request
    BY NoneAssumption DEF ServiceInv, RequestInHand, Request
<1>1. Told(r) => Told(r)'
    BY ToldStays DEF Told, Reports
<1>2. Told(r)' => AnswerComing(r)' /\ BehindStop(r)'
    BY AnswerComingNext DEF BehindStop
<1>3. Queued(r) \/ inHand = r \/ Halting(r) \/ Told(r)
    BY AnswerComingIs
<1>4. CASE phase # "stopping" /\ UNCHANGED <<urgent, normal, inHand>>
    <2>1. Queued(r)' <=> Queued(r)
        BY <1>4 DEF Queued
    <2>2. Halting(r) => Halting(r)'
        BY <1>4 DEF Halting
    <2>3. AnswerComing(r)'
        BY <1>1, <1>3, <1>4, <2>1, <2>2, AnswerComingNext
    <2> QED BY <1>1, <1>4, <2>1, <2>3 DEF BehindStop
<1>5. CASE ConnectRefusesStop
    <2>1. Failed(StopRequest) \in Update /\ Connection("Connecting") \in Update
        BY <1>0, UpdateKinds DEF Connections
    <2>2. Reports(Failed(StopRequest), r)
        BY <1>0, UpdateKinds DEF Reports
    <2> QED BY <1>0, <1>2, <1>5, <2>1, <2>2, TellsTwo DEF ConnectRefusesStop
<1>6. CASE ConnectRefusesMotion
    <2>1. Failed(Head(normal)) \in Update /\ Connection("Connecting") \in Update
        BY <1>0, <1>6, UpdateKinds, TakeNormalType DEF Connections, ConnectRefusesMotion
    <2>2. Reports(Failed(Head(normal)), r)
        BY DEF Reports, Failed
    <2> QED BY <1>0, <1>2, <1>6, <2>1, <2>2, TellsTwo DEF ConnectRefusesMotion
<1>7. CASE WaitRefusesStop
    <2>1. Failed(StopRequest) \in Update /\ Reports(Failed(StopRequest), r)
        BY <1>0, UpdateKinds DEF Reports
    <2> QED BY <1>0, <1>2, <1>7, <2>1, TellsOne DEF WaitRefusesStop
<1>8. CASE WaitRefusesMotion \/ RefusesMotion
    <2>1. TakeNormal /\ Publish(<<Failed(Head(normal))>>)
        BY <1>8 DEF WaitRefusesMotion, RefusesMotion
    <2>2. Failed(Head(normal)) \in Update /\ Reports(Failed(Head(normal)), r)
        BY <1>0, <2>1, UpdateKinds, TakeNormalType DEF Reports
    <2> QED BY <1>0, <1>2, <2>1, <2>2, TellsOne
<1>9. CASE MotionFails
    <2>1. Failed(inHand) \in Update /\ Connection("Disconnected") \in Update
        BY <1>0, <1>9, UpdateKinds DEF Connections, MotionFails
    <2>2. Reports(Failed(inHand), r)
        BY DEF Reports, Failed
    <2> QED BY <1>0, <1>2, <1>9, <2>1, <2>2, TellsTwo DEF MotionFails
<1>10. CASE HaltFails
    <2>1. Failed(StopRequest) \in Update /\ Connection("Disconnected") \in Update
        BY <1>0, UpdateKinds DEF Connections
    <2>2. Reports(Failed(StopRequest), r)
        BY <1>0, UpdateKinds DEF Reports
    <2> QED BY <1>0, <1>2, <1>10, <2>1, <2>2, TellsTwo DEF HaltFails
<1>11. CASE PollFails
    <2>1. Connection("Disconnected") \in Update /\ Reports(Connection("Disconnected"), r)
        BY UpdateKinds DEF Connections, Reports
    <2> QED BY <1>0, <1>2, <1>11, <2>1, TellsOne DEF PollFails
<1>12. CASE TakesStop \/ StopPreempts
    <2>1. /\ urgent # <<>> /\ phase' = "stopping"
          /\ UNCHANGED <<normal, events>>
        BY <1>12 DEF TakesStop, StopPreempts, TakeUrgent
    <2>2. CASE r = StopRequest
        BY <2>1, <2>2, AnswerComingNext DEF Halting, BehindStop
    <2>3. CASE r # StopRequest
        <3>1. Queued(r)' \/ Told(r)'
            BY <1>1, <2>1, <2>3 DEF BehindStop, Queued
        <3> QED BY <3>1, AnswerComingNext DEF BehindStop
    <2> QED BY <2>2, <2>3
<1>13. CASE ExecutesMotion
    <2>1. /\ TakeNormal /\ urgent = <<>> /\ urgent' = <<>>
          /\ phase # "stopping" /\ phase # "executing"
          /\ inHand' = Head(normal)
        BY <1>13 DEF ExecutesMotion, TakeNormal, UrgentIdle, Serving
    <2>2. ~Halting(r) /\ inHand # r
        BY <1>0, <2>1 DEF Halting
    <2>3. BehindStop(r)'
        BY <2>1 DEF BehindStop
    <2> QED BY <1>0, <1>1, <1>3, <2>1, <2>2, <2>3, TakenOrQueued, AnswerComingNext
<1>14. CASE MotionSucceeds
    <2>1. /\ phase = "executing" /\ urgent = <<>>
          /\ UNCHANGED <<urgent, normal>>
          /\ Publish(<<Succeeded(inHand)>>)
        BY <1>14 DEF MotionSucceeds, UrgentIdle, channelVars
    <2>2. inHand = r => Told(r)'
        BY <1>0, <2>1, UpdateKinds, TellsOne DEF Reports
    <2>3. ~Halting(r) /\ BehindStop(r)'
        BY <2>1 DEF Halting, BehindStop
    <2>4. Queued(r) => Queued(r)'
        BY <2>1 DEF Queued
    <2> QED BY <1>1, <1>3, <2>2, <2>3, <2>4, AnswerComingNext
<1>15. CASE HaltSucceeds
    <2>1. /\ phase = "stopping"
          /\ UNCHANGED <<urgent, normal>>
          /\ Publish(<<Succeeded(StopRequest)>>)
        BY <1>15 DEF HaltSucceeds, channelVars
    <2>2. r = StopRequest => Told(r)'
        BY <1>0, <2>1, UpdateKinds, TellsOne DEF Reports
    <2>3. inHand # r
        BY <1>0, <2>1
    <2>4. Queued(r) => Queued(r)'
        BY <2>1 DEF Queued
    <2>5. Queued(r)' \/ Told(r)'
        BY <1>1, <1>3, <2>2, <2>3, <2>4 DEF Halting
    <2> QED BY <2>5, AnswerComingNext DEF BehindStop
<1>16. CASE StopsUnconnected \/ TakesShutdown \/ ShutdownPreempts
    BY <1>16, NotShutdown DEF StopsUnconnected, TakesShutdown, ShutdownPreempts
<1>17. CASE AcquireLock \/ ConnectOpens \/ ConnectFails \/ Retry
    BY <1>4, <1>17 DEF AcquireLock, ConnectOpens, ConnectFails, Retry, channelVars, commandVars
<1>18. CASE StartsPoll \/ Wakes \/ Disconnects
    BY <1>4, <1>18 DEF StartsPoll, Wakes, Disconnects, channelVars, commandVars
<1>19. CASE \E t \in Samples, c \in Counters : PollAnswers(t, c)
    BY <1>4, <1>19 DEF PollAnswers, channelVars, commandVars
<1> QED
    BY <1>5, <1>6, <1>7, <1>8, <1>9, <1>10, <1>11, <1>12, <1>13, <1>14, <1>15, <1>16,
       <1>17, <1>18, <1>19
    DEF ServiceStep, Handles, PadAnswers

\* An update that reports on the pending command ends its wait for an answer.
LEMMA ReportsEnd ==
    ASSUME NEW s \in DeckState, NEW u \in Update, s.pending # None,
           Reports(u, s.pending.request)
    PROVE  LET t == Applied(s, u) IN t.pending = None \/ t.pending.awaiting
<1> DEFINE t == Applied(s, u)
<1>1. CASE u.type = "Connection" /\ u.state \in Connections /\ u.state # "Connected"
    <2>1. t = ConnectionChanged(s, u.state)
        BY <1>1, AppliedIs
    <2> QED BY <1>1, <2>1, ConnectionStep
<1>2. CASE u.type = "Failed" /\ u.request \in Request
    <2>1. t = CommandFailed(s, u.request)
        BY <1>2, AppliedIs
    <2> QED BY <1>2, <2>1, FailedStep
<1>3. CASE u.type = "Succeeded" /\ u.request \in Request /\ u.request = s.pending.request
    <2>1. t = CommandSucceeded(s, u.request)
        BY <1>3, AppliedIs
    <2>2. CommandSucceeded(s, u.request).pending.awaiting
        BY <1>3, SucceededStep
    <2> QED BY <2>1, <2>2
<1>4. \/ u.type = "Connection" /\ u.state \in Connections /\ u.state # "Connected"
      \/ u.type = "Failed" /\ u.request \in Request
      \/ u.type = "Succeeded" /\ u.request \in Request /\ u.request = s.pending.request
    BY KindsOfUpdate DEF Reports
<1> QED BY <1>1, <1>2, <1>3, <1>4

LEMMA AnswerUnmoved ==
    ASSUME NEW r, AnswerComing(r), BehindStop(r),
           UNCHANGED <<urgent, normal, phase, inHand>>, Told(r) => Told(r)'
    PROVE  AnswerComing(r)' /\ BehindStop(r)'
<1>1. Queued(r)' <=> Queued(r)
    BY DEF Queued
<1>2. Halting(r)' <=> Halting(r)
    BY DEF Halting
<1>3. AnswerComing(r)'
    BY <1>1, <1>2, AnswerComingIs, AnswerComingNext
<1> QED BY <1>1, <1>3 DEF BehindStop

LEMMA AnswerInvStep == DeckInv /\ AnswerInv /\ [SystemNext]_vars => AnswerInv'
<1> SUFFICES ASSUME DeckInv, AnswerInv, [SystemNext]_vars,
                    deck'.pending # None, ~deck'.pending.awaiting,
                    NEW r, r = deck'.pending.request
             PROVE  AnswerComing(r)' /\ BehindStop(r)'
    BY DEF AnswerInv, AnswerComing, BehindStop, Queued, Told, Reports
<1>1. /\ ServiceInv /\ TypeOK /\ events \in Seq(Update)
      /\ Promises(events)
      /\ deck \in DeckState
    BY DEF DeckInv, DeckTypeOK, ServiceInv, TypeOK
<1>2. Commands \subseteq Command
    BY SystemAssumption
<1>3. ASSUME deck.pending # None, deck.pending.request = r,
             deck.pending.awaiting => deck'.pending.awaiting
      PROVE  r \in Request /\ AnswerComing(r) /\ BehindStop(r)
    <2>1. deck.pending \in Pending /\ ~deck.pending.awaiting
        BY <1>1, <1>3 DEF DeckState, Pending
    <2>2. r \in Request
        BY <1>3, <2>1 DEF Pending
    <2>3. AnswerComing(deck.pending.request) /\ BehindStop(deck.pending.request)
        BY <1>3, <2>1 DEF AnswerInv
    <2> QED BY <1>3, <2>2, <2>3
<1>4. CASE ServiceStep /\ UNCHANGED deckVars
    <2>1. UNCHANGED deck
        BY <1>4 DEF deckVars
    <2>2. r \in Request /\ AnswerComing(r) /\ BehindStop(r)
        BY <1>3, <2>1
    <2> QED BY <1>1, <1>4, <2>1, <2>2, AnswerStep
<1>5. ASSUME NEW c \in Commands, PressAccepted(c)
      PROVE  AnswerComing(r)' /\ BehindStop(r)'
    <2>1. r \in Request /\ Send(r)
        BY <1>1, <1>2, <1>5, AcceptedStep
    <2>2. CASE r = StopRequest
        <3>1. urgent' # <<>>
            BY <1>1, <2>1, <2>2, AppendProperties DEF Send, TypeOK
        <3>2. Halting(r)' /\ BehindStop(r)'
            BY <2>2, <3>1 DEF Halting, BehindStop
        <3> QED BY <2>1, <3>2, AnswerComingNext
    <2>3. CASE r # StopRequest
        <3>1. r \in MotionRequest /\ normal' = Append(normal, r)
            BY <2>1, <2>3 DEF Send, Request
        <3>2. /\ normal' \in Seq(MotionRequest)
              /\ Len(normal') = Len(normal) + 1
              /\ normal'[Len(normal) + 1] = r
              /\ Len(normal) \in Nat
            BY <1>1, <3>1, AppendProperties, LenProperties DEF TypeOK
        <3>3. Queued(r)'
            BY <3>2, LenProperties DEF Queued, Range
        <3> QED BY <2>1, <3>3, AnswerComingNext DEF BehindStop
    <2> QED BY <2>2, <2>3
<1>6. ASSUME UNCHANGED serviceVars, deck'.pending = deck.pending
      PROVE  AnswerComing(r)' /\ BehindStop(r)'
    <2>1. UNCHANGED <<urgent, normal, phase, inHand, events>>
        BY <1>6 DEF serviceVars
    <2>2. r \in Request /\ AnswerComing(r) /\ BehindStop(r)
        BY <1>3, <1>6
    <2>3. Told(r) => Told(r)'
        BY <2>1 DEF Told
    <2> QED BY <1>6, <2>1, <2>2, <2>3, AnswerUnmoved
<1>7. ASSUME NEW c \in Commands, PressRefused(c)
      PROVE  AnswerComing(r)' /\ BehindStop(r)'
    BY <1>1, <1>2, <1>6, <1>7, RefusedStep
<1>8. CASE FeedbackExpires \/ SystemWakes \/ UNCHANGED vars
    <2>1. UNCHANGED serviceVars /\ deck'.pending = deck.pending
        BY <1>1, <1>8 DEF FeedbackExpires, SystemWakes, vars, deckVars, DeckState
    <2> QED BY <1>6, <2>1
<1>9. CASE WalkingPadUpdate
    <2> DEFINE u == Head(events)
    <2>1. /\ events # <<>> /\ events' = Tail(events)
          /\ UNCHANGED <<urgent, normal, phase, inHand>>
          /\ deck' = Applied(deck, u)
        BY <1>9 DEF WalkingPadUpdate, ReadsEvent, channelVars, commandVars
    <2>2. /\ u = events[1] /\ u \in Update /\ 1 \in DOMAIN events
          /\ Len(events) \in Nat
          /\ DOMAIN events = 1..Len(events)
          /\ DOMAIN events' = 1..(Len(events) - 1)
          /\ \A i \in 1..(Len(events) - 1) : events'[i] = events[i + 1]
        BY <1>1, <2>1, FewerUpdates
    <2>3. u.type = "Status" => u.age \in 0..MaxLag
        BY <1>1, <2>2 DEF Promises
    <2> HIDE DEF u
    <2>4. Waits(deck, deck')
        BY <1>1, <2>1, <2>2, <2>3, AppliedStep
    <2>5. /\ deck.pending # None
          /\ deck.pending.request = r
          /\ deck.pending.awaiting => deck'.pending.awaiting
        BY <2>4 DEF Waits
    <2>6. r \in Request /\ AnswerComing(r) /\ BehindStop(r)
        BY <1>3, <2>5
    <2>7. ~Reports(u, r)
        BY <1>1, <2>1, <2>2, <2>5, ReportsEnd
    <2>8. Told(r) => Told(r)'
        <3> SUFFICES ASSUME NEW i \in DOMAIN events, Reports(events[i], r)
                     PROVE  \E j \in DOMAIN events' : Reports(events'[j], r)
            BY DEF Told, Range, Reports
        <3>1. i # 1
            BY <2>2, <2>7
        <3>2. i - 1 \in DOMAIN events' /\ events'[i - 1] = events[i]
            BY <2>2, <3>1
        <3> QED BY <3>2
    <2> QED BY <2>1, <2>5, <2>6, <2>8, AnswerUnmoved
<1>10. CASE Tick
    <2>1. /\ UNCHANGED <<urgent, normal, phase, inHand>>
          /\ events' = [i \in DOMAIN events |-> Older(events[i])]
          /\ deck' = AgedDeck(deck)
        BY <1>10 DEF Tick, TickService, channelVars, commandVars
    <2>2. /\ deck.pending # None
          /\ deck.pending.request = r
          /\ deck'.pending.awaiting = deck.pending.awaiting
        BY <1>1, <2>1, AgedDeckType
    <2>3. r \in Request /\ AnswerComing(r) /\ BehindStop(r)
        BY <1>3, <2>2
    <2>4. Told(r) => Told(r)'
        <3> SUFFICES ASSUME NEW i \in DOMAIN events, Reports(events[i], r)
                     PROVE  \E j \in DOMAIN events' : Reports(events'[j], r)
            BY DEF Told, Range, Reports
        <3>1. events[i] \in Update /\ i \in DOMAIN events' /\ events'[i] = Older(events[i])
            BY <1>1, <2>1, LenProperties
        <3>2. Reports(Older(events[i]), r)
            BY <3>1, OlderType DEF Reports
        <3> QED BY <3>1, <3>2
    <2> QED BY <2>1, <2>2, <2>3, <2>4, AnswerUnmoved
<1> QED BY <1>4, <1>5, <1>7, <1>8, <1>9, <1>10 DEF SystemNext

\* As long as a command waits for its answer, the answer, or the loss of the
\* connection, is on its way.
THEOREM PendingIsAlwaysAnswered == System => []PendingIsAnswered
<1>1. SystemInit => AnswerInv
    BY DEF SystemInit, NewDeck, AnswerInv
<1>2. AnswerInv => PendingIsAnswered
    BY DEF AnswerInv, PendingIsAnswered
<1> QED BY <1>1, <1>2, AnswerInvStep, DeckInvHolds, PTL DEF System

=============================================================================
