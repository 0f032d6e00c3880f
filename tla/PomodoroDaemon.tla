---------------------------- MODULE PomodoroDaemon ---------------------------
(***************************************************************************)
(* The Pomodoro timer as the runtime runs it                               *)
(* (crates/streamdeckd/src/runtime/mod.rs): presses and commands, the      *)
(* deadlines, the completion alert with its helper process                 *)
(* (crates/streamdeckd/src/alert.rs), sleep, and a restart from the state  *)
(* file.                                                                   *)
(*                                                                         *)
(* Deadlines are kept in monotonic time, the end of a phase in wall-clock  *)
(* time: the two run apart when the system sleeps or the wall clock is     *)
(* slewed.  Every save and load succeeds here; Daemons has those that fail. *)
(*                                                                         *)
(* A definition named Faulty... is a mutant: the code with a possible bug. *)
(* No part of the specification uses one; each shows that a property has   *)
(* something to say about the definition that follows it.                  *)
(***************************************************************************)
EXTENDS Pomodoro, Sequences

CONSTANTS
    FirstMinutes,   \* the durations of the configuration
    Step,           \* the step of the duration keys, by phase
    MaxLate,        \* an end longer ago than this is as good as this long ago
    Naps,           \* how long the system may sleep, or the daemon be down
    MaxCompleted,   \* bound: completions counted, by phase
    MaxLag,         \* bound: ticks the wall clock falls behind a deadline
    MaxInbox        \* bound: helper outcomes waiting

ASSUME DaemonAssumption ==
    /\ FirstMinutes \in Durations
    /\ Step \in [Phases -> Nat]
    /\ MaxLate \in Nat
    /\ \A p \in Phases : (Longest[p] - Shortest[p]) * Minute <= MaxLate
    /\ Naps \subseteq Nat
    /\ MaxCompleted \in [Phases -> Nat]
    /\ MaxLag \in Nat
    /\ MaxInbox \in Nat

VARIABLES
    timer,         \* PersistentState.pomodoro
    saved,         \* the same, as the state file has it
    completionIn,  \* time to the PomodoroCompletion deadline, or None
    ticking,       \* the CountdownTick deadline is set
    sounding,      \* the AlertSound deadline is set
    alert,         \* Runtime.alert, or None
    inbox,         \* HelperOutcome events on their way
    page,          \* the visible page: shows the timer, is the panel, or neither
    wokeUp,        \* a sleep has been detected, or is about to be
    lag            \* auxiliary: how far the wall clock has fallen behind since
                   \* the completion deadline was set

vars == << timer, saved, completionIn, ticking, sounding, alert, inbox, page,
           wokeUp, lag >>

-----------------------------------------------------------------------------
Pages == {"timer", "other", "panel"}
Outcomes == {"Dismissed", "StartNext"}

ShowsCountdown(t, p) ==
    \/ p = "timer" /\ (t.status = "Running" \/ t.pending # None)
    \/ p = "panel"

\* schedule_pomodoro_deadlines.
SchedulePomodoroDeadlines(t, p) ==
    /\ completionIn' = IF t.status = "Running" /\ t.endsIn # None
                       THEN IF t.endsIn > 0 THEN t.endsIn ELSE 0
                       ELSE None
    /\ ticking' = ShowsCountdown(t, p)
    /\ lag' = 0

Persist == saved' = timer'

\* The phase that finished, the one its helper offers to start, and whether the
\* helper may still answer.
Alerts == [phase : Phases, next : Phases, helper : BOOLEAN]

ASSUME AlertAssumption == None \notin Alerts

\* reconcile_pomodoro: a completion is saved, and its alert takes the place of an
\* earlier one.
ReconcilePomodoro ==
    /\ timer' = Reconcile(timer)
    /\ alert' = IF Expired(timer)
                THEN [phase |-> timer.phase, next |-> timer'.phase, helper |-> TRUE]
                ELSE alert
    /\ saved' = IF Expired(timer) THEN timer' ELSE saved

\* acknowledge_completion, but for the timer itself: the helper is killed.
CloseAlert == alert' = None /\ sounding' = FALSE

-----------------------------------------------------------------------------
(* Presses, and the commands of streamdeckctl that are executed like them.  *)

Commands ==
    [op : {"Toggle", "Skip", "Reset"}]
        \cup [op : {"Start"}, phase : Phases]
        \cup [op : {"Adjust"}, phase : Phases, sign : {1, -1}]

\* apply_pomodoro.
ApplyPomodoro(c, t) ==
    CASE c.op = "Toggle" -> Toggle(t)
      [] c.op = "Skip"   -> Skip(t)
      [] c.op = "Reset"  -> ResetSession(t)
      [] c.op = "Start"  -> StartPhase(t, c.phase)
      [] c.op = "Adjust" -> AdjustDuration(t, c.phase, c.sign * Step[c.phase])

\* Mutant: the press is carried out before the completion is acknowledged.
FaultyExecute(c) ==
    /\ timer' = Acknowledge(ApplyPomodoro(c, timer))
    /\ Persist
    /\ SchedulePomodoroDeadlines(timer', page)
    /\ UNCHANGED << alert, sounding, inbox, page, wokeUp >>

\* execute: any interaction acknowledges a pending completion first.
Execute(c) ==
    /\ timer' = ApplyPomodoro(c, Acknowledge(timer))
    /\ CloseAlert
    /\ Persist
    /\ SchedulePomodoroDeadlines(timer', page)
    /\ UNCHANGED << inbox, page, wokeUp >>

\* A press of any other bound key, and the acknowledge command.
AcknowledgeCompletion ==
    /\ timer' = Acknowledge(timer)
    /\ CloseAlert
    /\ saved' = IF timer.pending # None THEN timer' ELSE saved
    /\ UNCHANGED << completionIn, ticking, inbox, page, wokeUp, lag >>

\* A press that changes the page, maybe for one of the same kind:
\* after_page_change saves it and sets the deadlines anew.
Navigate(p) ==
    /\ page' = p
    /\ timer' = Acknowledge(timer)
    /\ CloseAlert
    /\ Persist
    /\ SchedulePomodoroDeadlines(timer', p)
    /\ UNCHANGED << inbox, wokeUp >>

\* The panel's own deadline: the same without a press.
PanelCloses ==
    /\ page = "panel"
    /\ page' \in {"timer", "other"}
    /\ saved' = timer
    /\ SchedulePomodoroDeadlines(timer, page')
    /\ UNCHANGED << timer, alert, sounding, inbox, wokeUp >>

-----------------------------------------------------------------------------
(* The alert helper.                                                        *)

\* The helper prints one outcome, and two tasks pass it on; the helper stays in
\* AlertState until it is closed.
HelperAnswers(o) ==
    /\ alert # None /\ alert.helper
    /\ alert' = [alert EXCEPT !.helper = FALSE]
    /\ Len(inbox) < MaxInbox
    /\ inbox' = Append(inbox, o)
    /\ UNCHANGED << timer, saved, completionIn, ticking, sounding, page, wokeUp,
                    lag >>

\* Mutant: the phase the helper started is not saved.
FaultyHelperOutcome ==
    /\ inbox # <<>>
    /\ inbox' = Tail(inbox)
    /\ CloseAlert
    /\ timer' = IF Head(inbox) = "StartNext"
                THEN StartPhase(Acknowledge(timer), timer.phase) ELSE Acknowledge(timer)
    /\ saved' = Acknowledge(saved)
    /\ SchedulePomodoroDeadlines(timer', page)
    /\ UNCHANGED << page, wokeUp >>

\* helper_outcome: whatever the timer shows by now is what StartNext starts.
HelperOutcome ==
    /\ inbox # <<>>
    /\ inbox' = Tail(inbox)
    /\ CloseAlert
    /\ \/ /\ Head(inbox) = "StartNext"
          /\ timer' = StartPhase(Acknowledge(timer), timer.phase)
          /\ Persist
          /\ SchedulePomodoroDeadlines(timer', page)
       \/ /\ Head(inbox) = "Dismissed"
          /\ timer' = Acknowledge(timer)
          /\ saved' = IF timer.pending # None THEN timer' ELSE saved
          /\ UNCHANGED << completionIn, ticking, lag >>
    /\ UNCHANGED << page, wokeUp >>

-----------------------------------------------------------------------------
(* handle_deadlines.                                                        *)

\* DeadlineId::PomodoroCompletion: the deadlines are only set anew when the
\* wall clock agrees that the phase is over.
CompletionDue ==
    /\ completionIn = 0
    /\ ReconcilePomodoro
    /\ IF Expired(timer)
       THEN sounding' = TRUE /\ SchedulePomodoroDeadlines(timer', page)
       ELSE completionIn' = None /\ UNCHANGED << ticking, sounding, lag >>
    /\ UNCHANGED << inbox, page, wokeUp >>

\* Mutant: the tick repaints, and leaves the completion deadline alone.
FaultyCountdownTick ==
    /\ ticking
    /\ ticking' = ShowsCountdown(timer, page)
    /\ UNCHANGED << timer, saved, completionIn, alert, sounding, inbox, page,
                    wokeUp, lag >>

\* DeadlineId::CountdownTick: once a second, from the state as it is.
CountdownTick ==
    /\ ticking
    /\ SchedulePomodoroDeadlines(timer, page)
    /\ UNCHANGED << timer, saved, alert, sounding, inbox, page, wokeUp >>

\* DeadlineId::AlertSound: sets itself again.
RepeatAlertSound ==
    /\ sounding
    /\ sounding' = (alert # None)
    /\ UNCHANGED << timer, saved, completionIn, ticking, alert, inbox, page,
                    wokeUp, lag >>

\* DeadlineId::WalkingPadPersist, and every other save of the whole state.
OtherSave ==
    /\ saved' = timer
    /\ UNCHANGED << timer, completionIn, ticking, sounding, alert, inbox, page,
                    wokeUp, lag >>

\* wake: every deadline is drained and set anew.  (The panel that closes here
\* is PanelCloses, and a save on the way OtherSave.)
Wake ==
    /\ wokeUp
    /\ wokeUp' = FALSE
    /\ ReconcilePomodoro
    /\ sounding' = (alert' # None)
    /\ SchedulePomodoroDeadlines(timer', page)
    /\ UNCHANGED << inbox, page >>

-----------------------------------------------------------------------------
(* Time, sleep and restarts.                                                *)

PassTime(n) ==
    /\ timer' = Later(timer, n, MaxLate)
    /\ saved' = Later(saved, n, MaxLate)

CountDown == completionIn' = IF completionIn \in Nat \ {0} THEN completionIn - 1
                             ELSE completionIn

\* A second passes, and no completion deadline is overdue on the monotonic clock.
Tick ==
    /\ completionIn # 0
    /\ CountDown
    /\ PassTime(1)
    /\ UNCHANGED << ticking, alert, sounding, inbox, page, wokeUp, lag >>

\* A second of the monotonic clock that the wall clock does not count: it is
\* being slewed, or was set back.
WallClockLags ==
    /\ completionIn \in Nat \ {0}
    /\ lag < MaxLag
    /\ lag' = lag + 1
    /\ CountDown
    /\ UNCHANGED << timer, saved, ticking, alert, sounding, inbox, page, wokeUp >>

\* The system sleeps: only the wall clock goes on.  detect_sleep queues
\* SystemWoke when the loop next turns, behind what is queued already.
Sleeps(n) ==
    /\ PassTime(n)
    /\ wokeUp' = TRUE
    /\ UNCHANGED << completionIn, ticking, alert, sounding, inbox, page, lag >>

\* The daemon dies at some moment, and main and start() bring it up from the
\* state file after n ticks.  kill_on_drop takes the helper along.
Restarts(n) ==
    LET loaded == Normalize(Later(saved, n, MaxLate))
        expired == Expired(loaded)
    IN
    /\ timer' = Reconcile(loaded)
    /\ alert' = IF expired
                THEN [phase |-> loaded.phase, next |-> timer'.phase, helper |-> TRUE]
                ELSE None
    /\ sounding' = expired
    /\ saved' = IF expired THEN timer' ELSE Later(saved, n, MaxLate)
    /\ inbox' = <<>>
    /\ page' \in (IF page = "panel" THEN {"timer", "other"} ELSE {page})
    /\ SchedulePomodoroDeadlines(timer', page')
    /\ wokeUp' = FALSE

-----------------------------------------------------------------------------
Init ==
    /\ timer = NewTimer(FirstMinutes)
    /\ saved = timer
    /\ completionIn = None /\ ticking = FALSE
    /\ alert = None /\ sounding = FALSE
    /\ inbox = <<>>
    /\ page = "timer"
    /\ wokeUp = FALSE
    /\ lag = 0

\* Bound: no phase is begun that could not be counted any more.
CompletionsBound ==
    timer'.status = "Running" => timer'.completed[timer'.phase] < MaxCompleted[timer'.phase]

Press ==
    \/ \E c \in Commands : Execute(c) /\ CompletionsBound
    \/ AcknowledgeCompletion
    \/ \E p \in Pages : Navigate(p)

Helper ==
    \/ \E o \in Outcomes : HelperAnswers(o)
    \/ HelperOutcome /\ CompletionsBound

HandleDeadlines ==
    \/ CompletionDue
    \/ CountdownTick
    \/ RepeatAlertSound
    \/ OtherSave
    \/ PanelCloses

Time ==
    \/ Tick
    \/ WallClockLags
    \/ \E n \in Naps : Sleeps(n)
    \/ \E n \in Naps : Restarts(n)

Next == Press \/ Helper \/ HandleDeadlines \/ Wake \/ Time

Spec == Init /\ [][Next]_vars

\* The loop handles the deadlines that have come due and the sleeps it has
\* detected, and time passes.
FairSpec ==
    /\ Spec
    /\ WF_vars(CompletionDue)
    /\ WF_vars(CountdownTick)
    /\ WF_vars(Wake)
    /\ WF_vars(Tick)

-----------------------------------------------------------------------------
(* Properties.                                                              *)

\* Every variable keeps its type; what is left of a phase is never negative.
PomodoroTypeOK ==
    /\ timer \in Timer
    /\ saved \in Timer
    /\ completionIn \in Nat \cup {None}
    /\ ticking \in BOOLEAN
    /\ sounding \in BOOLEAN
    /\ alert \in Alerts \cup {None}
    /\ inbox \in Seq(Outcomes)
    /\ page \in Pages
    /\ wokeUp \in BOOLEAN
    /\ lag \in Nat

\* Whatever is pressed, adjusted, slept through or restarted, the timer never
\* has more to go than its phase is long, never less than a second unless it
\* runs, an end exactly while it runs, and durations within their bounds
\* (pomodoro.rs: normalize, toggle, adjust_duration; its test
\* a_running_timer_never_reports_more_than_its_phase_length).
WithinPhase(t) ==
    /\ t.minutes \in Durations
    /\ t.remaining \in 1..FullLength(t, t.phase)
    /\ t.status = "Running" <=> t.endsIn # None
    /\ t.endsIn # None => t.endsIn <= FullLength(t, t.phase)

TimerWithinPhase == WithinPhase(timer)

\* A daemon killed at any moment comes back with the timer it had, if saves and
\* loads succeed: every path that changes the timer has saved it, and normalize()
\* changes nothing of what the program itself writes but a cycle that ran past its
\* end
\* (runtime/mod.rs: after_effects, helper_outcome, reconcile_pomodoro).
RestartResumes ==
    Normalize(saved) =
        [timer EXCEPT !.cycle = IF @ > LongBreakEvery THEN LongBreakEvery ELSE @]

\* While an alert is up, the phase it reports is the one pending and the phase
\* its helper offers is the one that is queued: no press, sleep or late outcome
\* changes the timer under an alert (alert.rs: AlertState).
AlertIsCurrent ==
    alert # None => /\ timer.pending = alert.phase
                    /\ timer.phase = alert.next
                    /\ timer.status = "Ready"

\* The sound repeats as long as the alert is up and no longer, through sleeps,
\* late outcomes and alerts that replace each other (runtime/mod.rs:
\* schedule_alert_sound, wake, acknowledge_completion).
SoundFollowsAlert == sounding <=> alert # None

\* The completion deadline is set while the timer runs, and stands exactly at
\* the end of the phase: never before it but for what the wall clock has fallen
\* behind, and never after it but for a sleep about to be handled
\* (runtime/state.rs: schedule_pomodoro_deadlines, and every path that moves
\* the end).
DeadlineIsSet ==
    IF timer.status # "Running" THEN completionIn = None
    ELSE \/ completionIn = None /\ lag > 0
         \/ /\ completionIn # None
            /\ completionIn >= timer.endsIn - lag
            /\ wokeUp \/ completionIn = 0 \/ completionIn = timer.endsIn - lag

\* What is up at the end of a phase and what is due then belong to the phase that
\* has ended and the one that runs.
PhaseEndIsRight == AlertIsCurrent /\ SoundFollowsAlert /\ DeadlineIsSet

Credited == timer'.completed # timer.completed

\* The steps that change the timer and do not reconcile it first.
Unreconciled ==
    \/ \E c \in Commands : c.op \in {"Skip", "Reset", "Start", "Adjust"} /\ Execute(c)
    \/ inbox # <<>> /\ Head(inbox) = "StartNext" /\ HelperOutcome

\* A phase that ran is credited no more than once, and one that has run out stays
\* to be credited, through sleeps, late outcomes and restarts, until the next
\* toggle, deadline, wake or restart credits it.  That is less than pomodoro.rs's
\* "before every mutation so a deadline crossed while the daemon was asleep still
\* fires exactly once": skip, reset_session, start_phase and StartNext lose a
\* phase that ran out before them, and adjust_duration makes it end later.
CreditedOnce ==
    [][ /\ Credited =>
             /\ timer.status = "Running"
             /\ timer'.completed = [timer.completed EXCEPT ![timer.phase] = @ + 1]
             /\ ~Expired(timer')
        /\ Expired(timer) => Expired(timer') \/ Credited \/ Unreconciled
        /\ \A n \in Naps : Restarts(n) /\ Expired(Later(timer, n, MaxLate)) => Credited ]_vars

\* On a page that shows the timer, a phase that has run out is always noticed,
\* even when the wall clock made the deadline come due too early
\* (runtime/mod.rs: the CountdownTick branch of handle_deadlines).
ExpiryIsHandled ==
    <>[](page = "timer") => [](Expired(timer) => <>~Expired(timer))

=============================================================================
