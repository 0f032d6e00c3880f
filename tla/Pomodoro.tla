------------------------------- MODULE Pomodoro ------------------------------
(***************************************************************************)
(* The Pomodoro state machine of crates/streamdeck-core/src/pomodoro.rs,   *)
(* as operators on one record, the way the crate has it: free functions    *)
(* over PomodoroState.  Persistence and deadlines are PomodoroDaemon's.    *)
(*                                                                         *)
(* A tick is a second.  ends_at_ms becomes the time to go, which is        *)
(* negative once the end has passed.  The sums of minutes and the daily    *)
(* statistics follow the counts of completed phases and are left out.      *)
(*                                                                         *)
(* A definition named Faulty... is a mutant: the code with a possible bug. *)
(* No part of the specification uses one; each shows that a property has   *)
(* something to say about the definition that follows it.                  *)
(***************************************************************************)
EXTENDS Integers

CONSTANTS
    None,            \* the absent value of an Option
    Minute,          \* ticks in a minute
    LongBreakEvery,  \* LONG_BREAK_EVERY
    Shortest,        \* the lower bounds of the durations, by phase, in minutes
    Longest          \* the upper bounds

Phases == {"focus", "shortBreak", "longBreak"}

ASSUME PomodoroAssumption ==
    /\ Minute \in Nat \ {0}
    /\ LongBreakEvery \in Nat \ {0}
    /\ Shortest \in [Phases -> Nat \ {0}]
    /\ Longest \in [Phases -> Nat]
    /\ \A p \in Phases : Shortest[p] <= Longest[p]
    /\ None \notin Int
    /\ None \notin Phases

-----------------------------------------------------------------------------
(* PomodoroState.                                                           *)

Durations == { m \in [Phases -> Nat] :
                  \A p \in Phases : m[p] \in Shortest[p]..Longest[p] }

Timer == [ phase     : Phases,
           status    : {"Ready", "Running", "Paused"},
           endsIn    : Int \cup {None},
           remaining : Nat,
           minutes   : [Phases -> Nat],
           cycle     : Nat,
           completed : [Phases -> Nat],
           pending   : Phases \cup {None} ]

NoneCompleted == [p \in Phases |-> 0]

\* A first start, with the durations of the configuration.
NewTimer(minutes) ==
    [ phase |-> "focus", status |-> "Ready", endsIn |-> None,
      remaining |-> minutes["focus"] * Minute, minutes |-> minutes,
      cycle |-> 0, completed |-> NoneCompleted, pending |-> None ]

FullLength(t, p) == t.minutes[p] * Minute

Within(n, low, high) == IF n < low THEN low ELSE IF n > high THEN high ELSE n

\* normalize(), applied to whatever is loaded from the state file.
Normalize(t) ==
    LET minutes == [p \in Phases |-> Within(t.minutes[p], Shortest[p], Longest[p])]
        status == IF t.status = "Running" /\ t.endsIn = None THEN "Paused" ELSE t.status
    IN [t EXCEPT !.minutes = minutes,
                 !.cycle = IF @ > LongBreakEvery THEN LongBreakEvery ELSE @,
                 !.status = status,
                 !.endsIn = IF status = "Running" THEN @ ELSE None,
                 !.remaining = Within(@, 1, minutes[t.phase] * Minute * 4)]

-----------------------------------------------------------------------------
(* The transitions.                                                         *)

LongBreakDue(sessions) == sessions > 0 /\ sessions % LongBreakEvery = 0

\* What follows the current phase; a skipped focus counts towards the cycle.
NextPhase(t, skipping) ==
    IF t.phase # "focus" THEN "focus"
    ELSE IF LongBreakDue(t.cycle + (IF skipping THEN 1 ELSE 0))
         THEN "longBreak" ELSE "shortBreak"

\* Ready for phase p at its full length.
Queued(t, p) ==
    [t EXCEPT !.phase = p, !.status = "Ready", !.endsIn = None,
              !.remaining = FullLength(t, p)]

\* The phase has run out, and nobody has noticed yet.
Expired(t) == t.status = "Running" /\ t.endsIn # None /\ t.endsIn <= 0

\* complete_phase.
CompletePhase(t) ==
    LET cycle == CASE t.phase = "focus"      -> t.cycle + 1
                   [] t.phase = "shortBreak" -> t.cycle
                   [] t.phase = "longBreak"  -> 0
        more == [t.completed EXCEPT ![t.phase] = @ + 1]
        counted == [t EXCEPT !.cycle = cycle, !.completed = more, !.pending = t.phase]
    IN Queued(counted, NextPhase(counted, FALSE))

Reconcile(t) == IF Expired(t) THEN CompletePhase(t) ELSE t

\* Mutant: the timer is paused or resumed as it was last looked at.
FaultyToggle(t) ==
    IF t.status = "Running" /\ t.endsIn # None
    THEN [t EXCEPT !.status = "Paused", !.remaining = IF t.endsIn < 1 THEN 1 ELSE t.endsIn,
                   !.endsIn = None]
    ELSE [t EXCEPT !.status = "Running", !.endsIn = t.remaining]

Toggle(t) ==
    LET now == Reconcile(t) IN
    IF now.status = "Running" /\ now.endsIn # None
    THEN [now EXCEPT !.status = "Paused", !.remaining = now.endsIn, !.endsIn = None]
    ELSE [now EXCEPT !.status = "Running", !.endsIn = now.remaining]

StartPhase(t, p) ==
    [t EXCEPT !.phase = p, !.status = "Running", !.endsIn = FullLength(t, p),
              !.remaining = FullLength(t, p)]

Skip(t) ==
    Queued([t EXCEPT !.cycle = IF t.phase = "longBreak" THEN 0 ELSE @],
           NextPhase(t, TRUE))

ResetSession(t) == Queued([t EXCEPT !.cycle = 0], "focus")

Acknowledge(t) == [t EXCEPT !.pending = None]

\* Mutant: a step from just below a bound is not clamped.
FaultyStepped(m, p, delta) ==
    CASE delta > 0 /\ m >= Longest[p]  -> Shortest[p]
      [] delta < 0 /\ m <= Shortest[p] -> Longest[p]
      [] OTHER -> m + delta

\* A step beyond a bound wraps round to the other one.
Stepped(m, p, delta) ==
    CASE delta > 0 /\ m >= Longest[p]  -> Shortest[p]
      [] delta < 0 /\ m <= Shortest[p] -> Longest[p]
      [] OTHER -> Within(m + delta, Shortest[p], Longest[p])

\* adjust_duration: the phase in progress is shifted with its length, and never
\* ends sooner than in a second.
AdjustDuration(t, p, delta) ==
    LET next == Stepped(t.minutes[p], p, delta)
        shift == (next - t.minutes[p]) * Minute
        shifted(n) == IF n + shift < 1 THEN 1 ELSE n + shift
        adjusted == [t EXCEPT !.minutes[p] = next]
    IN
    CASE t.phase # p \/ shift = 0 -> adjusted
      [] t.phase = p /\ shift # 0 /\ t.status = "Running" ->
             IF t.endsIn = None THEN adjusted
             ELSE [adjusted EXCEPT !.endsIn = shifted(@),
                                   !.remaining = shifted(t.endsIn)]
      [] t.phase = p /\ shift # 0 /\ t.status = "Ready" ->
             [adjusted EXCEPT !.remaining = next * Minute]
      [] t.phase = p /\ shift # 0 /\ t.status = "Paused" ->
             [adjusted EXCEPT !.remaining = shifted(@)]

\* n ticks of wall-clock time.  An end longer ago than any adjustment can make
\* up for is as good as one MaxLate ticks ago.
Later(t, n, maxLate) ==
    IF t.endsIn = None THEN t
    ELSE [t EXCEPT !.endsIn = IF @ - n < -maxLate THEN -maxLate ELSE @ - n]

=============================================================================
