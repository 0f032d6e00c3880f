--------------------------- MODULE MotionWatchdog ----------------------------
(***************************************************************************)
(* MotionWatchdog of crates/streamdeckd/src/services/walkingpad.rs: a belt *)
(* that reports speed while its counters stand still for MotionTimeout is  *)
(* faulted.                                                                *)
(*                                                                         *)
(* A definition named Faulty... is a mutant: the code with a possible bug. *)
(* No part of the specification uses one; each shows that a property has   *)
(* something to say about the definition that follows it.                  *)
(***************************************************************************)
EXTENDS WalkingPadTypes

CONSTANTS
    Counters,       \* abstract readings of the motion counters
    MotionTimeout   \* MOTION_PROGRESS_TIMEOUT, in ticks

ASSUME WatchdogAssumption ==
    /\ MotionTimeout \in Nat \ {0}
    /\ None \notin Counters

-----------------------------------------------------------------------------
\* frozenFor is the age of last_progress; it stops growing at the timeout.
Watchdog == [ counters  : Counters \cup {None},
              frozenFor : 0..MotionTimeout,
              faulted   : BOOLEAN ]

NewWatchdog == [counters |-> None, frozenFor |-> 0, faulted |-> FALSE]

Rebased(c) == [counters |-> c, frozenFor |-> 0, faulted |-> FALSE]

\* Mutant: a recovery forgets to lift the fault.
FaultyAfterSample(w, t, c) ==
    IF ~IsMoving(t) \/ w.counters # c
    THEN [w EXCEPT !.counters = c, !.frozenFor = 0]
    ELSE [w EXCEPT !.faulted = w.faulted \/ w.frozenFor = MotionTimeout]

\* The controller counts as progressing when it stands still on purpose, or
\* when its counters differ from those of the previous sample.
Progresses(w, t, c) == ~IsMoving(t) \/ w.counters # c

\* The watchdog after a sample, and what the sample made of it.
AfterSample(w, t, c) ==
    IF Progresses(w, t, c) THEN Rebased(c)
    ELSE [w EXCEPT !.faulted = w.faulted \/ w.frozenFor = MotionTimeout]

Observation(w, t, c) ==
    CASE Progresses(w, t, c) /\ w.faulted      -> "Recovered"
      [] ~Progresses(w, t, c) /\ w.frozenFor = MotionTimeout ->
             IF w.faulted THEN "FaultContinues" ELSE "FaultDetected"
      [] OTHER                                  -> "Healthy"

\* One tick of the monotonic clock: last_progress is set from the first sample.
Aged(w) ==
    IF w.counters # None /\ w.frozenFor < MotionTimeout
    THEN [w EXCEPT !.frozenFor = @ + 1] ELSE w

=============================================================================
