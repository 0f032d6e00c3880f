---------------------------- MODULE PomodoroProofs ---------------------------
(***************************************************************************)
(* Theorems about PomodoroDaemon.  The first part says of every transition *)
(* of the timer what it preserves; the second carries that over the steps  *)
(* of the daemon.                                                          *)
(***************************************************************************)
EXTENDS PomodoroDaemon, TLAPS

\* What every timer of the program satisfies.
Sound(t) == t \in Timer /\ WithinPhase(t)

\* A phase has a positive length.
LEMMA LengthPositive ==
    ASSUME NEW m \in Durations, NEW p \in Phases
    PROVE  /\ m[p] \in Nat \ {0}
           /\ m[p] * Minute \in Nat \ {0}
           /\ m[p] \in Shortest[p]..Longest[p]
  <1>1. Shortest[p] \in Nat \ {0} /\ Longest[p] \in Nat
    BY PomodoroAssumption
  <1>2. m[p] \in Nat /\ m[p] \in Shortest[p]..Longest[p]
    BY DEF Durations
  <1>3. m[p] \in Nat \ {0}
    BY <1>1, <1>2
  <1>4. \A a, b \in Nat \ {0} : a * b \in Nat \ {0}
    BY SMT
  <1> QED  BY <1>2, <1>3, <1>4, PomodoroAssumption

\* A phase that is queued is sound whatever was running before.
LEMMA QueuedSound ==
    ASSUME NEW t \in Timer, t.minutes \in Durations, NEW p \in Phases
    PROVE  /\ Sound(Queued(t, p))
           /\ Queued(t, p).phase = p
           /\ Queued(t, p).status = "Ready"
           /\ Queued(t, p).completed = t.completed
           /\ Queued(t, p).pending = t.pending
           /\ ~Expired(Queued(t, p))
  <1>1. FullLength(t, p) \in Nat \ {0}
    BY LengthPositive DEF FullLength
  <1>2. Queued(t, p) \in Timer
    BY <1>1 DEF Queued, Timer
  <1>3. /\ Queued(t, p).minutes = t.minutes
        /\ Queued(t, p).remaining = FullLength(t, p)
        /\ Queued(t, p).endsIn = None
        /\ Queued(t, p).phase = p
        /\ Queued(t, p).status = "Ready"
        /\ Queued(t, p).completed = t.completed
        /\ Queued(t, p).pending = t.pending
    BY DEF Queued, Timer
  <1>4. WithinPhase(Queued(t, p))
    BY <1>1, <1>3 DEF WithinPhase, FullLength
  <1> QED  BY <1>2, <1>3, <1>4 DEF Sound, Expired

\* The phase that follows is a phase.
LEMMA NextPhaseType ==
    ASSUME NEW t \in Timer, NEW s \in BOOLEAN
    PROVE  NextPhase(t, s) \in Phases
  BY DEF NextPhase, Phases

\* A completion counts the phase that ran, once, and queues the next one.
LEMMA CompletePhaseSound ==
    ASSUME NEW t \in Timer, Sound(t)
    PROVE  /\ Sound(CompletePhase(t))
           /\ CompletePhase(t).status = "Ready"
           /\ CompletePhase(t).pending = t.phase
           /\ CompletePhase(t).completed = [t.completed EXCEPT ![t.phase] = @ + 1]
  <1> DEFINE cycle == CASE t.phase = "focus"      -> t.cycle + 1
                        [] t.phase = "shortBreak" -> t.cycle
                        [] t.phase = "longBreak"  -> 0
             more == [t.completed EXCEPT ![t.phase] = @ + 1]
             counted == [t EXCEPT !.cycle = cycle, !.completed = more, !.pending = t.phase]
  <1>1. cycle \in Nat
    BY DEF Timer, Phases
  <1>2. /\ counted \in Timer
        /\ counted.minutes = t.minutes
        /\ counted.pending = t.phase
        /\ counted.completed = [t.completed EXCEPT ![t.phase] = @ + 1]
    <2>1. more \in [Phases -> Nat]
      BY DEF Timer
    <2> HIDE DEF cycle, more
    <2>2. /\ counted \in Timer
          /\ counted.minutes = t.minutes
          /\ counted.pending = t.phase
          /\ counted.completed = more
      BY <1>1, <2>1 DEF Timer
    <2> QED  BY <2>2 DEF more
  <1>3. t.minutes \in Durations
    BY DEF Sound, WithinPhase
  <1>4. CompletePhase(t) = Queued(counted, NextPhase(counted, FALSE))
    BY DEF CompletePhase
  <1> HIDE DEF counted
  <1> DEFINE next == NextPhase(counted, FALSE)
  <1>5. next \in Phases
    BY <1>2, NextPhaseType
  <1>6. counted.minutes \in Durations
    BY <1>2, <1>3
  <1> HIDE DEF next
  <1>7. /\ Sound(Queued(counted, next))
        /\ Queued(counted, next).status = "Ready"
        /\ Queued(counted, next).completed = counted.completed
        /\ Queued(counted, next).pending = counted.pending
    BY <1>2, <1>5, <1>6, QueuedSound
  <1>8. CompletePhase(t) = Queued(counted, next)
    BY <1>4 DEF next
  <1> QED  BY <1>2, <1>7, <1>8

\* reconcile: sound, and never expired afterwards.
LEMMA ReconcileSound ==
    ASSUME NEW t \in Timer, Sound(t)
    PROVE  /\ Sound(Reconcile(t))
           /\ ~Expired(Reconcile(t))
           /\ ~Expired(t) => Reconcile(t) = t
           /\ Expired(t) => /\ Reconcile(t).status = "Ready"
                            /\ Reconcile(t).pending = t.phase
                            /\ Reconcile(t).completed = [t.completed EXCEPT ![t.phase] = @ + 1]
  BY CompletePhaseSound DEF Reconcile, Expired

-----------------------------------------------------------------------------
\* A change from t to u credits a phase at most once, and only one that ran.
Credits(t, u) ==
    u.completed # t.completed =>
        /\ t.status = "Running"
        /\ u.completed = [t.completed EXCEPT ![t.phase] = @ + 1]
        /\ ~Expired(u)

\* reconcile credits the phase that has run out.
LEMMA ReconcileCredits ==
    ASSUME NEW t \in Timer, Sound(t)
    PROVE  Credits(t, Reconcile(t))
  BY ReconcileSound DEF Credits, Expired

\* toggle: what is left of a phase goes from the clock to the record and back.
LEMMA ToggleSound ==
    ASSUME NEW t \in Timer, Sound(t)
    PROVE  Sound(Toggle(t)) /\ Credits(t, Toggle(t))
  <1> DEFINE now == Reconcile(t)
  <1>1. /\ now \in Timer /\ WithinPhase(now)
        /\ ~Expired(now)
        /\ Credits(t, now)
        /\ now.completed # t.completed => now.status = "Ready"
    BY ReconcileSound, ReconcileCredits DEF Sound
  <1>2. Toggle(t) = IF now.status = "Running" /\ now.endsIn # None
                    THEN [now EXCEPT !.status = "Paused", !.remaining = now.endsIn,
                                     !.endsIn = None]
                    ELSE [now EXCEPT !.status = "Running", !.endsIn = now.remaining]
    BY DEF Toggle
  <1> HIDE DEF now
  <1>3. now.minutes \in Durations /\ FullLength(now, now.phase) \in Nat \ {0}
    BY <1>1, LengthPositive DEF WithinPhase, Timer, FullLength
  <1>4. CASE now.status = "Running" /\ now.endsIn # None
    <2> DEFINE u == [now EXCEPT !.status = "Paused", !.remaining = now.endsIn,
                                !.endsIn = None]
    <2>1. now.endsIn \in 1..FullLength(now, now.phase)
      BY <1>1, <1>3, <1>4 DEF WithinPhase, Timer, Expired
    <2>2. u \in Timer
      <3>1. now.endsIn \in Int /\ now.endsIn \in Nat
        BY <1>3, <2>1
      <3> QED  BY <1>1, <3>1 DEF Timer
    <2>3. /\ u.minutes = now.minutes /\ u.phase = now.phase
          /\ u.status = "Paused" /\ u.endsIn = None /\ u.remaining = now.endsIn
          /\ u.completed = now.completed
      BY <1>1 DEF Timer
    <2> HIDE DEF u
    <2>4. WithinPhase(u)
      BY <1>3, <2>1, <2>3 DEF WithinPhase, FullLength
    <2>5. Toggle(t) = u
      BY <1>2, <1>4 DEF u
    <2>6. Credits(t, u)
      BY <1>1, <2>3 DEF Credits, Expired
    <2> QED  BY <2>2, <2>4, <2>5, <2>6 DEF Sound
  <1>5. CASE ~(now.status = "Running" /\ now.endsIn # None)
    <2> DEFINE u == [now EXCEPT !.status = "Running", !.endsIn = now.remaining]
    <2>1. now.remaining \in 1..FullLength(now, now.phase)
      BY <1>1 DEF WithinPhase
    <2>2. u \in Timer
      <3>1. now.remaining \in Int /\ now.remaining \in Nat
        BY <1>3, <2>1
      <3> QED  BY <1>1, <3>1 DEF Timer
    <2>3. /\ u.minutes = now.minutes /\ u.phase = now.phase
          /\ u.status = "Running" /\ u.endsIn = now.remaining
          /\ u.remaining = now.remaining /\ u.completed = now.completed
      BY <1>1 DEF Timer
    <2> HIDE DEF u
    <2>4. u.endsIn # None
      BY <1>3, <2>1, <2>3, PomodoroAssumption
    <2>5. WithinPhase(u)
      BY <1>3, <2>1, <2>3, <2>4 DEF WithinPhase, FullLength
    <2>6. ~Expired(u)
      BY <1>3, <2>1, <2>3 DEF Expired
    <2>7. Toggle(t) = u
      BY <1>2, <1>5 DEF u
    <2>8. Credits(t, u)
      BY <1>1, <2>3, <2>6 DEF Credits
    <2> QED  BY <2>2, <2>5, <2>7, <2>8 DEF Sound
  <1> QED  BY <1>4, <1>5

\* start_phase: a whole phase to go.
LEMMA StartPhaseSound ==
    ASSUME NEW t \in Timer, Sound(t), NEW p \in Phases
    PROVE  Sound(StartPhase(t, p)) /\ Credits(t, StartPhase(t, p))
  <1> DEFINE u == StartPhase(t, p)
             full == FullLength(t, p)
  <1>1. t.minutes \in Durations /\ full \in Nat \ {0}
    BY LengthPositive DEF Sound, WithinPhase, FullLength
  <1>2. u = [t EXCEPT !.phase = p, !.status = "Running", !.endsIn = full,
                      !.remaining = full]
    BY DEF StartPhase
  <1>3. FullLength(u, p) = full
    BY <1>2 DEF FullLength, Timer
  <1> HIDE DEF u, full
  <1>4. u \in Timer
    <2>1. full \in Int /\ full \in Nat
      BY <1>1
    <2> QED  BY <1>2, <2>1 DEF Timer
  <1>5. /\ u.minutes = t.minutes /\ u.phase = p
        /\ u.status = "Running" /\ u.endsIn = full
        /\ u.remaining = full /\ u.completed = t.completed
    BY <1>2 DEF Timer
  <1>6. u.endsIn # None
    BY <1>1, <1>5, PomodoroAssumption
  <1>7. Sound(u)
    BY <1>1, <1>3, <1>4, <1>5, <1>6 DEF Sound, WithinPhase
  <1>8. Credits(t, u)
    BY <1>5 DEF Credits
  <1> QED  BY <1>7, <1>8 DEF u

\* skip and reset_session queue a phase, and credit nothing.
LEMMA SkipSound ==
    ASSUME NEW t \in Timer, Sound(t)
    PROVE  Sound(Skip(t)) /\ Credits(t, Skip(t))
  <1> DEFINE u == [t EXCEPT !.cycle = IF t.phase = "longBreak" THEN 0 ELSE @]
             next == NextPhase(t, TRUE)
  <1>1. u \in Timer /\ u.minutes = t.minutes /\ u.completed = t.completed
    BY DEF Timer
  <1>2. next \in Phases
    BY NextPhaseType
  <1>3. u.minutes \in Durations
    BY <1>1 DEF Sound, WithinPhase
  <1>4. Skip(t) = Queued(u, next)
    BY DEF Skip
  <1> HIDE DEF u, next
  <1> QED  BY <1>1, <1>2, <1>3, <1>4, QueuedSound DEF Credits

LEMMA ResetSessionSound ==
    ASSUME NEW t \in Timer, Sound(t)
    PROVE  Sound(ResetSession(t)) /\ Credits(t, ResetSession(t))
  <1> DEFINE u == [t EXCEPT !.cycle = 0]
  <1>1. u \in Timer /\ u.minutes = t.minutes /\ u.completed = t.completed
    BY DEF Timer
  <1>2. u.minutes \in Durations /\ "focus" \in Phases
    BY <1>1 DEF Sound, WithinPhase, Phases
  <1>3. ResetSession(t) = Queued(u, "focus")
    BY DEF ResetSession
  <1> HIDE DEF u
  <1> QED  BY <1>1, <1>2, <1>3, QueuedSound DEF Credits

\* acknowledge touches nothing but the pending completion.
LEMMA AcknowledgeSound ==
    ASSUME NEW t \in Timer
    PROVE  /\ Acknowledge(t) \in Timer
           /\ Acknowledge(t).phase = t.phase
           /\ Acknowledge(t).status = t.status
           /\ Acknowledge(t).endsIn = t.endsIn
           /\ Acknowledge(t).completed = t.completed
           /\ Acknowledge(t).cycle = t.cycle
           /\ Sound(t) => Sound(Acknowledge(t))
           /\ Expired(Acknowledge(t)) <=> Expired(t)
           /\ t.pending = None => Acknowledge(t) = t
  <1> DEFINE u == Acknowledge(t)
  <1>1. u \in Timer
    BY DEF Acknowledge, Timer
  <1>2. /\ u.phase = t.phase /\ u.status = t.status /\ u.endsIn = t.endsIn
        /\ u.completed = t.completed /\ u.minutes = t.minutes
        /\ u.remaining = t.remaining /\ u.cycle = t.cycle
    BY DEF Acknowledge, Timer
  <1>3. t.pending = None => u = t
    BY DEF Acknowledge, Timer
  <1> HIDE DEF u
  <1> QED  BY <1>1, <1>2, <1>3 DEF Sound, WithinPhase, FullLength, Expired, u

-----------------------------------------------------------------------------
\* A step of a duration stays within its bounds.
LEMMA SteppedBounds ==
    ASSUME NEW p \in Phases, NEW m \in Shortest[p]..Longest[p], NEW delta \in Int
    PROVE  Stepped(m, p, delta) \in Shortest[p]..Longest[p]
  <1>1. Shortest[p] \in Nat \ {0} /\ Longest[p] \in Nat /\ Shortest[p] <= Longest[p]
    BY PomodoroAssumption
  <1>2. m \in Int
    BY <1>1
  <1> QED  BY <1>1, <1>2 DEF Stepped, Within

\* A phase of a minutes, changed to b, shifts what is left of it to at least a
\* second and at most the new length.
LEMMA ShiftBounds ==
    ASSUME NEW a \in Nat \ {0}, NEW b \in Nat \ {0}, NEW n \in Int, n <= a * Minute
    PROVE  LET shift == (b - a) * Minute IN
           /\ shift \in Int
           /\ (IF n + shift < 1 THEN 1 ELSE n + shift) \in 1..(b * Minute)
           /\ shift = 0 => a = b
  <1>1. Minute \in Nat \ {0}
    BY PomodoroAssumption
  <1>2. a * Minute \in Nat \ {0} /\ b * Minute \in Nat \ {0}
    BY <1>1, SMT
  <1>3. (b - a) * Minute = b * Minute - a * Minute
    BY <1>1, SMT
  <1>4. \A d \in Int : d * Minute = 0 => d = 0
    BY <1>1, SMT
  <1>5. (b - a) * Minute = 0 => b - a = 0
    BY <1>4
  <1> QED  BY <1>1, <1>2, <1>3, <1>5

\* adjust_duration keeps a phase in progress within its new length.
LEMMA AdjustDurationSound ==
    ASSUME NEW t \in Timer, Sound(t), NEW p \in Phases, NEW delta \in Int
    PROVE  Sound(AdjustDuration(t, p, delta)) /\ Credits(t, AdjustDuration(t, p, delta))
  <1> DEFINE next == Stepped(t.minutes[p], p, delta)
             shift == (next - t.minutes[p]) * Minute
             shifted(n) == IF n + shift < 1 THEN 1 ELSE n + shift
             minutes == [t.minutes EXCEPT ![p] = next]
             adjusted == [t EXCEPT !.minutes[p] = next]
             u == AdjustDuration(t, p, delta)
  <1>1. t.minutes \in Durations /\ WithinPhase(t) /\ t.phase \in Phases
    BY DEF Sound, WithinPhase, Timer
  <1>2. /\ t.minutes[p] \in Nat \ {0}
        /\ t.minutes[p] \in Shortest[p]..Longest[p]
        /\ next \in Shortest[p]..Longest[p]
    BY <1>1, LengthPositive, SteppedBounds
  <1>3. next \in Nat \ {0} /\ minutes \in Durations /\ next * Minute \in Nat \ {0}
    <2>1. next \in Nat \ {0}
      BY <1>2, PomodoroAssumption
    <2> HIDE DEF next
    <2>2. minutes \in Durations
      BY <1>1, <1>2, <2>1 DEF Durations
    <2>3. minutes[p] = next
      BY <1>1 DEF Durations
    <2> QED  BY <2>1, <2>2, <2>3, LengthPositive
  <1>4. /\ shift \in Int
        /\ \A n \in Int : n <= t.minutes[p] * Minute => shifted(n) \in 1..(next * Minute)
        /\ shift = 0 => t.minutes[p] = next
    <2> HIDE DEF next
    <2>1. 0 \in Int /\ 0 <= t.minutes[p] * Minute
      BY <1>1, LengthPositive
    <2> QED  BY <1>2, <1>3, <2>1, ShiftBounds
  <1>5. /\ adjusted \in Timer
        /\ adjusted.minutes = minutes
        /\ adjusted.phase = t.phase /\ adjusted.status = t.status
        /\ adjusted.endsIn = t.endsIn /\ adjusted.remaining = t.remaining
        /\ adjusted.completed = t.completed
    <2> HIDE DEF next
    <2>1. adjusted = [t EXCEPT !.minutes = minutes]
      BY DEF Timer
    <2>2. minutes \in [Phases -> Nat]
      BY <1>3 DEF Durations
    <2> HIDE DEF minutes, adjusted
    <2> QED  BY <2>1, <2>2 DEF Timer
  <1>6. u = CASE t.phase # p \/ shift = 0 -> adjusted
              [] t.phase = p /\ shift # 0 /\ t.status = "Running" ->
                     IF t.endsIn = None THEN adjusted
                     ELSE [adjusted EXCEPT !.endsIn = shifted(@),
                                           !.remaining = shifted(t.endsIn)]
              [] t.phase = p /\ shift # 0 /\ t.status = "Ready" ->
                     [adjusted EXCEPT !.remaining = next * Minute]
              [] t.phase = p /\ shift # 0 /\ t.status = "Paused" ->
                     [adjusted EXCEPT !.remaining = shifted(@)]
    BY DEF AdjustDuration
  <1> HIDE DEF next, shift, minutes, adjusted, u, shifted
  <1>7. minutes[t.phase] = IF t.phase = p THEN next ELSE t.minutes[t.phase]
    BY <1>1 DEF minutes, Durations
  <1>8. CASE t.phase # p \/ shift = 0
    <2>1. u = adjusted
      BY <1>6, <1>8
    <2>2. minutes[t.phase] = t.minutes[t.phase]
      BY <1>4, <1>7, <1>8
    <2>3. WithinPhase(u)
      BY <1>1, <1>3, <1>5, <2>1, <2>2 DEF WithinPhase, FullLength
    <2> QED  BY <1>5, <2>1, <2>3 DEF Sound, Credits, u
  <1>9. CASE t.phase = p /\ shift # 0
    <2>1. /\ t.remaining \in 1..(t.minutes[p] * Minute)
          /\ t.endsIn # None => t.endsIn <= t.minutes[p] * Minute
          /\ t.endsIn # None <=> t.status = "Running"
          /\ t.remaining \in Nat /\ t.endsIn \in Int \cup {None}
          /\ t.status \in {"Ready", "Running", "Paused"}
      BY <1>1, <1>9 DEF WithinPhase, FullLength, Timer
    <2>2. minutes[p] = next
      BY <1>7, <1>9
    <2>3. CASE t.status = "Running"
      <3>1. t.endsIn \in Int
        BY <2>1, <2>3
      <3>2. shifted(t.endsIn) \in 1..(next * Minute)
        BY <1>4, <2>1, <2>3, <3>1
      <3>3. u = [adjusted EXCEPT !.endsIn = shifted(t.endsIn),
                                 !.remaining = shifted(t.endsIn)]
        BY <1>5, <1>6, <1>9, <2>1, <2>3
      <3>4. shifted(t.endsIn) \in Nat /\ shifted(t.endsIn) \in Int
        BY <1>3, <3>2
      <3>5. /\ u \in Timer
            /\ u.minutes = minutes /\ u.phase = p /\ u.status = "Running"
            /\ u.endsIn = shifted(t.endsIn) /\ u.remaining = shifted(t.endsIn)
            /\ u.completed = t.completed
        BY <1>5, <1>9, <2>3, <3>3, <3>4 DEF Timer
      <3>6. u.endsIn # None
        BY <3>4, <3>5, PomodoroAssumption
      <3>7. WithinPhase(u)
        BY <1>3, <2>2, <3>2, <3>4, <3>5, <3>6 DEF WithinPhase, FullLength
      <3> QED  BY <3>5, <3>7 DEF Sound, Credits, u
    <2>4. CASE t.status # "Running"
      <3> DEFINE left == IF t.status = "Ready" THEN next * Minute
                         ELSE shifted(t.remaining)
      <3>1. shifted(t.remaining) \in 1..(next * Minute)
        <4>1. t.remaining \in Int /\ t.remaining <= t.minutes[p] * Minute
          BY <1>1, <2>1, LengthPositive
        <4> QED  BY <1>4, <4>1
      <3>2. left \in 1..(next * Minute) /\ left \in Nat
        BY <1>3, <3>1
      <3>3. u = [adjusted EXCEPT !.remaining = left]
        BY <1>5, <1>6, <1>9, <2>1, <2>4
      <3> HIDE DEF left
      <3>4. /\ u \in Timer
            /\ u.minutes = minutes /\ u.phase = p /\ u.status = t.status
            /\ u.endsIn = t.endsIn /\ u.remaining = left
            /\ u.completed = t.completed
        BY <1>5, <1>9, <3>2, <3>3 DEF Timer
      <3>5. WithinPhase(u)
        BY <1>3, <2>1, <2>2, <2>4, <3>2, <3>4 DEF WithinPhase, FullLength
      <3> QED  BY <3>4, <3>5 DEF Sound, Credits, u
    <2> QED  BY <2>3, <2>4
  <1> QED  BY <1>8, <1>9 DEF u

\* Any press or command on the timer.
LEMMA ApplyPomodoroSound ==
    ASSUME NEW t \in Timer, Sound(t), NEW c \in Commands
    PROVE  Sound(ApplyPomodoro(c, t)) /\ Credits(t, ApplyPomodoro(c, t))
  <1> USE DEF ApplyPomodoro
  <1>1. CASE c \in [op : {"Toggle", "Skip", "Reset"}]
    <2>1. c.op \in {"Toggle", "Skip", "Reset"}
      BY <1>1
    <2> QED  BY <2>1, ToggleSound, SkipSound, ResetSessionSound
  <1>2. CASE c \in [op : {"Start"}, phase : Phases]
    <2>1. c.op = "Start" /\ c.phase \in Phases
      BY <1>2
    <2> QED  BY <2>1, StartPhaseSound
  <1>3. CASE c \in [op : {"Adjust"}, phase : Phases, sign : {1, -1}]
    <2>1. c.op = "Adjust" /\ c.phase \in Phases /\ c.sign \in {1, -1}
      BY <1>3
    <2>2. Step[c.phase] \in Nat
      BY <2>1, DaemonAssumption
    <2>3. c.sign * Step[c.phase] \in Int
      BY <2>1, <2>2
    <2>4. ApplyPomodoro(c, t) = AdjustDuration(t, c.phase, c.sign * Step[c.phase])
      BY <2>1
    <2> QED  BY <2>1, <2>3, <2>4, AdjustDurationSound
  <1> QED  BY <1>1, <1>2, <1>3 DEF Commands

\* Time passes for the end of a phase only.
LEMMA LaterSound ==
    ASSUME NEW t \in Timer, Sound(t), NEW n \in Nat
    PROVE  LET u == Later(t, n, MaxLate) IN
           /\ Sound(u)
           /\ u = [t EXCEPT !.endsIn = u.endsIn]
           /\ u.endsIn = IF t.endsIn = None THEN None
                         ELSE IF t.endsIn - n < -MaxLate THEN -MaxLate ELSE t.endsIn - n
  <1> DEFINE u == Later(t, n, MaxLate)
             end == IF t.endsIn - n < -MaxLate THEN -MaxLate ELSE t.endsIn - n
  <1>1. t \in Timer /\ WithinPhase(t) /\ MaxLate \in Nat
    BY DaemonAssumption DEF Sound
  <1>2. FullLength(t, t.phase) \in Nat \ {0}
    BY <1>1, LengthPositive DEF WithinPhase, Timer, FullLength
  <1>3. CASE t.endsIn = None
    <2>1. u = t
      BY <1>3 DEF Later
    <2>2. t = [t EXCEPT !.endsIn = t.endsIn]
      BY <1>1 DEF Timer
    <2> QED  BY <1>3, <2>1, <2>2
  <1>4. CASE t.endsIn # None
    <2>1. t.endsIn \in Int /\ t.endsIn <= FullLength(t, t.phase)
      BY <1>1, <1>4 DEF Timer, WithinPhase
    <2>2. end \in Int /\ end <= FullLength(t, t.phase)
      BY <1>1, <1>2, <2>1
    <2>3. u = [t EXCEPT !.endsIn = end]
      BY <1>4 DEF Later
    <2> HIDE DEF u, end
    <2>4. /\ u \in Timer
          /\ u.endsIn = end /\ u.status = t.status /\ u.phase = t.phase
          /\ u.minutes = t.minutes /\ u.remaining = t.remaining
      BY <1>1, <2>2, <2>3 DEF Timer
    <2>5. u.endsIn # None
      BY <2>2, <2>4, PomodoroAssumption
    <2>6. WithinPhase(u)
      BY <1>1, <1>4, <2>2, <2>4, <2>5 DEF WithinPhase, FullLength
    <2> QED  BY <1>4, <2>3, <2>4, <2>6 DEF Sound, u, end
  <1> QED  BY <1>3, <1>4

-----------------------------------------------------------------------------
\* The cycle as a restart reads it.
Clamped(n) == IF n > LongBreakEvery THEN LongBreakEvery ELSE n

\* normalize clamps the cycle of a sound timer and leaves the rest alone.
LEMMA NormalizeSound ==
    ASSUME NEW t \in Timer, Sound(t)
    PROVE  Normalize(t) = [t EXCEPT !.cycle = Clamped(t.cycle)]
  <1> DEFINE minutes == [p \in Phases |-> Within(t.minutes[p], Shortest[p], Longest[p])]
             status == IF t.status = "Running" /\ t.endsIn = None THEN "Paused" ELSE t.status
  <1>1. t.minutes \in Durations /\ WithinPhase(t) /\ t.phase \in Phases
    BY DEF Sound, WithinPhase, Timer
  <1>2. minutes = t.minutes
    <2>1. \A p \in Phases : Within(t.minutes[p], Shortest[p], Longest[p]) = t.minutes[p]
      <3> SUFFICES ASSUME NEW p \in Phases
                   PROVE  Within(t.minutes[p], Shortest[p], Longest[p]) = t.minutes[p]
        OBVIOUS
      <3> QED  BY <1>1, LengthPositive, PomodoroAssumption DEF Within
    <2>2. t.minutes \in [Phases -> Nat]
      BY DEF Timer
    <2> QED  BY <2>1, <2>2
  <1>3. status = t.status
    BY <1>1 DEF WithinPhase
  <1>4. (IF status = "Running" THEN t.endsIn ELSE None) = t.endsIn
    BY <1>1, <1>3 DEF WithinPhase
  <1>5. Within(t.remaining, 1, minutes[t.phase] * Minute * 4) = t.remaining
    <2>1. t.minutes[t.phase] * Minute \in Nat \ {0}
      BY <1>1, LengthPositive
    <2>2. t.remaining \in 1..(t.minutes[t.phase] * Minute)
      BY <1>1 DEF WithinPhase, FullLength
    <2>3. minutes[t.phase] * Minute = t.minutes[t.phase] * Minute
      BY <1>2
    <2> HIDE DEF minutes
    <2> QED  BY <2>1, <2>2, <2>3 DEF Within
  <1>6. Normalize(t) = [t EXCEPT !.minutes = minutes,
                                 !.cycle = Clamped(t.cycle),
                                 !.status = status,
                                 !.endsIn = IF status = "Running" THEN t.endsIn ELSE None,
                                 !.remaining = Within(t.remaining, 1, minutes[t.phase] * Minute * 4)]
    BY DEF Normalize, Clamped
  <1> HIDE DEF minutes, status
  <1>7. Normalize(t) = [t EXCEPT !.minutes = t.minutes, !.cycle = Clamped(t.cycle),
                                 !.status = t.status, !.endsIn = t.endsIn,
                                 !.remaining = t.remaining]
    BY <1>2, <1>3, <1>4, <1>5, <1>6
  <1> QED  BY <1>7 DEF Timer

\* What the file has of the timer: all of it, but maybe a cycle past its end.
Matches(s, t) ==
    /\ s = [t EXCEPT !.cycle = s.cycle]
    /\ Clamped(s.cycle) = Clamped(t.cycle)

LEMMA MatchesFacts ==
    ASSUME NEW s \in Timer, NEW t \in Timer, Matches(s, t)
    PROVE  /\ s.phase = t.phase /\ s.status = t.status /\ s.endsIn = t.endsIn
           /\ s.remaining = t.remaining /\ s.minutes = t.minutes
           /\ s.completed = t.completed /\ s.pending = t.pending
           /\ WithinPhase(t) => Sound(s)
           /\ [s EXCEPT !.cycle = Clamped(s.cycle)] = [t EXCEPT !.cycle = Clamped(t.cycle)]
  <1>1. /\ s.phase = t.phase /\ s.status = t.status /\ s.endsIn = t.endsIn
        /\ s.remaining = t.remaining /\ s.minutes = t.minutes
        /\ s.completed = t.completed /\ s.pending = t.pending
    BY DEF Matches, Timer
  <1>2. [s EXCEPT !.cycle = Clamped(s.cycle)] = [t EXCEPT !.cycle = Clamped(t.cycle)]
    BY DEF Matches, Timer
  <1> QED  BY <1>1, <1>2 DEF Sound, WithinPhase, FullLength

LEMMA MatchesSelf ==
    ASSUME NEW t \in Timer
    PROVE  Matches(t, t)
  BY DEF Matches, Timer

-----------------------------------------------------------------------------
(* The daemon.  The invariants hold each other up: an alert stays current    *)
(* because a timer under it is Ready and so cannot run out, a restart        *)
(* resumes because what is in the file is a sound timer, and a deadline that *)
(* comes due finds the phase over because it was set for its end.            *)

PInv ==
    /\ PomodoroTypeOK
    /\ TimerWithinPhase
    /\ Matches(saved, timer)
    /\ AlertIsCurrent
    /\ SoundFollowsAlert
    /\ DeadlineIsSet

\* Deadlines set for a sound timer are right.
LEMMA ScheduleSets ==
    ASSUME NEW p \in Pages, Sound(timer'),
           SchedulePomodoroDeadlines(timer', p)
    PROVE  /\ DeadlineIsSet'
           /\ completionIn' \in Nat \cup {None}
           /\ ticking' \in BOOLEAN
           /\ lag' \in Nat
  <1>1. /\ timer' \in Timer
        /\ timer'.status = "Running" <=> timer'.endsIn # None
        /\ timer'.endsIn \in Int \cup {None}
        /\ lag' = 0
        /\ completionIn' = IF timer'.status = "Running" /\ timer'.endsIn # None
                           THEN IF timer'.endsIn > 0 THEN timer'.endsIn ELSE 0
                           ELSE None
    BY DEF Sound, WithinPhase, Timer, SchedulePomodoroDeadlines
  <1>2. ticking' \in BOOLEAN
    BY DEF SchedulePomodoroDeadlines, ShowsCountdown
  <1>3. CASE timer'.status # "Running"
    BY <1>1, <1>2, <1>3 DEF DeadlineIsSet
  <1>4. CASE timer'.status = "Running"
    <2>1. timer'.endsIn \in Int
      BY <1>1, <1>4
    <2>2. completionIn' = (IF timer'.endsIn > 0 THEN timer'.endsIn ELSE 0)
      BY <1>1, <1>4
    <2>3. completionIn' \in Nat /\ completionIn' # None
      BY <2>1, <2>2, PomodoroAssumption
    <2>4. /\ completionIn' >= timer'.endsIn - lag'
          /\ completionIn' = 0 \/ completionIn' = timer'.endsIn - lag'
      BY <1>1, <2>1, <2>2
    <2> QED  BY <1>1, <1>2, <1>4, <2>3, <2>4 DEF DeadlineIsSet
  <1> QED  BY <1>3, <1>4

\* The first start satisfies the invariant.
LEMMA InitEstablishes == Init => PInv
  <1> SUFFICES ASSUME Init PROVE PInv
    OBVIOUS
  <1>1. FirstMinutes \in Durations
    BY DaemonAssumption
  <1>2. FirstMinutes \in [Phases -> Nat] /\ FirstMinutes["focus"] * Minute \in Nat \ {0}
    BY <1>1, LengthPositive DEF Durations, Phases
  <1>3. NoneCompleted \in [Phases -> Nat]
    BY DEF NoneCompleted
  <1>4. timer \in Timer
    BY <1>2, <1>3 DEF Init, NewTimer, Timer, Phases
  <1>5. /\ timer.minutes = FirstMinutes /\ timer.phase = "focus"
        /\ timer.status = "Ready" /\ timer.endsIn = None
        /\ timer.remaining = FirstMinutes["focus"] * Minute
    BY DEF Init, NewTimer
  <1>6. WithinPhase(timer)
    BY <1>1, <1>2, <1>5 DEF WithinPhase, FullLength
  <1>7. Matches(saved, timer)
    BY <1>4, MatchesSelf DEF Init
  <1>8. PomodoroTypeOK
    <2>1. /\ saved = timer /\ completionIn = None /\ alert = None /\ inbox = <<>>
          /\ ticking = FALSE /\ sounding = FALSE /\ wokeUp = FALSE
          /\ page = "timer" /\ lag = 0
      BY DEF Init
    <2>2. inbox \in Seq(Outcomes)
      BY <2>1
    <2> QED  BY <1>4, <2>1, <2>2 DEF PomodoroTypeOK, Pages
  <1> QED
    BY <1>5, <1>6, <1>7, <1>8
    DEF PInv, TimerWithinPhase, AlertIsCurrent, SoundFollowsAlert, DeadlineIsSet, Init

\* A step that closes the alert, saves the timer and sets the deadlines anew.
LEMMA SettledStep ==
    ASSUME PInv, Sound(timer'), CloseAlert, Persist,
           NEW p \in Pages, SchedulePomodoroDeadlines(timer', p),
           page' \in Pages, wokeUp' \in BOOLEAN, inbox' \in Seq(Outcomes)
    PROVE  PInv'
  <1>1. timer' \in Timer /\ WithinPhase(timer') /\ saved' = timer'
    BY DEF Sound, Persist
  <1>2. Matches(saved', timer')
    BY <1>1, MatchesSelf
  <1>3. /\ DeadlineIsSet' /\ completionIn' \in Nat \cup {None}
        /\ ticking' \in BOOLEAN /\ lag' \in Nat
    BY ScheduleSets
  <1>4. alert' = None /\ sounding' = FALSE
    BY DEF CloseAlert
  <1>5. PomodoroTypeOK'
    BY <1>1, <1>3, <1>4 DEF PomodoroTypeOK
  <1> QED
    BY <1>1, <1>2, <1>3, <1>4, <1>5
    DEF PInv, TimerWithinPhase, AlertIsCurrent, SoundFollowsAlert

\* A step that acknowledges, and leaves the deadline alone.
LEMMA AcknowledgedStep ==
    ASSUME PInv, timer' = Acknowledge(timer), CloseAlert,
           saved' = IF timer.pending # None THEN timer' ELSE saved,
           inbox' \in Seq(Outcomes),
           UNCHANGED << completionIn, ticking, page, wokeUp, lag >>
    PROVE  PInv' /\ Credits(timer, timer')
  <1>1. timer \in Timer /\ saved \in Timer /\ Sound(timer)
    BY DEF PInv, PomodoroTypeOK, TimerWithinPhase, Sound
  <1>2. /\ timer' \in Timer /\ WithinPhase(timer')
        /\ timer'.status = timer.status /\ timer'.endsIn = timer.endsIn
        /\ timer'.completed = timer.completed
        /\ timer.pending = None => timer' = timer
    BY <1>1, AcknowledgeSound DEF Sound
  <1>3. saved' \in Timer /\ Matches(saved', timer')
    BY <1>1, <1>2, MatchesSelf DEF PInv
  <1>4. alert' = None /\ sounding' = FALSE
    BY DEF CloseAlert
  <1>5. PomodoroTypeOK'
    BY <1>2, <1>3, <1>4 DEF PInv, PomodoroTypeOK
  <1>6. DeadlineIsSet'
    BY <1>2 DEF PInv, DeadlineIsSet
  <1>7. Credits(timer, timer')
    BY <1>2 DEF Credits
  <1> QED
    BY <1>2, <1>3, <1>4, <1>5, <1>6, <1>7
    DEF PInv, TimerWithinPhase, AlertIsCurrent, SoundFollowsAlert

\* A press.
LEMMA PressStep ==
    ASSUME PInv, Press
    PROVE  PInv' /\ Credits(timer, timer')
  <1>1. /\ timer \in Timer /\ Sound(timer) /\ page \in Pages
        /\ wokeUp \in BOOLEAN /\ inbox \in Seq(Outcomes)
    BY DEF PInv, PomodoroTypeOK, TimerWithinPhase, Sound
  <1> DEFINE acknowledged == Acknowledge(timer)
  <1>2. /\ acknowledged \in Timer /\ Sound(acknowledged)
        /\ acknowledged.status = timer.status
        /\ acknowledged.phase = timer.phase
        /\ acknowledged.completed = timer.completed
    BY <1>1, AcknowledgeSound
  <1> HIDE DEF acknowledged
  <1>3. ASSUME NEW c \in Commands, Execute(c)
        PROVE  PInv' /\ Credits(timer, timer')
    <2>1. timer' = ApplyPomodoro(c, acknowledged)
      BY <1>3 DEF Execute, acknowledged
    <2>2. Sound(timer') /\ Credits(acknowledged, timer')
      BY <1>2, <2>1, ApplyPomodoroSound
    <2>3. Credits(timer, timer')
      BY <1>2, <2>2 DEF Credits
    <2>4. /\ CloseAlert /\ Persist /\ SchedulePomodoroDeadlines(timer', page)
          /\ page' \in Pages /\ wokeUp' \in BOOLEAN /\ inbox' \in Seq(Outcomes)
      BY <1>1, <1>3 DEF Execute
    <2> QED  BY <1>1, <2>2, <2>3, <2>4, SettledStep
  <1>4. CASE AcknowledgeCompletion
    <2>1. inbox' \in Seq(Outcomes)
      BY <1>1, <1>4 DEF AcknowledgeCompletion
    <2> QED  BY <1>4, <2>1, AcknowledgedStep DEF AcknowledgeCompletion
  <1>5. ASSUME NEW p \in Pages, Navigate(p)
        PROVE  PInv' /\ Credits(timer, timer')
    <2>1. timer' = acknowledged
      BY <1>5 DEF Navigate, acknowledged
    <2>2. Sound(timer') /\ Credits(timer, timer')
      BY <1>2, <2>1 DEF Credits
    <2>3. /\ CloseAlert /\ Persist /\ SchedulePomodoroDeadlines(timer', p)
          /\ page' \in Pages /\ wokeUp' \in BOOLEAN /\ inbox' \in Seq(Outcomes)
      BY <1>1, <1>5 DEF Navigate
    <2> QED  BY <2>2, <2>3, SettledStep
  <1> QED  BY <1>3, <1>4, <1>5 DEF Press

\* The alert helper: an answer on its way, and an answer that arrives, however
\* late.
LEMMA HelperStep ==
    ASSUME PInv, Helper
    PROVE  PInv' /\ Credits(timer, timer')
  <1>1. /\ timer \in Timer /\ Sound(timer) /\ page \in Pages
        /\ wokeUp \in BOOLEAN /\ inbox \in Seq(Outcomes)
    BY DEF PInv, PomodoroTypeOK, TimerWithinPhase, Sound
  <1>2. ASSUME NEW o \in Outcomes, HelperAnswers(o)
        PROVE  PInv' /\ Credits(timer, timer')
    <2>1. /\ alert # None /\ alert' = [alert EXCEPT !.helper = FALSE]
          /\ inbox' = Append(inbox, o)
          /\ UNCHANGED << timer, saved, completionIn, ticking, sounding, page, wokeUp,
                          lag >>
      BY <1>2 DEF HelperAnswers
    <2>2. alert \in Alerts
      BY <2>1 DEF PInv, PomodoroTypeOK
    <2>3. /\ alert' \in Alerts /\ alert'.phase = alert.phase
          /\ alert'.next = alert.next
      BY <2>1, <2>2 DEF Alerts
    <2>4. alert' # None
      BY <2>3, AlertAssumption
    <2>5. inbox' \in Seq(Outcomes)
      BY <1>1, <2>1
    <2>6. PomodoroTypeOK'
      BY <2>1, <2>3, <2>5 DEF PInv, PomodoroTypeOK
    <2>7. /\ TimerWithinPhase' /\ Matches(saved', timer') /\ DeadlineIsSet'
      BY <2>1 DEF PInv, TimerWithinPhase, DeadlineIsSet
    <2>8. AlertIsCurrent' /\ SoundFollowsAlert'
      BY <2>1, <2>3, <2>4 DEF PInv, AlertIsCurrent, SoundFollowsAlert
    <2>9. Credits(timer, timer')
      BY <2>1 DEF Credits
    <2> QED  BY <2>6, <2>7, <2>8, <2>9 DEF PInv
  <1>3. CASE HelperOutcome
    <2>1. /\ CloseAlert /\ UNCHANGED << page, wokeUp >>
          /\ inbox # <<>> /\ inbox' = Tail(inbox)
      BY <1>3 DEF HelperOutcome
    <2>2. inbox' \in Seq(Outcomes)
      BY <1>1, <2>1
    <2>3. CASE Head(inbox) = "StartNext"
      <3> DEFINE acknowledged == Acknowledge(timer)
      <3>1. /\ timer' = StartPhase(acknowledged, timer.phase)
            /\ Persist /\ SchedulePomodoroDeadlines(timer', page)
        BY <1>3, <2>3 DEF HelperOutcome
      <3>2. /\ acknowledged \in Timer /\ Sound(acknowledged)
            /\ acknowledged.status = timer.status
            /\ acknowledged.phase = timer.phase
            /\ acknowledged.completed = timer.completed
        BY <1>1, AcknowledgeSound
      <3> HIDE DEF acknowledged
      <3>3. timer.phase \in Phases
        BY <1>1 DEF Timer
      <3>4. Sound(timer') /\ Credits(acknowledged, timer')
        BY <3>1, <3>2, <3>3, StartPhaseSound
      <3>5. Credits(timer, timer')
        BY <3>2, <3>4 DEF Credits
      <3>6. page' \in Pages /\ wokeUp' \in BOOLEAN
        BY <1>1, <2>1
      <3> QED  BY <1>1, <2>1, <2>2, <3>1, <3>4, <3>5, <3>6, SettledStep
    <2>4. CASE Head(inbox) # "StartNext"
      <3>1. /\ timer' = Acknowledge(timer)
            /\ saved' = IF timer.pending # None THEN timer' ELSE saved
            /\ UNCHANGED << completionIn, ticking, lag >>
        BY <1>3, <2>4 DEF HelperOutcome
      <3> QED  BY <2>1, <2>2, <3>1, AcknowledgedStep
    <2> QED  BY <2>3, <2>4
  <1> QED  BY <1>2, <1>3 DEF Helper

\* What reconcile_pomodoro leaves, whichever deadline or event called it.
LEMMA ReconcileStep ==
    ASSUME PInv, ReconcilePomodoro
    PROVE  /\ Sound(timer') /\ saved' \in Timer /\ Matches(saved', timer')
           /\ ~Expired(timer')
           /\ ~Expired(timer) => timer' = timer /\ alert' = alert
           /\ Expired(timer) => alert' # None
           /\ alert' \in Alerts \cup {None}
           /\ AlertIsCurrent'
           /\ Credits(timer, timer')
  <1>1. /\ timer \in Timer /\ saved \in Timer /\ Sound(timer)
        /\ Matches(saved, timer) /\ alert \in Alerts \cup {None}
        /\ timer.phase \in Phases
    BY DEF PInv, PomodoroTypeOK, TimerWithinPhase, Sound, Timer
  <1>2. /\ timer' = Reconcile(timer)
        /\ alert' = IF Expired(timer)
                    THEN [phase |-> timer.phase, next |-> timer'.phase, helper |-> TRUE]
                    ELSE alert
        /\ saved' = IF Expired(timer) THEN timer' ELSE saved
    BY DEF ReconcilePomodoro
  <1>3. Sound(timer') /\ ~Expired(timer') /\ Credits(timer, timer')
    BY <1>1, <1>2, ReconcileSound, ReconcileCredits
  <1>4. CASE ~Expired(timer)
    <2>1. timer' = timer /\ alert' = alert /\ saved' = saved
      BY <1>1, <1>2, <1>4, ReconcileSound
    <2>2. AlertIsCurrent'
      BY <2>1 DEF PInv, AlertIsCurrent
    <2> QED  BY <1>1, <1>3, <1>4, <2>1, <2>2
  <1>5. CASE Expired(timer)
    <2>1. /\ timer'.status = "Ready" /\ timer'.pending = timer.phase
          /\ timer'.phase \in Phases /\ timer' \in Timer
      BY <1>1, <1>2, <1>3, <1>5, ReconcileSound DEF Sound, Timer
    <2>2. alert' = [phase |-> timer.phase, next |-> timer'.phase, helper |-> TRUE]
      BY <1>2, <1>5
    <2>3. alert' \in Alerts /\ alert'.phase = timer.phase /\ alert'.next = timer'.phase
      BY <1>1, <2>1, <2>2 DEF Alerts
    <2>4. alert' # None
      BY <2>3, AlertAssumption
    <2>5. AlertIsCurrent'
      BY <2>1, <2>3 DEF AlertIsCurrent
    <2>6. saved' = timer' /\ Matches(saved', timer')
      BY <1>2, <1>5, <2>1, MatchesSelf
    <2> QED  BY <1>3, <1>5, <2>1, <2>3, <2>4, <2>5, <2>6
  <1> QED  BY <1>4, <1>5

\* What is due in handle_deadlines.
LEMMA HandleDeadlinesStep ==
    ASSUME PInv, HandleDeadlines
    PROVE  PInv' /\ Credits(timer, timer')
  <1>1. /\ timer \in Timer /\ Sound(timer) /\ page \in Pages /\ lag \in Nat
        /\ wokeUp \in BOOLEAN /\ inbox \in Seq(Outcomes)
        /\ completionIn \in Nat \cup {None} /\ ticking \in BOOLEAN
        /\ (sounding <=> alert # None) /\ sounding \in BOOLEAN
        /\ timer.endsIn \in Int \cup {None}
        /\ timer.status = "Running" <=> timer.endsIn # None
    BY DEF PInv, PomodoroTypeOK, TimerWithinPhase, Sound, SoundFollowsAlert, Timer, WithinPhase
  <1>2. CASE CompletionDue
    <2>1. /\ completionIn = 0 /\ ReconcilePomodoro
          /\ UNCHANGED << inbox, page, wokeUp >>
      BY <1>2 DEF CompletionDue
    <2>2. /\ Sound(timer') /\ saved' \in Timer /\ Matches(saved', timer')
          /\ ~Expired(timer) => timer' = timer /\ alert' = alert
          /\ Expired(timer) => alert' # None
          /\ alert' \in Alerts \cup {None}
          /\ AlertIsCurrent' /\ Credits(timer, timer')
      BY <2>1, ReconcileStep
    <2>3. CASE Expired(timer)
      <3>1. sounding' = TRUE /\ SchedulePomodoroDeadlines(timer', page)
        BY <1>2, <2>3 DEF CompletionDue
      <3>2. /\ DeadlineIsSet' /\ completionIn' \in Nat \cup {None}
            /\ ticking' \in BOOLEAN /\ lag' \in Nat
        BY <1>1, <2>2, <3>1, ScheduleSets
      <3>3. SoundFollowsAlert'
        BY <2>2, <2>3, <3>1 DEF SoundFollowsAlert
      <3> QED
        BY <1>1, <2>1, <2>2, <3>1, <3>2, <3>3
        DEF PInv, PomodoroTypeOK, TimerWithinPhase, Sound
    <2>4. CASE ~Expired(timer)
      <3>1. completionIn' = None /\ UNCHANGED << ticking, sounding, lag >>
        BY <1>2, <2>4 DEF CompletionDue
      <3>2. timer' = timer /\ alert' = alert
        BY <2>2, <2>4
      <3>3. timer.status = "Running" => lag > 0
        <4>1. SUFFICES ASSUME timer.status = "Running" PROVE lag > 0
          OBVIOUS
        <4>2. timer.endsIn \in Int /\ timer.endsIn > 0
          BY <1>1, <2>4, <4>1 DEF Expired
        <4>3. 0 # None
          BY PomodoroAssumption
        <4>4. 0 >= timer.endsIn - lag
          BY <2>1, <4>1, <4>3 DEF PInv, DeadlineIsSet
        <4> QED  BY <1>1, <4>2, <4>4
      <3>4. DeadlineIsSet'
        BY <3>1, <3>2, <3>3 DEF DeadlineIsSet
      <3>5. SoundFollowsAlert'
        BY <1>1, <3>1, <3>2 DEF SoundFollowsAlert
      <3> QED
        BY <1>1, <2>1, <2>2, <3>1, <3>4, <3>5
        DEF PInv, PomodoroTypeOK, TimerWithinPhase, Sound
    <2> QED  BY <2>3, <2>4
  <1>3. CASE CountdownTick
    <2>1. /\ SchedulePomodoroDeadlines(timer', page)
          /\ UNCHANGED << timer, saved, alert, sounding, inbox, page, wokeUp >>
      BY <1>3 DEF CountdownTick
    <2>2. /\ DeadlineIsSet' /\ completionIn' \in Nat \cup {None}
          /\ ticking' \in BOOLEAN /\ lag' \in Nat
      BY <1>1, <2>1, ScheduleSets
    <2> QED
      BY <1>1, <2>1, <2>2
      DEF PInv, PomodoroTypeOK, TimerWithinPhase, AlertIsCurrent, SoundFollowsAlert, Credits
  <1>4. CASE RepeatAlertSound
    <2>1. /\ sounding' = sounding
          /\ UNCHANGED << timer, saved, completionIn, ticking, alert, inbox, page,
                          wokeUp, lag >>
      BY <1>1, <1>4 DEF RepeatAlertSound
    <2> QED
      BY <2>1
      DEF PInv, PomodoroTypeOK, TimerWithinPhase, AlertIsCurrent, SoundFollowsAlert,
          DeadlineIsSet, Credits
  <1>5. CASE OtherSave
    <2>1. /\ saved' = timer
          /\ UNCHANGED << timer, completionIn, ticking, sounding, alert, inbox, page,
                          wokeUp, lag >>
      BY <1>5 DEF OtherSave
    <2>2. Matches(saved', timer')
      BY <1>1, <2>1, MatchesSelf
    <2> QED
      BY <1>1, <2>1, <2>2
      DEF PInv, PomodoroTypeOK, TimerWithinPhase, AlertIsCurrent, SoundFollowsAlert,
          DeadlineIsSet, Credits
  <1>6. CASE PanelCloses
    <2>1. /\ page' \in Pages /\ saved' = timer
          /\ SchedulePomodoroDeadlines(timer', page')
          /\ UNCHANGED << timer, alert, sounding, inbox, wokeUp >>
      BY <1>6 DEF PanelCloses, Pages
    <2>2. /\ DeadlineIsSet' /\ completionIn' \in Nat \cup {None}
          /\ ticking' \in BOOLEAN /\ lag' \in Nat
      BY <1>1, <2>1, ScheduleSets
    <2>3. Matches(saved', timer')
      BY <1>1, <2>1, MatchesSelf
    <2> QED
      BY <1>1, <2>1, <2>2, <2>3
      DEF PInv, PomodoroTypeOK, TimerWithinPhase, AlertIsCurrent, SoundFollowsAlert, Credits
  <1> QED  BY <1>2, <1>3, <1>4, <1>5, <1>6 DEF HandleDeadlines

\* A wake: everything is set anew.
LEMMA WakeStep ==
    ASSUME PInv, Wake
    PROVE  PInv' /\ Credits(timer, timer')
  <1>1. /\ ReconcilePomodoro /\ wokeUp' = FALSE /\ sounding' = (alert' # None)
        /\ SchedulePomodoroDeadlines(timer', page)
        /\ UNCHANGED << inbox, page >>
    BY DEF Wake
  <1>2. page \in Pages /\ inbox \in Seq(Outcomes)
    BY DEF PInv, PomodoroTypeOK
  <1>3. /\ Sound(timer') /\ saved' \in Timer /\ Matches(saved', timer')
        /\ alert' \in Alerts \cup {None}
        /\ AlertIsCurrent' /\ Credits(timer, timer')
    BY <1>1, ReconcileStep
  <1>4. /\ DeadlineIsSet' /\ completionIn' \in Nat \cup {None}
        /\ ticking' \in BOOLEAN /\ lag' \in Nat
    BY <1>1, <1>2, <1>3, ScheduleSets
  <1> QED
    BY <1>1, <1>2, <1>3, <1>4
    DEF PInv, PomodoroTypeOK, TimerWithinPhase, Sound, SoundFollowsAlert

\* Time that passes does the same to the timer and to the file.
LEMMA PassTimeStep ==
    ASSUME PInv, NEW n \in Nat, PassTime(n)
    PROVE  /\ Sound(timer') /\ saved' \in Timer /\ Matches(saved', timer')
           /\ timer'.phase = timer.phase /\ timer'.status = timer.status
           /\ timer'.pending = timer.pending /\ timer'.completed = timer.completed
           /\ timer'.endsIn = IF timer.endsIn = None THEN None
                              ELSE IF timer.endsIn - n < -MaxLate THEN -MaxLate
                              ELSE timer.endsIn - n
  <1>1. /\ timer \in Timer /\ saved \in Timer /\ Sound(timer) /\ WithinPhase(timer)
        /\ Matches(saved, timer)
    BY DEF PInv, PomodoroTypeOK, TimerWithinPhase, Sound
  <1>2. Sound(saved) /\ saved.endsIn = timer.endsIn
    BY <1>1, MatchesFacts
  <1>3. timer' = Later(timer, n, MaxLate) /\ saved' = Later(saved, n, MaxLate)
    BY DEF PassTime
  <1>4. /\ Sound(timer')
        /\ timer' = [timer EXCEPT !.endsIn = timer'.endsIn]
        /\ timer'.endsIn = IF timer.endsIn = None THEN None
                           ELSE IF timer.endsIn - n < -MaxLate THEN -MaxLate
                           ELSE timer.endsIn - n
    BY <1>1, <1>3, LaterSound
  <1>5. /\ Sound(saved')
        /\ saved' = [saved EXCEPT !.endsIn = saved'.endsIn]
        /\ saved'.endsIn = IF saved.endsIn = None THEN None
                           ELSE IF saved.endsIn - n < -MaxLate THEN -MaxLate
                           ELSE saved.endsIn - n
    BY <1>1, <1>2, <1>3, LaterSound
  <1>6. saved'.endsIn = timer'.endsIn
    BY <1>2, <1>4, <1>5
  <1>7. saved'.cycle = saved.cycle /\ timer'.cycle = timer.cycle
    BY <1>1, <1>4, <1>5 DEF Timer
  <1>8. saved' = [timer' EXCEPT !.cycle = saved'.cycle]
    <2>1. saved = [timer EXCEPT !.cycle = saved.cycle]
      BY <1>1 DEF Matches
    <2> QED  BY <1>1, <1>4, <1>5, <1>6, <1>7, <2>1 DEF Timer
  <1>9. Matches(saved', timer')
    BY <1>1, <1>7, <1>8 DEF Matches
  <1>10. /\ timer'.phase = timer.phase /\ timer'.status = timer.status
         /\ timer'.pending = timer.pending /\ timer'.completed = timer.completed
    BY <1>1, <1>4 DEF Timer
  <1> QED  BY <1>4, <1>5, <1>9, <1>10 DEF Sound

\* The clocks and the sleep.
LEMMA ClockStep ==
    ASSUME PInv, Tick \/ WallClockLags \/ \E n \in Naps : Sleeps(n)
    PROVE  PInv' /\ Credits(timer, timer')
  <1>1. /\ timer \in Timer /\ Sound(timer) /\ lag \in Nat /\ MaxLate \in Nat
        /\ completionIn \in Nat \cup {None}
        /\ timer.endsIn \in Int \cup {None}
        /\ timer.status = "Running" <=> timer.endsIn # None
        /\ None \notin Int
    BY PomodoroAssumption, DaemonAssumption
    DEF PInv, PomodoroTypeOK, TimerWithinPhase, Sound, Timer, WithinPhase
  <1>2. CountDown => /\ completionIn' \in Nat \cup {None}
                     /\ completionIn \in Nat \ {0} => completionIn' = completionIn - 1
                     /\ completionIn = None => completionIn' = None
    BY <1>1 DEF CountDown
  <1>3. CASE Tick
    <2>1. /\ completionIn # 0 /\ CountDown /\ PassTime(1)
          /\ UNCHANGED << ticking, alert, sounding, inbox, page, wokeUp, lag >>
      BY <1>3 DEF Tick
    <2>2. /\ Sound(timer') /\ saved' \in Timer /\ Matches(saved', timer')
          /\ timer'.phase = timer.phase /\ timer'.status = timer.status
          /\ timer'.pending = timer.pending /\ timer'.completed = timer.completed
          /\ timer'.endsIn = IF timer.endsIn = None THEN None
                             ELSE IF timer.endsIn - 1 < -MaxLate THEN -MaxLate
                             ELSE timer.endsIn - 1
      BY <2>1, PassTimeStep
    <2>3. DeadlineIsSet'
      <3>1. CASE timer.status # "Running"
        BY <1>2, <2>1, <2>2, <3>1 DEF PInv, DeadlineIsSet
      <3>2. CASE timer.status = "Running" /\ completionIn = None
        BY <1>2, <2>1, <2>2, <3>2 DEF PInv, DeadlineIsSet
      <3>3. CASE timer.status = "Running" /\ completionIn # None
        <4>1. /\ completionIn \in Nat \ {0} /\ timer.endsIn \in Int
              /\ completionIn' = completionIn - 1 /\ completionIn' # None
          BY <1>1, <1>2, <2>1, <3>3
        <4>2. /\ completionIn >= timer.endsIn - lag
              /\ wokeUp \/ completionIn = timer.endsIn - lag
          BY <2>1, <3>3 DEF PInv, DeadlineIsSet
        <4>3. timer'.endsIn = IF timer.endsIn - 1 < -MaxLate THEN -MaxLate
                              ELSE timer.endsIn - 1
          BY <1>1, <2>2, <4>1
        <4>4. completionIn' >= timer'.endsIn - lag
          BY <1>1, <4>1, <4>2, <4>3
        <4>5. completionIn = timer.endsIn - lag => completionIn' = timer'.endsIn - lag
          BY <1>1, <4>1, <4>3
        <4> QED  BY <2>1, <2>2, <3>3, <4>1, <4>2, <4>4, <4>5 DEF DeadlineIsSet
      <3> QED  BY <3>1, <3>2, <3>3
    <2>4. AlertIsCurrent' /\ SoundFollowsAlert' /\ Credits(timer, timer')
      BY <2>1, <2>2 DEF PInv, AlertIsCurrent, SoundFollowsAlert, Credits
    <2> QED
      BY <1>2, <2>1, <2>2, <2>3, <2>4
      DEF PInv, PomodoroTypeOK, TimerWithinPhase, Sound
  <1>4. CASE WallClockLags
    <2>1. /\ completionIn \in Nat \ {0} /\ lag' = lag + 1 /\ CountDown
          /\ UNCHANGED << timer, saved, ticking, alert, sounding, inbox, page, wokeUp >>
      BY <1>4 DEF WallClockLags
    <2>2. completionIn' = completionIn - 1 /\ completionIn' # None
          /\ completionIn # None /\ completionIn # 0
      BY <1>1, <1>2, <2>1
    <2>3. timer.status = "Running" /\ timer.endsIn \in Int
      BY <1>1, <2>2 DEF PInv, DeadlineIsSet
    <2>4. /\ completionIn >= timer.endsIn - lag
          /\ wokeUp \/ completionIn = timer.endsIn - lag
      BY <2>2, <2>3 DEF PInv, DeadlineIsSet
    <2>5. /\ completionIn' >= timer.endsIn - lag'
          /\ wokeUp \/ completionIn' = timer.endsIn - lag'
      BY <1>1, <2>1, <2>2, <2>3, <2>4
    <2>6. DeadlineIsSet'
      BY <2>1, <2>2, <2>3, <2>5 DEF DeadlineIsSet
    <2>7. lag' \in Nat
      BY <1>1, <2>1
    <2> QED
      BY <1>2, <2>1, <2>6, <2>7
      DEF PInv, PomodoroTypeOK, TimerWithinPhase, AlertIsCurrent, SoundFollowsAlert, Credits
  <1>5. ASSUME NEW n \in Naps, Sleeps(n)
        PROVE  PInv' /\ Credits(timer, timer')
    <2>1. /\ PassTime(n) /\ wokeUp' = TRUE
          /\ UNCHANGED << completionIn, ticking, alert, sounding, inbox, page, lag >>
      BY <1>5 DEF Sleeps
    <2>2. n \in Nat
      BY DaemonAssumption
    <2>3. /\ Sound(timer') /\ saved' \in Timer /\ Matches(saved', timer')
          /\ timer'.phase = timer.phase /\ timer'.status = timer.status
          /\ timer'.pending = timer.pending /\ timer'.completed = timer.completed
          /\ timer'.endsIn = IF timer.endsIn = None THEN None
                             ELSE IF timer.endsIn - n < -MaxLate THEN -MaxLate
                             ELSE timer.endsIn - n
      BY <2>1, <2>2, PassTimeStep
    <2>4. DeadlineIsSet'
      <3>1. CASE timer.status # "Running" \/ completionIn = None
        BY <2>1, <2>3, <3>1 DEF PInv, DeadlineIsSet
      <3>2. CASE timer.status = "Running" /\ completionIn # None
        <4>1. completionIn \in Nat /\ timer.endsIn \in Int
          BY <1>1, <3>2
        <4>2. completionIn >= timer.endsIn - lag
          BY <3>2 DEF PInv, DeadlineIsSet
        <4>3. timer'.endsIn = IF timer.endsIn - n < -MaxLate THEN -MaxLate
                              ELSE timer.endsIn - n
          BY <1>1, <2>3, <4>1
        <4>4. completionIn' >= timer'.endsIn - lag'
          BY <1>1, <2>1, <2>2, <4>1, <4>2, <4>3
        <4> QED  BY <2>1, <2>3, <3>2, <4>4 DEF DeadlineIsSet
      <3> QED  BY <3>1, <3>2
    <2>5. AlertIsCurrent' /\ SoundFollowsAlert' /\ Credits(timer, timer')
      BY <2>1, <2>3 DEF PInv, AlertIsCurrent, SoundFollowsAlert, Credits
    <2> QED
      BY <2>1, <2>3, <2>4, <2>5
      DEF PInv, PomodoroTypeOK, TimerWithinPhase, Sound
  <1> QED  BY <1>3, <1>4, <1>5

\* A restart from the file, which may find the phase over.
LEMMA RestartStep ==
    ASSUME PInv, NEW n \in Naps, Restarts(n)
    PROVE  PInv' /\ Credits(timer, timer')
  <1> DEFINE read == Later(saved, n, MaxLate)
             loaded == Normalize(read)
  <1>1. /\ timer \in Timer /\ saved \in Timer /\ WithinPhase(timer)
        /\ Matches(saved, timer) /\ n \in Nat /\ page \in Pages
        /\ LongBreakEvery \in Nat
    BY PomodoroAssumption, DaemonAssumption DEF PInv, PomodoroTypeOK, TimerWithinPhase
  <1>2. /\ Sound(saved) /\ saved.phase = timer.phase
        /\ saved.status = timer.status /\ saved.completed = timer.completed
    BY <1>1, MatchesFacts
  <1>3. Sound(read) /\ read = [saved EXCEPT !.endsIn = read.endsIn]
    BY <1>1, <1>2, LaterSound
  <1>4. loaded = [read EXCEPT !.cycle = Clamped(read.cycle)]
    BY <1>3, NormalizeSound DEF Sound
  <1>5. /\ timer' = Reconcile(loaded)
        /\ alert' = IF Expired(loaded)
                    THEN [phase |-> loaded.phase, next |-> timer'.phase, helper |-> TRUE]
                    ELSE None
        /\ sounding' = Expired(loaded)
        /\ saved' = IF Expired(loaded) THEN timer' ELSE read
        /\ inbox' = <<>> /\ wokeUp' = FALSE /\ page' \in Pages
        /\ SchedulePomodoroDeadlines(timer', page')
    BY <1>1 DEF Restarts, Pages
  <1> HIDE DEF read, loaded
  <1>6. read \in Timer /\ WithinPhase(read) /\ read.cycle \in Nat
    BY <1>3 DEF Sound, Timer
  <1>7. Clamped(read.cycle) \in Nat /\ Clamped(Clamped(read.cycle)) = Clamped(read.cycle)
    BY <1>1, <1>6 DEF Clamped
  <1>8. /\ loaded \in Timer /\ loaded.cycle = Clamped(read.cycle)
        /\ loaded.phase = read.phase /\ loaded.status = read.status
        /\ loaded.endsIn = read.endsIn /\ loaded.remaining = read.remaining
        /\ loaded.minutes = read.minutes /\ loaded.completed = read.completed
    BY <1>4, <1>6, <1>7 DEF Timer
  <1>9. Sound(loaded) /\ loaded.phase \in Phases
    BY <1>6, <1>8 DEF Sound, WithinPhase, FullLength, Timer
  <1>10. Matches(read, loaded)
    <2>1. read = [loaded EXCEPT !.cycle = read.cycle]
      BY <1>4, <1>6 DEF Timer
    <2> QED  BY <1>7, <1>8, <2>1 DEF Matches
  <1>11. /\ loaded.phase = timer.phase /\ loaded.status = timer.status
         /\ loaded.completed = timer.completed
    BY <1>1, <1>2, <1>3, <1>8 DEF Timer
  <1>12. Sound(timer') /\ timer' \in Timer /\ WithinPhase(timer') /\ Credits(loaded, timer')
    BY <1>5, <1>9, ReconcileSound, ReconcileCredits DEF Sound
  <1>13. Credits(timer, timer')
    BY <1>11, <1>12 DEF Credits
  <1>14. /\ DeadlineIsSet' /\ completionIn' \in Nat \cup {None}
         /\ ticking' \in BOOLEAN /\ lag' \in Nat
    BY <1>5, <1>12, ScheduleSets
  <1>15. inbox' \in Seq(Outcomes)
    BY <1>5
  <1>16. CASE Expired(loaded)
    <2>1. /\ timer'.status = "Ready" /\ timer'.pending = loaded.phase
          /\ timer'.phase \in Phases
      BY <1>5, <1>8, <1>9, <1>12, <1>16, ReconcileSound DEF Timer
    <2>2. /\ alert' = [phase |-> loaded.phase, next |-> timer'.phase, helper |-> TRUE]
          /\ sounding' = TRUE /\ saved' = timer'
      BY <1>5, <1>16
    <2>3. alert' \in Alerts /\ alert'.phase = loaded.phase /\ alert'.next = timer'.phase
      BY <1>9, <2>1, <2>2 DEF Alerts
    <2>4. AlertIsCurrent' /\ SoundFollowsAlert'
      BY <2>1, <2>2, <2>3, AlertAssumption DEF AlertIsCurrent, SoundFollowsAlert
    <2>5. Matches(saved', timer')
      BY <1>12, <2>2, MatchesSelf
    <2> QED
      BY <1>5, <1>12, <1>13, <1>14, <1>15, <2>2, <2>3, <2>4, <2>5
      DEF PInv, PomodoroTypeOK, TimerWithinPhase
  <1>17. CASE ~Expired(loaded)
    <2>1. timer' = loaded /\ saved' = read /\ alert' = None /\ sounding' = FALSE
      <3>1. timer' = loaded
        BY <1>5, <1>8, <1>9, <1>17, ReconcileSound
      <3>2. sounding' = FALSE
        BY <1>5, <1>17 DEF Expired
      <3> QED  BY <1>5, <1>17, <3>1, <3>2
    <2>2. AlertIsCurrent' /\ SoundFollowsAlert'
      BY <2>1 DEF AlertIsCurrent, SoundFollowsAlert
    <2>3. Matches(saved', timer')
      BY <1>10, <2>1
    <2> QED
      BY <1>5, <1>6, <1>12, <1>13, <1>14, <1>15, <2>1, <2>2, <2>3
      DEF PInv, PomodoroTypeOK, TimerWithinPhase
  <1> QED  BY <1>16, <1>17

-----------------------------------------------------------------------------
(* A phase that has run out stays so until it is credited.                   *)

\* To count a phase changes the counts.
LEMMA CountsMore ==
    ASSUME NEW t \in Timer, NEW n,
           n = [t.completed EXCEPT ![t.phase] = @ + 1]
    PROVE  n # t.completed
  <1>1. t.completed \in [Phases -> Nat] /\ t.phase \in Phases
    BY DEF Timer
  <1>2. n[t.phase] = t.completed[t.phase] + 1 /\ t.completed[t.phase] \in Nat
    BY <1>1
  <1> QED  BY <1>2

\* reconcile, and the toggle that begins with it, count what has run out.
LEMMA ExpiryCounts ==
    ASSUME NEW t \in Timer, Sound(t), Expired(t)
    PROVE  /\ Reconcile(t).completed # t.completed
           /\ Toggle(t).completed # t.completed
  <1> DEFINE now == Reconcile(t)
  <1>1. now \in Timer /\ now.status = "Ready" /\ now.completed # t.completed
    BY ReconcileSound, CountsMore DEF Sound
  <1>2. Toggle(t) = IF now.status = "Running" /\ now.endsIn # None
                    THEN [now EXCEPT !.status = "Paused", !.remaining = now.endsIn,
                                     !.endsIn = None]
                    ELSE [now EXCEPT !.status = "Running", !.endsIn = now.remaining]
    BY DEF Toggle
  <1> HIDE DEF now
  <1>3. Toggle(t).completed = now.completed
    BY <1>1, <1>2 DEF Timer
  <1> QED  BY <1>1, <1>3 DEF now

\* What has run out is not made good by time.
LEMMA LaterExpired ==
    ASSUME NEW t \in Timer, Sound(t), NEW n \in Nat
    PROVE  Expired(t) => Expired(Later(t, n, MaxLate))
  <1> SUFFICES ASSUME Expired(t) PROVE Expired(Later(t, n, MaxLate))
    OBVIOUS
  <1> DEFINE u == Later(t, n, MaxLate)
  <1>1. /\ u = [t EXCEPT !.endsIn = u.endsIn]
        /\ u.endsIn = IF t.endsIn = None THEN None
                      ELSE IF t.endsIn - n < -MaxLate THEN -MaxLate ELSE t.endsIn - n
    BY LaterSound
  <1>2. t.status = "Running" /\ t.endsIn # None /\ t.endsIn \in Int /\ t.endsIn <= 0
    BY DEF Expired, Timer
  <1>3. MaxLate \in Nat
    BY DaemonAssumption
  <1> HIDE DEF u
  <1>4. u.endsIn \in Int /\ u.endsIn <= 0
    BY <1>1, <1>2, <1>3
  <1>5. u.status = "Running"
    BY <1>1, <1>2 DEF Timer
  <1>6. u.endsIn # None
    BY <1>4, PomodoroAssumption
  <1> QED  BY <1>4, <1>5, <1>6 DEF Expired, u

\* A restart credits the phase that is over by then.
LEMMA RestartCounts ==
    ASSUME PInv, NEW n \in Naps, Restarts(n), Expired(Later(timer, n, MaxLate))
    PROVE  Credited
  <1> DEFINE read == Later(saved, n, MaxLate)
             loaded == Normalize(read)
             late == Later(timer, n, MaxLate)
  <1>1. /\ timer \in Timer /\ saved \in Timer /\ Sound(timer) /\ Sound(saved) /\ n \in Nat
        /\ saved.endsIn = timer.endsIn /\ saved.status = timer.status
        /\ saved.completed = timer.completed
    BY MatchesFacts, DaemonAssumption DEF PInv, PomodoroTypeOK, TimerWithinPhase, Sound
  <1>2. /\ Sound(read) /\ read = [saved EXCEPT !.endsIn = read.endsIn]
        /\ late = [timer EXCEPT !.endsIn = late.endsIn] /\ read.endsIn = late.endsIn
    BY <1>1, LaterSound
  <1>3. loaded = [read EXCEPT !.cycle = Clamped(read.cycle)]
    BY <1>2, NormalizeSound DEF Sound
  <1>4. timer' = Reconcile(loaded) /\ Expired(late)
    BY DEF Restarts
  <1> HIDE DEF read, loaded, late
  <1>5. Expired(read) /\ read.completed = timer.completed /\ read \in Timer /\ WithinPhase(read)
    BY <1>1, <1>2, <1>4 DEF Expired, Timer, Sound
  <1>6. Clamped(read.cycle) \in Nat
    BY <1>5, PomodoroAssumption DEF Clamped, Timer
  <1>7. /\ loaded \in Timer /\ loaded.minutes = read.minutes /\ loaded.phase = read.phase
        /\ loaded.status = read.status /\ loaded.endsIn = read.endsIn
        /\ loaded.remaining = read.remaining /\ loaded.completed = read.completed
    BY <1>3, <1>5, <1>6 DEF Timer
  <1>8. Sound(loaded) /\ Expired(loaded)
    BY <1>5, <1>7 DEF Sound, WithinPhase, FullLength, Expired
  <1>9. timer'.completed # loaded.completed
    BY <1>4, <1>7, <1>8, ExpiryCounts
  <1> QED  BY <1>5, <1>7, <1>9 DEF Credited

\* No step but one that does not reconcile loses a phase that has run out.
LEMMA NothingLost ==
    ASSUME PInv, Next, Expired(timer)
    PROVE  Expired(timer') \/ Credited \/ Unreconciled
  <1>1. timer \in Timer /\ Sound(timer)
    BY DEF PInv, PomodoroTypeOK, TimerWithinPhase, Sound
  <1> DEFINE acknowledged == Acknowledge(timer)
  <1>2. /\ acknowledged \in Timer /\ Sound(acknowledged) /\ Expired(acknowledged)
        /\ acknowledged.completed = timer.completed
    BY <1>1, AcknowledgeSound
  <1>3. ASSUME NEW c \in Commands, Execute(c)
        PROVE  Credited \/ Unreconciled
    <2>1. CASE c.op = "Toggle"
      <3>1. timer' = Toggle(acknowledged)
        BY <1>3, <2>1 DEF Execute, ApplyPomodoro
      <3> QED  BY <1>2, <3>1, ExpiryCounts DEF Credited
    <2>2. CASE c.op # "Toggle"
      <3>1. c.op \in {"Skip", "Reset", "Start", "Adjust"}
        BY <2>2 DEF Commands
      <3> QED  BY <1>3, <3>1 DEF Unreconciled
    <2> QED  BY <2>1, <2>2
  <1>4. ASSUME timer' \in {timer, acknowledged}
        PROVE  Expired(timer')
    BY <1>2, <1>4
  <1>5. CASE Press
    BY <1>3, <1>4, <1>5 DEF Press, AcknowledgeCompletion, Navigate
  <1>6. CASE Helper
    BY <1>4, <1>6 DEF Helper, HelperAnswers, HelperOutcome, Unreconciled
  <1>7. ASSUME ReconcilePomodoro
        PROVE  Credited
    BY <1>1, <1>7, ExpiryCounts DEF ReconcilePomodoro, Credited
  <1>8. CASE HandleDeadlines
    BY <1>4, <1>7, <1>8
    DEF HandleDeadlines, CompletionDue, CountdownTick, RepeatAlertSound, OtherSave, PanelCloses
  <1>9. CASE Wake
    BY <1>7, <1>9 DEF Wake
  <1>10. ASSUME NEW n \in Nat, PassTime(n)
         PROVE  Expired(timer')
    BY <1>1, <1>10, LaterExpired DEF PassTime
  <1>11. ASSUME NEW n \in Naps, Restarts(n)
         PROVE  Credited
    BY <1>1, <1>11, LaterExpired, RestartCounts, DaemonAssumption
  <1>12. CASE Time
    BY <1>4, <1>10, <1>11, <1>12, DaemonAssumption DEF Time, Tick, WallClockLags, Sleeps
  <1> QED  BY <1>5, <1>6, <1>8, <1>9, <1>12 DEF Next

-----------------------------------------------------------------------------
\* No step breaks the invariant, and none credits a phase twice.
LEMMA DaemonStep ==
    ASSUME PInv, [Next]_vars
    PROVE  PInv' /\ (timer' # timer => Credits(timer, timer'))
  <1>1. CASE UNCHANGED vars
    BY <1>1
    DEF vars, PInv, PomodoroTypeOK, TimerWithinPhase, AlertIsCurrent, SoundFollowsAlert,
        DeadlineIsSet
  <1>2. CASE Press
    BY <1>2, PressStep
  <1>3. CASE Helper
    BY <1>3, HelperStep
  <1>4. CASE HandleDeadlines
    BY <1>4, HandleDeadlinesStep
  <1>5. CASE Wake
    BY <1>5, WakeStep
  <1>6. CASE Time
    BY <1>6, ClockStep, RestartStep DEF Time
  <1> QED  BY <1>1, <1>2, <1>3, <1>4, <1>5, <1>6 DEF Next

\* The invariant holds in every reachable state.
LEMMA DaemonInvariant == Spec => []PInv
  <1>1. PInv /\ [Next]_vars => PInv'
    BY DaemonStep
  <1> QED  BY InitEstablishes, <1>1, PTL DEF Spec

\* Every variable of the daemon's timer keeps its type, for all durations,
\* steps, bounds and lengths of a sleep.
THEOREM PomodoroTypeCorrect == Spec => []PomodoroTypeOK
  <1>1. PInv => PomodoroTypeOK
    BY DEF PInv
  <1> QED  BY DaemonInvariant, <1>1, PTL

\* The timer never has more to go than its phase is long, nor less than a
\* second unless it runs, however it is adjusted, paused and resumed.
THEOREM TimerAlwaysWithinPhase == Spec => []TimerWithinPhase
  <1>1. PInv => TimerWithinPhase
    BY DEF PInv
  <1> QED  BY DaemonInvariant, <1>1, PTL

\* The state file always restores the timer as it is.
THEOREM RestartAlwaysResumes == Spec => []RestartResumes
  <1>1. PInv => RestartResumes
    <2> SUFFICES ASSUME PInv PROVE RestartResumes
      OBVIOUS
    <2>1. timer \in Timer /\ saved \in Timer /\ WithinPhase(timer) /\ Matches(saved, timer)
      BY DEF PInv, PomodoroTypeOK, TimerWithinPhase
    <2>2. /\ Sound(saved)
          /\ [saved EXCEPT !.cycle = Clamped(saved.cycle)] =
                 [timer EXCEPT !.cycle = Clamped(timer.cycle)]
      BY <2>1, MatchesFacts
    <2>3. Normalize(saved) = [timer EXCEPT !.cycle = Clamped(timer.cycle)]
      BY <2>1, <2>2, NormalizeSound
    <2> QED  BY <2>3 DEF RestartResumes, Clamped
  <1> QED  BY DaemonInvariant, <1>1, PTL

\* An alert on show is that of the completion pending, and offers the phase queued.
THEOREM AlertIsAlwaysCurrent == Spec => []AlertIsCurrent
  <1>1. PInv => AlertIsCurrent
    BY DEF PInv
  <1> QED  BY DaemonInvariant, <1>1, PTL

\* The sound repeats exactly while an alert is up.
THEOREM SoundAlwaysFollowsAlert == Spec => []SoundFollowsAlert
  <1>1. PInv => SoundFollowsAlert
    BY DEF PInv
  <1> QED  BY DaemonInvariant, <1>1, PTL

\* The completion deadline stands where the phase ends, but for what the clocks
\* have run apart.
THEOREM DeadlineIsAlwaysSet == Spec => []DeadlineIsSet
  <1>1. PInv => DeadlineIsSet
    BY DEF PInv
  <1> QED  BY DaemonInvariant, <1>1, PTL

\* Alert, sound and completion deadline always fit the timer.
THEOREM PhaseEndAlwaysRight == Spec => []PhaseEndIsRight
  <1>1. AlertIsCurrent /\ SoundFollowsAlert /\ DeadlineIsSet => PhaseEndIsRight
    BY DEF PhaseEndIsRight
  <1> QED  BY <1>1, AlertIsAlwaysCurrent, SoundAlwaysFollowsAlert, DeadlineIsAlwaysSet, PTL

\* A phase that ran is credited no more than once, and one that has run out stays to
\* be credited, unless a step that does not reconcile the timer takes it away.
THEOREM AlwaysCreditedOnce == Spec => CreditedOnce
  <1> DEFINE Once ==
          /\ Credited =>
               /\ timer.status = "Running"
               /\ timer'.completed = [timer.completed EXCEPT ![timer.phase] = @ + 1]
               /\ ~Expired(timer')
          /\ Expired(timer) => Expired(timer') \/ Credited \/ Unreconciled
          /\ \A n \in Naps : Restarts(n) /\ Expired(Later(timer, n, MaxLate)) => Credited
  <1>1. PInv /\ [Next]_vars => [Once]_vars
    <2> SUFFICES ASSUME PInv, Next PROVE Once
      BY DEF vars
    <2>1. ASSUME Credited
          PROVE  /\ timer.status = "Running"
                 /\ timer'.completed = [timer.completed EXCEPT ![timer.phase] = @ + 1]
                 /\ ~Expired(timer')
      BY <2>1, DaemonStep DEF Credits, Credited
    <2>2. Expired(timer) => Expired(timer') \/ Credited \/ Unreconciled
      BY NothingLost
    <2>3. \A n \in Naps : Restarts(n) /\ Expired(Later(timer, n, MaxLate)) => Credited
      BY RestartCounts
    <2> QED  BY <2>1, <2>2, <2>3
  <1>2. [][Once]_vars <=> CreditedOnce
    BY PTL DEF CreditedOnce
  <1> HIDE DEF Once
  <1> QED  BY DaemonInvariant, <1>1, <1>2, PTL DEF Spec

=============================================================================
