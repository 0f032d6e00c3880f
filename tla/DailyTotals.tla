------------------------------ MODULE DailyTotals ----------------------------
(***************************************************************************)
(* WalkingPadDailyTotals (crates/streamdeck-core/src/integrations/         *)
(* walkingpad.rs) as the runtime keeps it (crates/streamdeckd/src/runtime/ *)
(* mod.rs): telemetry arrives as events, is credited to a calendar day,    *)
(* and is written to the state file by StateStore, some time later.        *)
(*                                                                         *)
(* The three counters of the belt (distance, steps, seconds) are one here: *)
(* they are credited together or not at all.  A save is a synchronous call *)
(* of the runtime, which does nothing else until it returns.               *)
(*                                                                         *)
(* A definition named Faulty... is a mutant: the code with a possible bug. *)
(***************************************************************************)
EXTENDS StateStore, Naturals, Sequences

CONSTANTS
    None,
    LastDay,        \* bound: days are 0..LastDay
    MaxCounter,     \* bound: what the belt counts up to
    PersistDelay,   \* WALKINGPAD_PERSIST_DELAY_MS, in ticks
    MaxUpdates,     \* bound: updates on their way to the runtime
    MaxAccidents    \* bound: saves that fail, kills and power losses

ASSUME DailyAssumption ==
    /\ LastDay \in Nat
    /\ MaxCounter \in Nat
    /\ PersistDelay \in Nat \ {0}
    /\ MaxUpdates \in Nat \ {0}
    /\ MaxAccidents \in Nat
    /\ None \notin Nat
    /\ States = [date : 0..LastDay, count : 0..MaxCounter]

VARIABLES
    today,          \* the local calendar day
    counter,        \* what the belt counts
    link,           \* the belt is connected
    updates,        \* WalkingPadUpdate events on their way to the runtime
    daemon,         \* "down", "up", or "stopping": saving for the last time
    totals,         \* PersistentState.walkingpad
    continuous,     \* RuntimeState.walkingpad_continuous
    dirty,          \* RuntimeState.walkingpad_persist_dirty
    persistIn,      \* time to the WalkingPadPersist deadline, or None
    midnightOf,     \* the day whose start the WalkingPadMidnight deadline is for
    slept,          \* the system has slept and `wake` is still to come
    watched,        \* auxiliary: what the belt counted while connected, by day
    saveFailed,     \* auxiliary: the last save failed
    accidents       \* auxiliary: accidents so far

world == << today, counter, link, watched >>
runtime == << totals, continuous, dirty, persistIn, midnightOf >>
history == << saveFailed, accidents >>
vars == << storeVars, world, updates, daemon, runtime, slept, history >>

-----------------------------------------------------------------------------
Days == 0..LastDay
Counts == 0..MaxCounter
Totals == [date : Days \cup {None}, count : Counts, last : Counts \cup {None}]
Updates ==
    [kind : {"Status"}, counter : Counts, day : Days]
        \cup [kind : {"Disconnected"}]

\* Every variable has a value of its kind.
DailyTypeOK ==
    /\ StoreTypeOK
    /\ today \in Days
    /\ counter \in Counts
    /\ link \in BOOLEAN
    /\ updates \in Seq(Updates)
    /\ Len(updates) <= MaxUpdates
    /\ daemon \in {"down", "up", "stopping"}
    /\ totals \in Totals
    /\ continuous \in BOOLEAN
    /\ dirty \in BOOLEAN
    /\ persistIn \in 0..PersistDelay \cup {None}
    /\ midnightOf \in 0..(LastDay + 1)
    /\ slept \in BOOLEAN
    /\ watched \in [Days -> Counts]
    /\ saveFailed \in BOOLEAN
    /\ accidents \in 0..MaxAccidents

\* WalkingPadDailyTotals::default.
NoTotals == [date |-> None, count |-> 0, last |-> None]

\* What a save writes.  The last counters are written too; after a restart
\* they are replaced before they are used, because nothing is continuous.
Saved(t) == [date |-> t.date, count |-> t.count]

DailyInit ==
    /\ StoreInit
    /\ file = NoState
    /\ today = 0
    /\ counter = 0
    /\ link = FALSE
    /\ watched = [d \in Days |-> 0]
    /\ updates = << >>
    /\ daemon = "down"
    /\ totals = NoTotals
    /\ continuous = FALSE
    /\ dirty = FALSE
    /\ persistIn = None
    /\ midnightOf = 0
    /\ slept = FALSE
    /\ saveFailed = FALSE
    /\ accidents = 0

-----------------------------------------------------------------------------
RolledOver(t, day) ==
    IF t.date = day THEN t ELSE [date |-> day, count |-> 0, last |-> None]

FaultyObserved(t, value, day, isContinuous) ==
    LET r == RolledOver(t, day)
        credited ==
            IF t.date = day /\ r.last # None /\ value >= r.last
              THEN value - r.last
              ELSE 0
    IN  [r EXCEPT !.count = @ + credited, !.last = value]

\* Only what was counted up since the last sample, on the same day and the
\* same connection.
Observed(t, value, day, isContinuous) ==
    LET r == RolledOver(t, day)
        credited ==
            IF isContinuous /\ t.date = day /\ r.last # None /\ value >= r.last
              THEN value - r.last
              ELSE 0
    IN  [r EXCEPT !.count = @ + credited, !.last = value]

-----------------------------------------------------------------------------
(* The belt, its controller and the clock.  They move between saves only:  *)
(* a save reads nothing of theirs, so that a step of theirs during one     *)
(* could as well come before or after it.                                  *)

\* Bounds: MaxCounter, for the belt and for a day.
Walk ==
    /\ step = "idle"
    /\ counter < MaxCounter
    /\ watched[today] < MaxCounter
    /\ counter' = counter + 1
    /\ watched' = IF link THEN [watched EXCEPT ![today] = @ + 1] ELSE watched
    /\ UNCHANGED << storeVars, today, link, updates, daemon, runtime, slept, history >>

\* A new run of the belt counts from zero.
NewRun ==
    /\ step = "idle"
    /\ counter # 0
    /\ counter' = 0
    /\ UNCHANGED << storeVars, today, link, watched, updates, daemon, runtime, slept, history >>

Connect ==
    /\ step = "idle"
    /\ daemon = "up"
    /\ ~link
    /\ link' = TRUE
    /\ UNCHANGED << storeVars, today, counter, watched, updates, daemon, runtime, slept, history >>

Send(update) ==
    /\ step = "idle"
    /\ daemon = "up" /\ link
    /\ Len(updates) < MaxUpdates
    /\ updates' = Append(updates, update)
    /\ UNCHANGED << storeVars, today, counter, watched, daemon, runtime, slept, history >>

\* The controller sends what the belt says, with the time it was received.
Sample ==
    /\ Send([kind |-> "Status", counter |-> counter, day |-> today])
    /\ UNCHANGED link

Disconnect ==
    /\ Send([kind |-> "Disconnected"])
    /\ link' = FALSE

Midnight ==
    /\ step = "idle"
    /\ today < LastDay
    /\ today' = today + 1
    /\ UNCHANGED << storeVars, counter, link, watched, updates, daemon, runtime, slept, history >>

\* A deadline that is due is handled before more time passes.
Tick ==
    /\ step = "idle"
    /\ persistIn \notin {0, None}
    /\ persistIn' = persistIn - 1
    /\ UNCHANGED << storeVars, world, updates, daemon, totals, continuous, dirty,
                    midnightOf, slept, history >>

\* Deadlines stand still while the system sleeps.
Sleep ==
    /\ step = "idle"
    /\ daemon = "up"
    /\ ~slept
    /\ slept' = TRUE
    /\ UNCHANGED << storeVars, world, updates, daemon, runtime, history >>

-----------------------------------------------------------------------------
(* The runtime.  `persist` is a synchronous call: nothing else runs in it. *)

Ready == daemon = "up" /\ step = "idle"

\* `persist`, if there is a reason to.
PersistIf(reason, t, durability) ==
    IF reason THEN StartSave(Saved(t), durability) ELSE UNCHANGED storeVars

\* `start`, after the state file was loaded.
Start ==
    LET loaded == Loaded(Saved(NoTotals))
        before == [date |-> loaded.date, count |-> loaded.count, last |-> None]
    IN  /\ daemon = "down"
        /\ step = "idle"
        /\ daemon' = "up"
        /\ totals' = RolledOver(before, today)
        /\ continuous' = FALSE
        /\ dirty' = FALSE
        /\ persistIn' = None
        /\ midnightOf' = today + 1
        /\ PersistIf(before.date # today, totals', "Normal")
        /\ saveFailed' = FALSE
        /\ UNCHANGED << world, updates, slept, accidents >>

\* DeadlineQueue::set_if_sooner.
Sooner(deadline, delay) ==
    IF deadline # None /\ deadline <= delay THEN deadline ELSE delay

\* `walkingpad_update`, for a sample.
ReceiveStatus ==
    /\ Ready
    /\ updates # << >>
    /\ Head(updates).kind = "Status"
    /\ totals' = Observed(totals, Head(updates).counter, Head(updates).day, continuous)
    /\ continuous' = TRUE
    /\ dirty' = TRUE
    /\ persistIn' = Sooner(persistIn, PersistDelay)
    /\ updates' = Tail(updates)
    /\ UNCHANGED << storeVars, world, daemon, midnightOf, slept, history >>

\* `walkingpad_update`, for a connection that is lost.
ReceiveDisconnected ==
    /\ Ready
    /\ updates # << >>
    /\ Head(updates).kind = "Disconnected"
    /\ continuous' = FALSE
    /\ updates' = Tail(updates)
    /\ UNCHANGED << storeVars, world, daemon, totals, dirty, persistIn, midnightOf,
                    slept, history >>

\* The WalkingPadPersist deadline.  `dirty` is cleared whether or not the save
\* succeeds.
PersistDue ==
    /\ Ready
    /\ persistIn = 0
    /\ persistIn' = None
    /\ PersistIf(dirty, totals, "Normal")
    /\ dirty' = FALSE
    /\ UNCHANGED << world, updates, daemon, totals, continuous, midnightOf, slept, history >>

\* The WalkingPadMidnight deadline.
MidnightDue ==
    /\ Ready
    /\ ~slept
    /\ midnightOf <= today
    /\ totals' = RolledOver(totals, today)
    /\ PersistIf(totals.date # today, totals', "Critical")
    /\ midnightOf' = today + 1
    /\ UNCHANGED << world, updates, daemon, continuous, dirty, persistIn, slept, history >>

FaultyWake ==
    /\ Ready
    /\ slept
    /\ slept' = FALSE
    /\ dirty' = FALSE
    /\ persistIn' = None
    /\ midnightOf' = today + 1
    /\ continuous' = FALSE
    /\ UNCHANGED << storeVars, world, updates, daemon, totals, history >>

\* `wake` writes what is dirty, drains every deadline and sets the one for
\* midnight again.
Wake ==
    /\ Ready
    /\ slept
    /\ slept' = FALSE
    /\ PersistIf(dirty, totals, "Normal")
    /\ dirty' = FALSE
    /\ persistIn' = None
    /\ midnightOf' = today + 1
    /\ continuous' = FALSE
    /\ UNCHANGED << world, updates, daemon, totals, history >>

\* `reload_config` sets the deadline for midnight again too.
Reload ==
    /\ Ready
    /\ midnightOf' = today + 1
    /\ UNCHANGED << storeVars, world, updates, daemon, totals, continuous, dirty,
                    persistIn, slept, history >>

\* The rest of the program saves the whole state as well, for the timer or the
\* page, and leaves `dirty` alone.
PersistOther ==
    /\ Ready
    /\ \E d \in Durability : StartSave(Saved(totals), d)
    /\ UNCHANGED << world, updates, daemon, runtime, slept, history >>

ContinueSave ==
    /\ daemon # "down"
    /\ SaveStep
    /\ saveFailed' = (saveFailed /\ step' # "idle")
    /\ UNCHANGED << world, updates, daemon, runtime, slept, accidents >>

\* `shutdown` saves; the belt's controller has been stopped before.
ShutDown ==
    /\ Ready
    /\ daemon' = "stopping"
    /\ StartSave(Saved(totals), "Critical")
    /\ UNCHANGED << world, updates, runtime, slept, history >>

-----------------------------------------------------------------------------
(* The end of the process, and accidents.  Bound: MaxAccidents.            *)

\* Everything the daemon had in memory is gone.
Gone ==
    /\ daemon' = "down"
    /\ link' = FALSE
    /\ updates' = << >>
    /\ totals' = NoTotals
    /\ continuous' = FALSE
    /\ dirty' = FALSE
    /\ persistIn' = None
    /\ midnightOf' = 0
    /\ slept' = FALSE
    /\ saveFailed' = FALSE
    /\ UNCHANGED << today, counter, watched >>

Exit ==
    /\ daemon = "stopping" /\ step = "idle"
    /\ Gone
    /\ UNCHANGED << storeVars, accidents >>

Accident == accidents < MaxAccidents /\ accidents' = accidents + 1

SaveFails ==
    /\ Accident
    /\ daemon # "down"
    /\ FailSave
    /\ saveFailed' = TRUE
    /\ UNCHANGED << world, updates, daemon, runtime, slept >>

Kill == Accident /\ daemon # "down" /\ Killed /\ Gone

LosePower == Accident /\ PowerLost /\ Gone

-----------------------------------------------------------------------------
DailyNext ==
    \/ Walk
    \/ NewRun
    \/ Connect
    \/ Sample
    \/ Disconnect
    \/ Midnight
    \/ Tick
    \/ Sleep
    \/ Start
    \/ ReceiveStatus
    \/ ReceiveDisconnected
    \/ PersistDue
    \/ MidnightDue
    \/ Wake
    \/ Reload
    \/ PersistOther
    \/ ContinueSave
    \/ ShutDown
    \/ Exit
    \/ SaveFails
    \/ Kill
    \/ LosePower

DailySpec == DailyInit /\ [][DailyNext]_vars

-----------------------------------------------------------------------------
\* What is shown for a day, and what any restart would show for it, was counted
\* by the belt on that day while it was connected: no stretch is credited
\* twice, to the wrong day, or for a time nobody was watching.
NeverOverCounts ==
    /\ totals.date # None => totals.count <= watched[totals.date]
    /\ \A s \in onDisk \cup {file} :
          s # NoState => s.count <= watched[s.date]

\* Nothing but a save that failed leaves the file behind totals that are not
\* marked dirty: a kill then loses nothing.
StoredUnlessDirty ==
    daemon # "down" /\ step = "idle" /\ ~dirty /\ ~saveFailed =>
        file = Saved(totals)

=============================================================================
