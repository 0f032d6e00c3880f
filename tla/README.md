# streamdeckd in TLA+

Specifications of the stateful parts of `streamdeckd`, a macOS daemon that drives a 5x3 Stream Deck, with TLC
instances that check them on small constants and TLAPS proofs that hold for every value of the constants. Each
definition is translated from the Rust source; `PROJECT.json` names the lines.

## 1. Inventory

One tokio event loop, the **runtime coordinator**, owns almost all state. Other tasks send it events over an
unbounded queue and take requests from it over channels. That is where the hard behaviour is: the loop's own steps
are sequential, but what they read may be older than what the other tasks have done since.

| Component (crate/file) | State | Operations | Talks to | What makes it correct |
|---|---|---|---|---|
| WalkingPad controller task (`streamdeckd/services/walkingpad.rs`) | phase of the connection, last status, motion watchdog, fault, next poll, process lock, reconnect backoff | connect, poll, execute motion, execute stop, wait, disconnect, shut down | runtime (two request channels in, events out), belt over BLE | no request is lost; Stop comes first; no motion in a fault or on stale knowledge; a lost link is retried; the lock is kept; shutdown ends |
| WalkingPad deck state (`streamdeck-core/integrations/walkingpad.rs`) | connection, status and its age, pending command, feedback, daily totals | prepare, reject, connection_changed, command_succeeded, command_failed, apply_status, observe, rollover | called by the runtime | the deck shows the task's connection in the end; a pending command is always answered and never hangs; a fault leaves only Stop |
| Motion watchdog (same file as the task) | counters, last progress, faulted | observe | the task | agrees with the task's own fault flag |
| Backoff (`streamdeck-core/deadline.rs`) | consecutive failures | fail, reset | task, refreshes, supervisor | the delay stays within its cap |
| Deadline queue (same file) | one instant per deadline id | set, set_if_sooner, take_due, drain_all | runtime | a deadline that is armed is handled |
| Presses (`press.rs`), navigation (`nav.rs`) | held keys, armed keys; current page, panel and its deadline | key_down, poll_arm, key_up, clear; go_to, open_panel, touch, dismiss, poll | runtime, deadline queue | one action per press; the action is that of the page the press began on; a panel closes and returns |
| Pomodoro (`pomodoro.rs`), alert (`alert.rs`, `streamdeck-alert`) | phase, status, end time, pending completion, statistics; alert and its helper process | toggle, start, skip, reset, adjust, acknowledge, reconcile | runtime, state store, alert helper | a phase is counted no more than once and not forgotten by what reconciles; no completion is acted on twice |
| Cache and refreshes (`cache.rs`, `runtime/state.rs`, `runtime/mod.rs`) | per integration: value, age, in flight, backoff | needs_fetch, spawn, store, fail, invalidate, decide | services over events | one fetch in flight; a manual refresh shows data fetched after it; failures back off |
| Device supervisor (`device/mod.rs`) | connected or backing off; frame cache | open, pump, backoff; write, brightness | runtime over events | the runtime and the supervisor agree on the device; every key is repainted after a reconnect |
| State store (`state.rs`) | state file, its temporary and backup | load, save, migrate | runtime, file system | after a crash the file is one of the saved states |
| Control socket, daemon start and shutdown (`control.rs`, `main.rs`) | socket file, listener, requests in progress; the order of a start and of an end | bind, serve, answer, drop; load, spawn, drain, abort | `streamdeckctl`, other daemons, launchd | one daemon owns the socket; answers are true; what was answered as done and saved survives crashes and restarts |
| Services and parsers (`services/*.rs`, `integrations/*.rs`) | the token of the departures, `Last-Modified` of the forecast | fetch, parse, merge, cap, pick | cache over events | a value is what the services said; a failure of one part does not pass for good news |
| Pages and views (`pages/*.rs`, `snapshot.rs`) | none | a feed and an instant become faces; a key becomes an action | runtime, renderer | a mark is honest; a press means what its key shows |
| macOS bindings (`streamdeck-macos`) | the audio adapter's transaction | audio, Spotify, Wispr Flow, media session, applications, light sensor | tasks of the runtime | no level is lost; no wrong application is closed; no owner is guessed |
| Ambient light (`runtime/mod.rs`, `ambient.rs`) | filtered light, applied brightness | observe, reconfigure, write | sensor thread, deck | the brightness follows the light within the limits in force |
| Configuration (`config.rs`, `watcher.rs`) | the snapshot in force | load, validate, swap | everything | a reload is whole or not at all |
| Renderer, doctor, metrics, logging, screensaver | none to speak of | drawing and reporting | | agree with their goldens and tests |

Hard behaviours: four nested biased selects in the WalkingPad task; updates that reach the deck after the task has
moved on; locals that are forgotten by a reconnect; deadlines set anew by periodic events; fetches that return after
they were invalidated; two keys that arm in one pass; a device that is replaced while a write to the old one fails;
crashes in the middle of a save; two daemons that find the same stale socket; presses that act on what the deck knew
when the Mac has moved on. `PROJECT.json` lists them line by line under `hazards`.

## 2. Modules

| Module | What it models |
|---|---|
| `WalkingPadTypes` | the vocabulary shared by deck and task: telemetry, requests, connections |
| `MotionWatchdog` | `MotionWatchdog::observe` and `reset`, as operators on a record |
| `WalkingPadService` | the controller task, its channels, backoff, shutdown and the clock: a specification of its own |
| `WalkingPadState` | `WalkingPadState` of the core crate, as operators on a record |
| `WalkingPad` | runtime and task together: presses, requests, updates, the feedback deadline, wake from sleep |
| `Pomodoro` | the timer of `pomodoro.rs`, as operators on a record |
| `PomodoroDaemon` | the timer in the runtime: presses, deadlines, alert and helper, sleep, restart, two clocks |
| `BeltKeys` | the status of the WalkingPad pages' keys, beside what a press of them sends |
| `DurableState` | what a state file promises: the abstract specification `StateStore` implements |
| `StateStore` | the steps of `save`, and what a failure, a kill or a power loss leaves between them |
| `DailyTotals` | the belt's daily totals in the runtime, over `StateStore` |
| `DeckTypes`, `Navigator`, `PressTracker` | what the deck modules share; `nav.rs` and `press.rs` as operators |
| `Presses` | from the finger to the action: reports, events, handlers, the arm and panel deadlines, the control socket |
| `DeckDevice` | from the view to the glass: render caches, batches of writes, device handles, the supervisor |
| `PageTables` | the key tables, the feeds of every tile, `required_integrations` |
| `Refresh` | what the deck shows of the world: `cache.rs`, fetches, answers, deadlines, actions as tasks |
| `Daemons` | several starts of the daemon: socket, configuration, state file, clients, crash and end |
| `Tiles` | what the tiles have in common: feeds, faces, filters and stable sorts of lists |
| `Agenda`, `Repositories`, `Gauges`, `Forecasts` | parsers, merging, tiles and openings of meetings and departures, GitHub, limits and system health, weather and lake, as operators |
| `Glances` | one such integration from the requests of a fetch to its tile, with errors, a clock, a reload and the departures' token |
| `Mixer`, `Players`, `Media`, `Foreground` | the keys that act on the Mac: audio; Spotify with its covers, and Wispr Flow; the owner of the media keys; the application in front and the recent ones |
| `AmbientLight` | sensor, filter, brightness, and the deck that goes and comes back |
| `Controls` | `Glances` and the five before it side by side |
| `MC...` | the instances TLC checks |
| `WalkingPadProofs` | theorems of the task, and of deck, task and keys together |
| `PomodoroProofs`, `RefreshProofs`, `PressesProofs` | theorems of the timer, of the refreshes and of the presses |
| `DailyTotalsProofs` | theorems of the totals and of the state file, the refinement of `DurableState` among them |
| `DeckDeviceProofs`, `DaemonsProofs` | theorems of the deck and its handles, and of several daemons |
| `ControlsProofs` | theorems of what the keys reach and of what the tiles say, with lemmas about the lists that `Tiles` makes |

`WalkingPad` extends `WalkingPadService`, `BeltKeys` extends `WalkingPad`: deck, task and keys run together.
`DailyTotals` extends `StateStore`: every save of the runtime goes through its steps. `Presses` composes tracker and
navigator, `Refresh` composes tables and navigator, `Controls` composes what the keys and tiles reach outside.
The runtime's state is divided among `WalkingPad`, `PomodoroDaemon`, `DailyTotals`, `Presses`, `DeckDevice`, `Refresh`
and `Controls` by what the handlers read: a handler that touches two parts (`wake`, `reload_config`,
`handle_deadlines`, `after_page_change`) is an action of each, with the part's share of it.

### The task (`WalkingPadService`)

`phase` is the await at which the task is suspended; an action is the code from one await to the next.

| `phase` | Code | Leaves by |
|---|---|---|
| connecting | `connect_preemptible` | `ConnectOpens`, `ConnectFails`, `ConnectRefusesStop/Motion` (the attempt is dropped, `run` announces Connecting again), `StopsUnconnected` |
| connected | the select of `run_connected` | `TakesStop`, `TakesShutdown`, `ExecutesMotion`, `RefusesMotion`, `StartsPoll` |
| polling | `poll_preemptible` | the same requests, or `PollAnswers`, `PollFails` |
| executing | `execute_normal_preemptible` | `Wakes`, `MotionSucceeds`, `MotionFails`, `StopPreempts`, `ShutdownPreempts` |
| stopping | `execute_stop` | `HaltSucceeds`, `HaltFails` |
| closing | `disconnect_bounded` | `Disconnects` |
| waiting | `wait_disconnected` | `WaitRefusesStop/Motion`, `Retry`, `StopsUnconnected` |
| stopped | `run` has returned, or was aborted | |

Every select is biased, so an arm is guarded by the emptiness of the channels before it (`UrgentIdle`, `Idle`).
`fromPoll` records which assignment to `next_poll` follows: a request taken in the outer select polls at once, one
taken while polling waits an interval. `exiting` is `ConnectedExit::Shutdown`. `ledger`, `older` and `frozenAt` are
auxiliary: they count requests sent and answered, count the motion requests that the last Stop overtook, and
remember the counters of the last fault; no guard of the task reads them except through the bounds on what is sent.

Abstractions:
- Time is counted in ticks. A clock is an age or a time to go, and an age stops growing where the code stops telling
  values apart (a stale status, an expired watchdog). Any number of steps fits between two ticks.
- The counters are compared for equality only: they are abstract values. Mode and `belt_state` are seen only through
  `is_standby`. A poll may report any sample: the belt is external.
- A batch of updates published without an await between them is one step. The only other reader of the queue is the
  runtime, which takes one update at a time.
- Looking up and saving the device identifier are part of a connect attempt that ends well or badly.
- The arms for a closed channel are left out: the service owns a sender for as long as the task lives.
- `validate_motion_request` and the start of the write are one step, `ExecutesMotion`: there is no await between
  them.

### Deck and task (`WalkingPad`)

`deck` is `RuntimeState.walkingpad`; `feedbackIn` is the `WalkingPadFeedback` deadline. A press runs `prepare` and,
in the same handler, sends the request (`PressAccepted`) or shows an error (`PressRefused`). `WalkingPadUpdate` reads
one update from the head of the queue. An update carries its age: `received_at_ms` is stamped by the task and
compared with the runtime's clock. `SystemWakes` drains the deadlines. The wall clock and the task's monotonic clock
advance together (`Tick`). Shutdown is left to the service's own run: main stops the runtime before it asks the
service to shut down, so that nothing of the deck remains to be checked then. Totals, persistence, rendering and the
label tick are left out here.

### The timer (`Pomodoro`, `PomodoroDaemon`)

`timer` is `PersistentState.pomodoro` and `saved` what the state file has of it. `ends_at_ms` is kept as the time to
go, negative once the end has passed; below `-MaxLate` nothing can tell it apart. `completionIn`, `ticking` and
`sounding` are the three deadlines; the completion's is monotonic and counts down on its own, so that it and
`timer.endsIn` run apart when the system sleeps (`Sleeps`) or the wall clock lags (`WallClockLags`). `lag` is
auxiliary and remembers how far, since the deadline was last set.

| Action | Code |
|---|---|
| `Execute(c)` | `execute` with a Pomodoro action, `pomodoro_command`: acknowledge, apply, save, set the deadlines |
| `AcknowledgeCompletion`, `Navigate` | any other press; one that changes the page |
| `HelperAnswers`, `HelperOutcome` | the helper's one line of output, and `helper_outcome` when the runtime gets to it |
| `CompletionDue`, `CountdownTick`, `RepeatAlertSound`, `PanelCloses`, `OtherSave` | branches of `handle_deadlines` |
| `Wake` | `wake`; `detect_sleep` has queued it behind other events |
| `Restarts` | a crash at any moment, `StateStore::load` with `normalize`, `start` |

Abstractions: a tick is a second and rounding below it is left out; a press is one step with the save it makes (no
await lies between them but the reaping of the helper). Every save and every load succeeds here: a failed save is in
`DailyTotals` and `Daemons`, a failed load in `Daemons`. The sums of minutes and the daily
statistics are taken to follow the counts. Pages count only as showing the timer or not, and as the panel. Repetition
of the sound is taken to be switched on, and a helper that is not installed is one that never answers. `Naps` are
longer than `SLEEP_DETECTION_MS`: a shorter one is not noticed and delays a completion by no more than that.

### The daily totals and the state file (`StateStore`, `DailyTotals`)

`step` is where `save` is. It is a synchronous call of the runtime, so nothing else of the daemon moves until it
returns, but the process may be killed, the power may go, or the step may fail. `file` is what a program finds under
`state.json`; `onDisk` is what that name may stand for after a power loss, which grows with a rename and shrinks with
a sync of the directory. A file that was renamed before it was synced may come back torn: `onDisk` then holds `Torn`,
and the type invariant excludes it, because `save` always syncs first. `promised` is auxiliary: the last save that
returned was Critical and the file is still as it left it.

The three counters of the belt are one, since they are credited together. `watched` is auxiliary: what the belt
counted on each day while it was connected. Samples wait in `updates` with the day they were received on, over a
midnight if need be. `wake` stores what is dirty, drains the deadlines and sets the midnight's again; a lost
connection only ends the continuity. Accidents (`SaveFails`, `Kill`, `LosePower`) share one bound.

Doc comments disagree with the code in one place that no run is spent on: `load` says that a corrupt file is moved
aside (state.rs:147), but it only reports the error, and main.rs:156-165 goes on with the defaults. Here a file that is
there is read; the load that fails is in `Daemons`.

### Presses (`PressTracker`, `Navigator`, `Presses`)

`down` is the finger, `seen` what the reader has forwarded, `queue` the events on their way. `Report` keeps only the
first of several keys that changed in one report, as `next_event` does. Handlers are one step each, but for the two
that wait inside: the sleep of a control-socket `Hold` (`ControlHold`, `HoldArms`, `HoldEnds`), and a pass that arms
several keys (`ArmingDue`, `ArmNext`, `EndPass`), because the action of the first may change the page for the next. The
keys of a pass are a set, and the one in the first position is next.
`fresh`, `fired` and `acts` are auxiliary: which keys are held since they went down on what is shown, what the last
action was fired for, and how many a press has fired.

A key that is released past the threshold without having armed runs neither action (`LongPressReleased`): the release
and the deadline race, and the release may win. That is in the model; `PressesEndOnce` says at most one.

### The deck (`DeckDevice`)

A handle is the number of its opening. The supervisor reads from one and closes it when the read fails; the runtime
writes to the one it was told of last, and learns of changes through the event queue. `batch` is a `send` between two
writes: the deck may be unplugged and reopened there. `buffer` is the library's: a flush that fails keeps its frames.
Rendering records the view first and the frame when it was written, so that a batch that breaks off leaves the two
caches apart until `invalidate_render_caches`.

### Refreshes (`PageTables`, `Refresh`)

`rt` is the coordinator's share, a record, and every handler is a function from it to the one after; `Becomes` starts
the fetches of what has become in flight. A fetch reads `world` some time after it was started, and its answer waits.
`changed` is auxiliary: the feeds that the user has changed from the deck and that no answer has brought since the
runtime heard of it.

Abstractions: expiry is a flag per cell, deadlines are a set, and what is set may come due at any time, so that every
order of expiry, retry and answer is there. An answer of the weather always carries `Last-Modified`. The fetch of
`AudioInventory` shares the slot of the audio status, as in the code. The tables keep one key of a row of keys that
differ in an index. Every application kind is tried for the keys of the application page.

Seen in the tables and not held against the code: Home requires `lake_current` and Application `media`, though no tile
there reads them (README.md:335 says nothing polls for a key nobody can see).

### The keys of the belt (`BeltKeys`)

`views.rs` decides on its own what a key is drawn as; `prepare` decides what a press of it sends. A view is its
`KeyStatus`. The module adds no state: it reads the deck of `WalkingPad`.

### Several daemons (`Daemons`)

`proc[p].at` is the next step of process p: every step of `serve` and `ControlSocket::bind` that another process can
see lies between two others, and `Crash` may come at any of them. `socketFile` is what the path names, `disk` the set of
changes in the state file. A client is at one step of `streamdeckctl`; its request waits in the backlog of a socket, in
the runtime's queue, or in a task (`TaskReplies`). A save (`Saved`, which is `persist`) stores the whole state
(`Stores`) or fails, and the process goes on, and answers, all the same; `SavesAgain` is a save for another reason, a press
or a deadline. A load (`LoadState`) reads what is saved or fails, and the process starts from the defaults.

Auxiliary variables name what the code leaves open. `raced`: a start has removed a path which somebody had bound since it
looked. `behind`: a process has not read all that is saved, because another saved between its load and its binding of the
socket (the state is read first, main.rs:156) or because its load failed. `failed`: a process holds what its last save
should have stored. `lost`: the changes that went by one of these, with the first save of a process that is `behind`, with
a save of one that `raced`, or with the end of a process that `failed` and was not stored since.

### Tiles (`Tiles`, `Agenda`, `Repositories`, `Gauges`, `Forecasts`, `Glances`)

The parsers and the views are operators. `Glances` runs them: a fetch keeps the configuration and the instant of its
start, its parts are answered one after another, the clock goes on, the configuration is reloaded, and what the fetch
makes of its answers is stored. The departures ask for a token, keep it, and retry once after a 401. `latest` and
`origin` are auxiliary: the fetch that ended last, and the one that the value came from. Texts are abstract: an answer
is the record that a parser sees, with `None` for what it cannot read. When to fetch is the business of `Refresh`.
A filter is given by the indices that it leaves (`Only`), a sort by the keys of the indices (`SortedBy`); both are
`Arranged`, which puts an index where as many come before it. What a parser or a fetch comes to is `Failed` or `Ready`
with its value, the `Result` of the code.

### Keys that act on the Mac (`Mixer`, `Players`, `Media`, `Foreground`, `AmbientLight`)

A press spawns a task with what the deck knew; tasks run side by side, each call to the Mac is a step, and its outcome
is a report that the coordinator handles later. The user changes the Mac between any two of them. Of the two audio
adapters the native one holds a mutex over read and write (`holder`), the other does not. `script` is the status script
of Spotify between its questions; `downloads` and `covers` are `artwork_in_flight` and the cache of the renderer.
`asked` is a media status between its questions. Levels of brightness are hundredths, and `Curve` stands for the
logarithm.

`Controls` has one `subject` per behaviour. The parts share nothing but the coordinator, which handles one event at a
time and passes nothing from one of these parts to another; a behaviour of all of them would interleave independent
behaviours. What they share with the rest - deadlines, fetches in flight, actions that make a feed due - is in
`Refresh`.

## 3. Runs

| Run | Question | Result |
|---|---|---|
| `walkingpad_service` | is the task right for every order of requests, failures, samples and ticks? | passes, about 101,000 states |
| `walkingpad_system` | do deck and task agree, does every command end, and do the keys tell the truth? | passes, about 246,000 states |
| `controls_after_fault` | README.md:226, controls recover only after progress or a stop | violated |
| `stop_overtakes` | README.md:50, Stop preempts another command | violated |
| `feedback_stays` | deadline.rs:35, a command error is cleared | violated |
| `pomodoro` | do timer, file, deadlines, alert and sound stay together over presses, late outcomes, sleep and restarts? | passes, about 123,000 states |
| `daily_totals` | are totals and state file right over failed saves, kills, power losses, midnights and new connections, and does a save implement `DurableState`? | passes, about 5,553,000 states |
| `presses` | does each press run one action, of the page it began on, and does every panel close? | passes, about 573,000 states |
| `deck_device` | do caches, handles and glass agree when the deck is unplugged in the middle of a batch? | passes, about 267,000 states |
| `refresh` | is what is on show polled, is a change seen, does the screen catch up? | passes, about 384,000 states |
| `daemons` | may two daemons serve, are answers true and kept, does every request end? | passes, about 766,000 states |
| `tiles` | are marks honest and values right, and does a press act on what its key shows? | passes, about 1,887,000 states |

What the properties say:
- `FaultIsCurrent`: the interlock of the loop and the watchdog's flag agree, and a fault is backed by the newest
  sample. `MotionIsJustified`: a motion command on the link was called for by what the task knows *now*, even though
  a sample, a fault or a reconnect may lie between its being sent and its being taken.
- `RequestsAreAccounted`: the account of every Stop and every motion request over every path, including the early
  returns. `ShutdownComesLast`: no Stop is left behind by a shutdown. These make the next four meaningful:
  `PendingIsAnswered` and `PendingResolves` (the deck is never stuck on COMMAND BUSY), `StopsAreServed`,
  `ShutdownEnds`.
- `LinkComesBack`: pressing keys neither keeps the link down nor puts the next attempt off, an attempt that is dropped
  halfway keeps the process lock, and the task never reports itself as the other process.
- `DeckFollowsTask`: although `apply_status` sets the connection on its own, the deck shows the task's connection
  once it has read everything. `FaultHoldsControls`: a fault ends a pending motion command and admits only Stop.
  `PendingEndsVisibly`: a wait ends by a confirming status or with a message.

- `TimerWithinPhase`: adjusting, pausing, resuming and restarting never leave more time than the phase is long.
  `RestartResumes`: a crash between any two steps loses nothing. `PhaseEndIsRight`: every path that moves the end of a
  phase moves the deadline with it, and no order of completions, presses, late outcomes and wakes leaves an alert or a
  sound that belongs to something else. `CreditedOnce`: no phase is counted twice, and one that has run out stays to be
  counted until a toggle, a deadline, a wake or a restart counts it, whatever comes between. It does not claim the
  "exactly once" of pomodoro.rs:187, which the code does not keep: `Unreconciled` names the steps that change the timer
  without `reconcile` (skip, reset, start, adjust and StartNext), and a phase that ran out before one of them is lost, or
  ends later. `ExpiryIsHandled`: where the timer is on show, even a deadline that came due too early is made good.

- `NeverOverCounts`: no order of samples, resets of the belt's counter, new connections, midnights and restarts credits
  a stretch twice or to a day it was not walked on. `StoredUnlessDirty`: what is not marked dirty is in the file,
  unless the last save failed (the code clears the mark all the same). `ImplementsDurable`: the steps of `save` refine
  `DurableState`.
- `FiresWhereItWentDown`: an action runs on the page, the connection and the unlocked screen its key went down on, with
  the exception of a second key that arms in the same pass. `PressesEndOnce`: a press runs at most one action, and
  neither the arm nor the panel deadline is lost or left over. `PanelCloses`: a panel that nobody touches goes away.
- `RecordedIsShown`: a key that is skipped because the caches know it shows what they say. `HandlesAgree`: runtime and
  supervisor use the same handle; the exception is a failed write to the old handle whose report is handled after the
  new handle was announced, which leaves the deck dark until it is plugged in again. `GlassCatchesUp`.
- `ShownFeedsAreKept`: every feed the visible tiles are drawn from has a fetch under way or a deadline.
  `ChangesAreSeen`: once the runtime has heard that the user changed something, the value from before is shown as
  current only if a fetch brings it again; an answer that was read before the change and comes after it counts as
  that, which the code does not tell apart. `ScreenCatchesUp`: when the world rests and answers, what stays on show
  becomes true.
- `KeysTellTheTruth`: a key drawn as ready sends its request, one drawn as disabled would send nothing; no state of
  connection, fault, age or pending command draws Stop as disabled while a Stop could be sent.
- `ServerIsAlone`: two daemons serve side by side, or one that `streamdeckctl` cannot reach, only after `raced`.
  `AnswersHold`: what was answered as done was done once, and what was answered as refused is not done later. A change that
  was answered as done is in the saved state from then on, through crashes and starts, unless its save failed, which the
  client is not told, or it is in `lost`: saving is not what the answer promises in this code, and the property says how
  far it can be relied on. `NothingIsIgnored`: every request ends
  without the client's limit, and a daemon that stays comes to use the configuration as it was left, except for an edit
  between the load and the watcher.
- `MarksAreHonest`: a tile without a mark shows what the last fetch brought; one with a mark had a fetch that was not
  answered - of several accounts or repositories, by none - and never one whose token could have been renewed.
  `GlancesAreRight`: merged, sorted, capped and rounded, a value is what the services said to the fetch it came from.
  `OpensWhatIsShown`: the same entry is on the tile and behind the press.
- `PressesHitTheirTarget`: a key chooses only a device that its target names, closes only the application that it
  named, moves the level that its tile shows; the media tile names an owner only if there is no other it can be.
  `OutcomesAreFiled`: a cover is kept under its own track unless the status was read while the track changed, and the
  hands-free flag is what the toggles that succeeded made it. `LevelsAddUp`: with the native adapter no volume step is
  lost between two tasks, and unmuting gives back what the mute took. `BrightnessFollows`: after every reading, reload and
  reconnect, the deck has a brightness within the limits in force and near what the light calls for.

Eight of these are conjunctions of named parts, each with its own comment beside the module it is about, because they
answer one question.

Every property of a passing run has a mutant, a definition with a plausible bug (`Faulty...`, `Quiet...`,
`Endless...`, each above the definition it changes) under which TLC finds the property violated.

### Findings

1. **Fault forgotten by a reconnect.** The fault and the watchdog are locals of `run_connected`. A link that drops and
   returns with the same frozen counters starts with a clean record, and motion commands are executed again until the
   watchdog has run its five seconds once more.
2. **A queued motion command survives a Stop.** The urgent channel is served first but the normal one is not cleared;
   a Start still queued when Stop is pressed is validated against the status from before the halt and executed after
   it.
3. **An error message that stays.** Every status, 900 ms apart, moves the six-second feedback deadline on.

### Observations

Met while modelling, and behaviour of the models as of the code. Where one disagrees with a comment or a document, the
place is quoted; no run of its own is spent on it.

*Timer.* A completion deadline is monotonic and the end of the phase wall-clock time: one that comes due early, after
the wall clock was slewed or set back, is taken by `reconcile_pomodoro` without being set again (mod.rs:455), so that a
timer that is not on show may stand at zero until the next press (`ExpiryIsHandled` is about the pages that show it).
Only `toggle` reconciles, although pomodoro.rs:186-187 says "Called on load, on wake, and before every mutation so a
deadline crossed while the daemon was asleep still fires exactly once": a Skip, Start or Reset that waits in front of
`SystemWoke` overwrites a phase that had run out, and it fires never; an Adjust moves its end, so that it fires later. A
helper outcome that arrives late starts whatever phase is current by then, which loses one that has run out; a restart with a completion pending raises no alert; `long_break_every` is read by nothing.

*Belt.* `command_failed` drops a newer wait than the one that failed. A wake after midnight leaves yesterday's totals
until the next sample. The start of a local day is computed with `.single().expect`, which a change to summer time at
midnight would not satisfy.

*Daemons.* A save that fails is only logged (mod.rs:937-941), and a command that made the change is answered as done all the
same (mod.rs:1304-1314). A state file that cannot be read, parsed or migrated is replaced by defaults in memory
(main.rs:156-165), and by the next save on disk. The state is loaded before the socket is bound, and the stale path is
removed after it was looked at (control.rs:30). Stop followed at once by a start ends as "do not restart". An error in
the configuration at start is not in `streamdeckctl status`, though main.rs:143 says it would be. `tools`, `device_serial`, `audio.native` and `meet_app`
are captured at start and not reloaded. `load` says that a corrupt state file is moved aside; it is not.

*Tiles.* `take(8)` comes before `retain_route` (departures.rs:120), so a stop with many lines may show "-" although its
line leaves soon. A 304 after a change of place marks the old place's forecast as fresh (services/mod.rs:49). A departure
board opens for the configuration's stop while its tile still shows the feed's. An ended meeting stays until the next
fetch. When only a part fails, the tile has no mark. A Codex alert outshines the stale mark. A token refused twice stays
cached. The lake tile shows the new place's name over the old water. `WeatherDetail` and `WeatherForecast` are in no
table.

*Keys that act.* A mute followed by an unmute before the report is handled restores an older level (audio.rs:212). With
the command adapter, volume steps of two tasks may be lost. A Spotify volume key counts from the cached level: it may
lower a level raised elsewhere, and two quick presses count as one. A status read while the track changes files a cover
under the next track's id. A cover that was fetched is not drawn while the view is unchanged (mod.rs:411). The history keeps
a pid that has gone. An application without a bundle passes for another by its name: one that passes for two others takes
both from the history when it comes to the front, and a recent key goes with them (`Unmistakable`). HOLD TO QUIT acts on
the application in front when the hold fires. A tab is matched by the first title that fits. A brightness whose write
failed is not tried again, and ambient limits closer than the hysteresis are accepted and not honoured.

### Bounds

Service: two counter values (frozen or not), a sample in standby and one moving, one legal speed, a watchdog of two
ticks, statuses stale after one, a poll interval of one and a reconnect delay of at most two: each comparison with a
clock goes both ways, and the delay reaches its cap. Two Stops and one motion request cover a Stop behind a Stop, a
Stop on either side of a motion request, and a request that meets each phase; `MaxEvents = 2` is the largest batch of
updates and makes the task wait for a lagging reader.
System: two speeds with a step of two (Increase clamps at the maximum and is refused there), one Stop and two
motion requests (a press after an answered one), a confirmation deadline of three ticks, a feedback of two, a lag of
at most one tick. One counter value suffices there: what a fault means to the deck does not depend on how the task
found it.
Pomodoro: a minute of one tick, a focus of one to three minutes in steps of two (wraps at both bounds, clamps, and
shifts past zero), breaks of one and of one to two, a long break after two sessions, so that a whole cycle is run and
the cycle runs past its end when a focus is started in place of the long break. Two completed sessions and one of
each break (`MaxCompleted`), one lagging tick, one outcome on its way (enough to arrive after the next press), sleeps
of one tick and of longer than any phase left.

Daily totals: two days (a midnight), a counter that goes up once and restarts, an aggregation window of one tick, one
update on its way, one accident: an accident in every step of every kind of save, with one before or after every other
event.
Presses: two keys, so that two arm in one pass and one is released while the other is held; two pages and a panel over
them; thresholds of one and two ticks, reloaded while keys are down; a panel of two ticks; a Hold of two, which is past
either threshold; two events on their way and one unplugging.
Deck: two keys (a batch that breaks off between two writes), two looks, three openings (a report of a handle that was
replaced), two transient faults (the retry fails too), three events on their way.
Daemons: two processes (a race needs no third), one client with one request of each kind, one edit of the configuration,
valid or not; a process may start again after its end or crash, any number of times, and any save or load may fail.
Tiles: of each integration the answers that are easy to get wrong - a cancelled meeting, a link with a query, equal times,
a tie of runs, a percentage past its limits, a board with more than eight departures, a temperature that is not one - and
every kind of failure. Two fetches (a value, then a failure or a newer value), one reload between or within them, and
two tokens that run out. Sound: two devices that fit one target, one of them without a level; two presses, one turn of a
knob elsewhere. Spotify: three tracks, two covers and room for one, three reads, a press and a skip. Wispr Flow: three toggles.
Media: seven scenes, two of them in a status. Applications: five processes, one of them a second start of the first; a
history of three; four polls, three switches, one press on its way. Light: limits that are wide, narrower than a step, off
and equal; three readings over the whole curve; one unplugging.
Refresh: the weather and its panel, and Spotify, whose cadence changes with the page; a feed with `If-Modified-Since`
and one without; two versions of the world; one task of each kind on its way and one finished.
That every tile of every page is fed is checked over all pages and application kinds (`TilesAreFed`).

`MaxQueue`, `MaxUnplugs`, `MaxOpens`, `MaxFaults`, `MaxTasks`, `MaxUpdates`, `MaxAccidents`, `MaxCounter`, `LastDay`,
`MaxEvents`, `MaxStops`, `MaxMotions`, `MaxLag`, `MaxCompleted`, `MaxInbox`, `MaxEdits`, `MaxFetches`, `MaxReloads`,
`MaxRevoked`, `MaxPresses`, `MaxTurns`, `MaxJobs`, `MaxReads`, `MaxSkips`, `MaxLinks`, `MaxScenes`, `MaxStatuses`,
`MaxErrands`, `MaxPolls`, `MaxSwitches` and `MaxReadings` are bounds of the model, guards on what is sent or published. The
queues of the code are unbounded. `MaxFailures` is where the delay has reached its cap; a count beyond it changes
nothing.

### Fairness

- `WF(ServiceStep)`: tokio schedules a task that can run, and an operation on the pad ends. Polls, connects and
  disconnects are under timeouts in the code; a write is trusted to the BLE stack. Whether it ends well is open.
- `WF(ReadsEvent)` / `WF(WalkingPadUpdate)`: the runtime loop is scheduled.
- `WF` on the tick: the clock runs.
- `SF(FeedbackExpires)`: the loop's select is not biased and picks at random between a due sleep and a waiting event,
  so a deadline that comes due again and again is handled. Without it `FeedbackIsCleared` would fail for a reason the
  code does not have.
- `WF` on `CompletionDue`, `CountdownTick` and `Wake` (pomodoro): deadlines that are due and a detected sleep are
  handled; on `Tick`: time passes.
- Presses: `SF(Tick)`, because a tick waits for deadlines that are due; `SF(DismissDue \/ ArmingDue)`, by the unbiased
  select; `WF` on the steps of a handler that waits inside.
- Deck: `WF(Write)`: calls of the device return; `SF(TakeEvent)`: events are handled between batches; `SF` on a repaint
  of the view as it is: the deadlines repaint the deck from time to time.
- Refresh: for each feed, `WF` on its fetch ending and being received (services run under timeouts), and on a deadline
  that stays set being handled.
- Daemons: `WF` on each process's own steps, on its loop taking what is queued, on its tasks, and on a client reading its
  answer. No start, signal, crash, edit, time-out or other save has to happen.
- Tiles: none; `Controls` has safety properties only.
- Nothing is assumed of presses, helpers, shutdown, abort, sleep or restart.

The service runs switch deadlock checking off because the task ends after a shutdown and the requests sent are bounded;
`daemons` because every process may be off and every client done; `tiles` because what is fetched, pressed and changed is
bounded. The other runs check for deadlock.

## 4. Proofs

`tlapm` checks every theorem to the last leaf. The assumptions are those on the constants, named in the modules that
declare them, and TLC evaluates them in the runs:
- task and deck (`TypesAssumption`, `NoneAssumption`, `WatchdogAssumption`, `ServiceAssumption`, `DeckAssumption`,
  `DeckNoneAssumption`, `SystemAssumption`): the legal speeds are a nonempty range above zero, `None` is a value of its
  own, delays and intervals are positive, the queue holds the largest batch;
- timer (`PomodoroAssumption`, `DaemonAssumption`, `AlertAssumption`): positive minutes and lower bounds, ordered bounds,
  first durations within them, `MaxLate` beyond any adjustment;
- refreshes (`RefreshAssumption`, `FetchAssumption`, `NavigatorAssumption`, `PanelAssumption`): `None` is
  a value of its own, durations are positive, pages and feeds are among those of the tables;
- presses (`DeckAssumption` of `DeckTypes`, `PressAssumption`, `PressesAssumption`, `PassAssumption`): keys are numbers,
  finitely many, thresholds are positive, and bindings name pages of the deck;
- state file and totals (`StoreAssumption`, `DailyAssumption`), deck (`DeviceAssumption`, `BatchAssumption`), daemons
  (`DaemonsAssumption`, `OutcomeAssumption`): `None` and what stands for a torn or missing file are values of their
  own, days are counted from a first one, bounds are natural numbers;
- what the keys reach (`LightAssumption`, `PlayersAssumption`, `WisprAssumption`, `MixerAssumption`, `MediaAssumption`,
  `ApplicationsAssumption`, `ForegroundAssumption`, `ControlsAssumption`): the limits of the
  brightness are in 10..100 and in order, as `config.rs` demands, and the curve rises from 0 to 1000 thousandths; the
  actions of the Spotify keys are the five of the code; there are finitely many audio devices, and each kind has one
  with a level; steps are integers; finitely many processes own media, their applications have a name, a family and a
  match of the bundle, and the tabs of a scene are a list; a pid belongs to one process, and the commands of the
  application keys are the six of the code; a subject is one of those that are modelled;
- integrations (`GlancesAssumption`, `SubjectsAssumption`): times are natural numbers, what is configured is a list, a
  limit is a number, and an answer that could be read is well formed: lists where the parsers expect lists, integers
  where they compare (`WellFormed`). Nothing is assumed of the order or the length of an answer, nor of what else it says.

Nothing is assumed of how many counters, samples, Stops, motion requests, feeds, pages, versions, tasks, keys, days,
openings, processes, clients, devices, tracks, readings, accounts, repositories, stops, answers or presses there are, and
no fairness is used.

| Theorem | States |
|---|---|
| `TypeCorrect` | `Spec => []TypeOK` |
| `FaultIsAlwaysCurrent` | `Spec => []FaultIsCurrent` |
| `MotionIsAlwaysJustified` | `Spec => []MotionIsJustified` |
| `LockIsAlwaysKept`, `RetryIsNeverPostponed` | the safety parts of `LinkComesBack` |
| `NoRequestIsLost` | `Spec => []RequestsAreAccounted`, from `NoStopIsLost` and `NoMotionIsLost` |
| `ShutdownAlwaysLast` | `Spec => []ShutdownComesLast` |
| `DeckTypeCorrect` | `System => []DeckTypeOK` |
| `DeckAlwaysFollowsTask` | `System => []DeckFollowsTask` |
| `FaultAlwaysHoldsControls` | `System => []FaultHoldsControls` |
| `PendingAlwaysEndsVisibly` | `System => PendingEndsVisibly` |
| `PendingIsAlwaysAnswered` | `System => []PendingIsAnswered` |
| `KeysAlwaysTellTheTruth` | `System => []KeysTellTheTruth` |
| `PomodoroTypeCorrect` | `Spec => []PomodoroTypeOK` |
| `TimerAlwaysWithinPhase` | `Spec => []TimerWithinPhase` |
| `RestartAlwaysResumes` | `Spec => []RestartResumes` |
| `PhaseEndAlwaysRight` | `Spec => []PhaseEndIsRight`, from `AlertIsAlwaysCurrent`, `SoundAlwaysFollowsAlert`, `DeadlineIsAlwaysSet` |
| `AlwaysCreditedOnce` | `Spec => CreditedOnce` |
| `RefreshTypeCorrect` | `RefreshSpec => []RefreshTypeOK` |
| `ShownFeedsKept` | `RefreshSpec => []ShownFeedsAreKept` |
| `ChangesSeen` | `RefreshSpec => []ChangesAreSeen` |
| `TilesAreFed` | on every page, the tiles' feeds are among `required_integrations` |
| `PressesTypeCorrect` | `PressesSpec => []PressesTypeOK` |
| `PressesFireWhereTheyBegan` | `PressesSpec => []FiresWhereItWentDown` |
| `PressesAlwaysEndOnce` | `PressesSpec => []PressesEndOnce` |
| `SavesAreDurable` | `StoreSpec => ImplementsDurable`: the steps of `save` refine `DurableState` |
| `DailyTypeCorrect` | `DailySpec => []DailyTypeOK` |
| `NeverOverCounted` | `DailySpec => []NeverOverCounts` |
| `AlwaysStoredUnlessDirty` | `DailySpec => []StoredUnlessDirty` |
| `DaemonStateIsDurable` | `DailySpec => ImplementsDurable`: so do the saves of the runtime |
| `DeviceTypeCorrect` | `DeviceSpec => []DeviceTypeOK` |
| `RecordedAlwaysShown` | `DeviceSpec => []RecordedIsShown` |
| `HandlesAlwaysAgree` | `DeviceSpec => []HandlesAgree` |
| `DaemonsTypeCorrect` | `DaemonsSpec => []DaemonsTypeOK` |
| `ServerAlwaysAlone` | `DaemonsSpec => []ServerIsAlone` |
| `AnswersAlwaysHold` | `DaemonsSpec => []AnswersHold` |
| `BrightnessAlwaysFollows` | `ControlsSpec => []BrightnessFollows` |
| `OutcomesAreAlwaysFiled` | `ControlsSpec => []OutcomesAreFiled` |
| `LevelsAlwaysAddUp` | `ControlsSpec => LevelsAddUp` |
| `PressesAlwaysHitTheirTarget` | `ControlsSpec => []PressesHitTheirTarget`, from `SelectionsAreAlwaysMeant`, `StepsAreAlwaysFromTheTile` and the lemmas `ForegroundIsAlwaysMeant`, `OwnerIsNeverGuessed` |
| `MarksAreAlwaysHonest` | `ControlsSpec => []MarksAreHonest` |
| `GlancesAreAlwaysRight` | `ControlsSpec => []GlancesAreRight` |
| `OpensAlwaysWhatIsShown` | `ControlsSpec => []OpensWhatIsShown` |

**The invariant of the task (`WalkingPadProofs`).** `FaultInv` is `TypeOK`, `RequestInHand` (a request is in hand exactly
while executing), `FaultIsCurrent` and `MotionIsJustified`. Neither of the last two is inductive: that a command on
the link stays justified needs that no sample is taken while it is in flight, which is the phase; that a fault stays
current over a tick needs the type of the watchdog's age; and a command begun without a fault is begun with a healthy
watchdog only because the two flags agree. Steps are grouped by what they do (those that leave the connection's
locals alone, those that discard them, a sample, a command begun, a tick), one lemma per group, so that the case
split over the actions is short. Two lemmas carry the content: `ObservationStep`, what a sample does to the pair of
flags, and `ExecutionStep`, what `Valid` gives.

**The accounts (`WalkingPadProofs`).** `RequestsAreAccounted` counts Stops in the urgent channel as its length less
one if a Shutdown is in it. That is right only if there is at most one Shutdown, at the end: `UrgentInOrder`, which in
turn needs that nothing is sent after it (`Send` and `RequestShutdown` look at `exiting` and `ShuttingDown`), and
`ExitingPhase`. `StopInv` adds them. `ShutdownComesLast` then follows from the account at the moment the Shutdown is
taken: it was the last element, so nothing is queued, and the task is not in a halt. The account of motion requests
needs only the types. Every action falls in one of a few classes (quiet, sent, refused, begun, ended, left) that
change the two sides of the equation alike.

**The timer (`PomodoroProofs`).** First each operator of `Pomodoro` is shown to preserve `Sound` (a timer of the right
type within its phase) and to credit at most the phase that ran; the work is in `AdjustDurationSound`, where
`ShiftBounds` says that a change of the length shifts what is left to at least a second and at most the new length.
`NormalizeSound` says that `normalize` touches only the cycle of a sound timer. That a phase which has run out is not
lost is a statement about steps: `ExpiryCounts` (what begins with `reconcile` counts it), `LaterExpired` (time does not undo
it), `RestartCounts` and, over all actions, `NothingLost`. `PInv` then joins the run's invariants,
with `Matches(saved, timer)` for `RestartResumes`, which alone does not survive a step that keeps the old file. They
lean on one another: an alert stays current because the timer under it is Ready and cannot run out, and a deadline
that comes due early is the only way to be Running without one because it was set for the end of the phase.

**Deck and task (`WalkingPadProofs`).** The argument is carried by the updates on their way. `TaskSays` classifies what a step
of the task appends to them by what it means to the deck, and `TaskStep` shows that every step of the task is one of
these; the proofs about the deck look at the four classes and never at the task's actions again. `LeadsTo(c, q, S)`
says that a deck which shows c and reads q ends up with a connection in S; `DeckInv` joins it, for the connection that the
task last announced, to the types and to `FaultHoldsControls`, which `apply_status` preserves only because a status is
never published in another state than Connected or Faulted (`Serves`). `DeckFollowsTask` is `LeadsTo` of an empty queue.
`PendingIsAnswered` needs `AnswerInv`: besides an answer that is coming, that a motion command which still waits behind a
Stop is queued and not in hand, since the Stop will drop the command in hand without an answer. `ServiceInv` says what of
the task's invariants that rests on: a request is in hand only while it is carried out.

**Refreshes (`RefreshProofs`).** Every handler of the coordinator but the one that stores an answer does only three
things to it: it makes cells due, starts fetches, and sets the deadlines of what is on show. `FollowsFrom` says so; a
lemma for each function that the handlers are built from shows it, and whatever follows from the coordinator and serves
its page (`Served`) preserves the invariant. `RefreshInv` adds two facts that `ShownFeedsAreKept` leans on.
`FlightsAreFetches`: what is marked as in flight is really being fetched, or nothing would ever take the mark away.
`OnlyKnownIsRevalidated`: only a feed with a value may be answered "unchanged"; such an answer to an empty cell would end
the fetch and set no deadline. `TilesAreFed` goes over the key tables page by page.

**Presses (`PressesProofs`).** `HeldInv` ties a held key to the auxiliary variables: it went down on what is shown, it
has not acted unless it has armed, and only a long press arms. Neither `FiresWhereItWentDown` nor `OneActionPerPress` is
inductive without it. `PassInv` carries it over a pass: the keys that wait for their turn have not acted, though the
first may have changed the page under them, and a panel that is due with the pass has lost its deadline
(`PanelDrained`) until the pass polls it or an action restarts it. `Handled` is what every handler that may run an
action leaves behind, so that the release from the device, the end of a Hold and the turn of a key in a pass share one
lemma. `NextArmType` needs that a nonempty set of ages has a greatest; it comes from the well-foundedness of the
natural numbers.

**State file and totals (`DailyTotalsProofs`).** `StoreInv` says, for each step of `save`, what is in the temporary file and
under the name; with it each step maps to a step of `DurableState` or to a stutter, through every failure, kill and
power loss. The runtime moves only between two steps of a save or not at all (`SaveInv`), so that the refinement
carries over to `DailySpec`. `NeverOverCounts` compares a count with what was watched, but what the runtime is going
to credit lies in samples that still wait. `CreditIsCovered` says that there are numbers, one for each waiting sample,
that explain them: what had been watched when each was taken. The samples rise no faster than these numbers, the first
is covered by what the runtime has counted, and what the belt counted since the last one has been watched too.
`FilesAreHonest` extends the claim to every state that may still come under the name of the file, since a restart may load
any of them.

**The deck (`DeckDeviceProofs`).** `QueueInv` says of the handles on their way to the runtime that they are newer than
its own, in the order of their opening, the newest among them, and that nothing was written to them; `TargetInv` follows
the last of them to what the supervisor reads from. `FramesInv` and `ViewsInv` split `RecordedIsShown` by cache: a
recorded frame is on the glass or in the buffer of the handle while a batch runs, and a recorded view is the frame or
is still among what the batch has left.

**Several daemons (`DaemonsProofs`).** `PathInv`: unless there was a race, whoever has bound its socket owns the path; the
starts that look at the path are held by `LookedInv`. `TidyInv` and `OwesInv` say that a request waits in one place, with
one process, and that nothing has been done or said about it, without which an answer could be given twice. `TruthInv`
is what the answers say. `SavedInv` is what keeps a change that was saved: a process that may still save has read all that
is saved, or is `behind` or `raced`. `FailedInv` says that only a process that has come to save has `failed`, so that what it
could not store is still among what it holds. An invariant alone does not give `AnswersAreKept`: every step is shown to
forget nothing (`NothingForgotten`: what was in the file, or held unsaved, or lost, is so afterwards), through
`StoreFiles`, `SaveFiles` and `MoveFiles` for the steps that store, that try to, and that do not.

**What the keys reach (`ControlsProofs`).** A behaviour is about one subject, so each part has an invariant of its own.
- `LightInv`: arithmetic, mostly. `QuantizedIsNear` says that rounding to a step moves the brightness by less than the
  hysteresis and never past a limit.
- `PlayersInv`: the feed, the covers, the tile and the downloads all name a track and its cover (`Filed`), unless the
  track is one of those that changed under the script. `UsedIs` and `TakenOutIs` say what the cache's operators keep.
- `WisprInv`: as long as toggles come one after another at most one is on its way; the flag is already what it asks
  for, and Wispr Flow does the opposite until its link has worked.
- `MixerInv`: who is about to write holds the transaction, and what it read is still so (`HeldIs`), which gives the
  volume steps. For the mute key `MuteIs` follows the level that the last mute took, from the task that wrote it
  through its report to what is remembered and to the press that copies it. `ResolvedIs` says what the name of a
  target is, for both adapters, and `SelectionIs` carries it from the tile to the device.

- `MediaInv`: every answer is that of a scene of the time in which the status was asked for. `Named` says that the
  application which a status has come to is one that such a scene may be put down to, whichever way it was found;
  `AskedInMore` that a scene which is added takes nothing from that.
- `ForegroundInv`: the history is what was observed, without what was observed again later, as far as the history goes
  (`HistoryIs`); the proof follows the indices that are left (`Climbs`) over one application that comes to the front. A
  task of a press is about an application, and what it hits has that application's pid (`ErrandIs`).

`MuteIs` is inductive only because a press of the mute key ends the calm of one that is still on its way. Without that,
on the command adapter, a mute that was overtaken by a volume step and a second mute would count as the last one while
the second one's level is remembered.

**The integrations (`ControlsProofs`).** `GlanceInv` says that the value of the feed is the `Outcome` of a fetch that was
told all it asked for, `origin`; that an answer of 304 comes only to a feed with a value, since `modified` is kept only with
one; and that a fetch of departures that was refused once has dropped the token or holds one that it has asked for
itself, so that a second refusal is not for want of asking. `MarksAreHonest` is inductive with these. `AllTold` and
`OutcomeTells` say, for each integration, that a fetch has an outcome exactly if it was told well.

What the other two properties say of a tile follows from the outcome alone, for every answer. The lemmas about lists carry
it. `ListedByRank`: if the places before each index are known, there is one way to list the indices, by how many come
before. From it, what `Only` leaves and in which order (`OnlyHas`, `ClimbsUpTo` for a filter that is cut off), that
`SortedBy` loses nothing and rises (`SortedHas`), and that the first of a sorted list is a least one (`FirstSortedIs`).
`FlattenIs` and `AggregateIs` are about the two recursive functions, the concatenation of lists and the days of a forecast. The
library's induction theorems are out of reach, so the proof takes the least argument for which the claim is false
(`LeastExists`, which rests on the well-foundedness of the natural numbers) and compares it with the one before.
`AgendaComesRight`, `RadarComesRight` and their like then compare each tile with its reader's definition. `OpensWhatIsShown`
is proved integration by integration: the tile and the press pick the same element of the same list.

Two of the properties had to be said more exactly before they held for every answer. A repository's runs are
read up to the tenth, and what comes after it neither spoils the answer nor colours the tile (`Own`). And the keys of the
recent applications miss none only if no application passes for two others (`Unmistakable`).

In all of these the inductive invariant was checked with TLC first, on instances of the size of the runs; of `ForegroundInv`
only what it is for, since TLC cannot look for the indices in `HistoryIs`.

**Only model-checked.** Liveness (`StopsAreServed`, `Reconnects` in `LinkComesBack`, `ShutdownEnds`, `PendingResolves`,
`ExpiryIsHandled`, `PanelCloses`, `GlassCatchesUp`, `ScreenCatchesUp`, `NothingIsIgnored`), which is beyond this
prover. Every invariant and every safety property of an action that a run checks is proved. Of the integrations, what
the properties do not speak of - percentages of Claude and of the system's health, wording - has no theorem.

## 5. Plan

Done, in the order of what the system stands or falls by: the WalkingPad task, its deck and keys; the timer with its
deadlines, alert and restart; presses and navigation; cache and refreshes; the device and its caches; the state file and
the totals it keeps; several daemons; the integrations and the keys that act on the Mac.

Left: the deadline queue with all its deadlines in one module, to compose timer, presses and refreshes over one `wake`.

**Not modelled and why.**
- Drawing: `streamdeck-render` but for its cache of covers, theme, fonts, icons, the screensaver's pictures, labels of the
  clock and of the timer. Functions to pixels and text, covered by golden images; nothing reads them back.
- The checks of configuration values (`config.rs`): they reject a file as a whole and keep no state. That a rejected file
  leaves the one in force is in `Daemons`.
- Texts: JSON, tab-separated output, property names, formatting and wording of `streamdeckctl`. The parsers are modelled
  on the records behind them.
- Doctor, metrics, logging, `Status`, `LogLevel` and `RenderPreview`: they observe.
- Credentials, the Meet window, keep-awake, notifications of sleep and lock, quick captures and openings that start a
  program: one call whose result changes nothing in the daemon.
- The render deadlines of labels (`MeetingLabel`, weather boundary and detail, the belt's label tick): they draw again
  what the models draw at every step.
