------------------------------- MODULE Refresh -------------------------------
(***************************************************************************)
(* What the deck shows of the outside world, and how it stays true: the    *)
(* visibility-gated refreshes of crates/streamdeckd/src/runtime (mod.rs,   *)
(* state.rs, actions.rs) over the caches of the feeds, the pages and the   *)
(* actions of the user, which run as tasks and report back.                *)
(*                                                                         *)
(* `rt` is the coordinator's own state, and every handler maps it to the   *)
(* one after it.  A fetch is a task: it reads the outside world some time  *)
(* after it was started, and its answer waits in the event queue.  Answers *)
(* of different feeds touch different state, so that the queue's order is  *)
(* left out.  Deadlines have no time: one that is set may come due.        *)
(*                                                                         *)
(* A definition named Faulty... is a mutant: the code with a possible bug. *)
(***************************************************************************)
EXTENDS PageTables, Navigator

CONSTANTS
    Versions,   \* what a feed may say
    Feeds,      \* the feeds of this instance; Pages are its pages
    Kind,       \* the kind of the application in front, by what its feed says
    MaxTasks    \* bound: actions of one kind on their way

ASSUME RefreshAssumption ==
    /\ None \notin Versions
    /\ Feeds \subseteq FeedIds
    /\ None \notin Feeds
    /\ None \notin AppKinds
    /\ (Versions \cup {None}) \cap {"unchanged", "failed"} = {}
    /\ Pages \subseteq PageIds
    /\ Kind \in [Versions -> AppKinds]
    /\ MaxTasks \in Nat

VARIABLES
    rt,         \* the coordinator, see Runtimes
    fetches,    \* the fetch of each feed that runs or has answered, or None
    running,    \* tasks of the user's actions: how many of every kind
    finished,   \* ActionFinished events in the queue, likewise
    world,      \* what a fetch of each feed would read
    changed     \* auxiliary: the feeds that the user has changed from the deck and
                \* of which no answer was stored since the runtime heard of it

outside == << running, finished, world >>
vars == << rt, fetches, outside, changed >>

-----------------------------------------------------------------------------
(* Cached<T> (crates/streamdeck-core/src/cache.rs): the last value of one  *)
(* integration and whether it has to be fetched again.  Expiry is a flag:  *)
(* `due` says that expires_at has passed.  The time to live of an answer,  *)
(* that of a failure and an Expires header all mean "not due, for a        *)
(* while"; a step of the clock makes the cell due.                         *)

Cell == [value : Versions \cup {None}, due : BOOLEAN, stale : BOOLEAN]

NewCell == [value |-> None, due |-> TRUE, stale |-> FALSE]

NeedsFetch(c) == c.value = None \/ c.due

Store(c, v) == [value |-> v, due |-> FALSE, stale |-> FALSE]

\* A 304 answer makes the value new again, if there is one.
Revalidate(c) == IF c.value = None THEN c ELSE Store(c, c.value)

\* An old value is kept, marked, and left alone for the time of a retry.
Fail(c) == IF c.value = None THEN c ELSE [c EXCEPT !.due = FALSE, !.stale = TRUE]

Invalidate(c) == [c EXCEPT !.due = TRUE]

\* Its time has run out.
RunOut(c) == [c EXCEPT !.due = TRUE]

\* Shown as current: Feed::Ready.
Ready(c) == c.value # None /\ ~c.stale

-----------------------------------------------------------------------------
\* Tasks that make the runtime fetch a feed again, and others.
TaskKinds == Feeds \cup {None}

\* `since` is the version that is not to be sent again (If-Modified-Since).
Answers == Versions \cup {"unchanged", "failed"}
Fetch == [since : Versions \cup {None}, answer : Answers \cup {None}]

\* None is a value of its own.
ASSUME FetchAssumption == None \notin Fetch

Runtimes == [
    nav          : Navigators,
    cells        : [Feeds -> Cell],                 \* RuntimeState.feeds
    inFlight     : SUBSET Feeds,                    \* RuntimeState.in_flight
    deadlines    : SUBSET Feeds,                    \* DeadlineId::Refresh
    fast         : BOOLEAN,                         \* Spotify's policy: every 2 s
    lastModified : Versions \cup {None} ]           \* weather_last_modified

RefreshTypeOK ==
    /\ rt \in Runtimes
    /\ fetches \in [Feeds -> Fetch \cup {None}]
    /\ running \in [TaskKinds -> 0..MaxTasks]
    /\ finished \in [TaskKinds -> 0..MaxTasks]
    /\ world \in [Feeds -> Versions]
    /\ changed \subseteq Feeds

-----------------------------------------------------------------------------
(* Scheduling.                                                              *)

visible_page(s) == VisiblePage(s.nav)

Required(s) == required_integrations(visible_page(s)) \cap Feeds

\* The kind of the application in front, as far as the deck knows.
App(s) ==
    IF "application" \in Feeds /\ s.cells["application"].value # None
    THEN Kind[s.cells["application"].value] ELSE None

InvalidateAll(s, ids) ==
    [s EXCEPT !.cells = [i \in Feeds |-> IF i \in ids THEN Invalidate(@[i]) ELSE @[i]]]

apply_spotify_cadence(s) ==
    LET onSpotify == \/ visible_page(s) = "spotify"
                     \/ visible_page(s) = "application" /\ App(s) = "Spotify"
    IN  IF s.fast = onSpotify THEN s
        ELSE InvalidateAll([s EXCEPT !.fast = onSpotify],
                           IF onSpotify THEN {"spotify"} ELSE {})

schedule_refresh_deadlines(s) ==
    [apply_spotify_cadence(s) EXCEPT !.deadlines = Required(s)]

due_integrations(s) ==
    {i \in Required(s) : i \notin s.inFlight /\ NeedsFetch(s.cells[i])}

\* Nothing is started twice, nor for a page that is not on show.
spawn_refresh(s, ids) ==
    [s EXCEPT !.inFlight = @ \cup (ids \cap Required(s))]

spawn_due_refreshes(s) == [s EXCEPT !.inFlight = @ \cup due_integrations(s)]

\* Mutant: the deadlines stay those of the page that was left.
Faulty_after_page_change(s) == {spawn_due_refreshes(t) : t \in {apply_spotify_cadence(s)}}

after_page_change(s) == {spawn_due_refreshes(t) : t \in {schedule_refresh_deadlines(s)}}

\* The navigator has moved; only a change of the page is followed up.
Turned(s, nav, changes) ==
    IF changes THEN after_page_change([s EXCEPT !.nav = nav])
    ELSE {[s EXCEPT !.nav = nav]}

\* poll_panel: the end of a panel.
PanelPolled(s) == IF Expired(s.nav) THEN Turned(s, DismissPanel(s.nav), TRUE) ELSE {s}

-----------------------------------------------------------------------------
(* What a press asks for.                                                   *)

Navigated(nav, a, duration) ==
    CASE a.name = "Navigate" -> GoTo(nav, a.arg)
      [] a.name = "SelectMicrophone" -> GoTo(nav, "home")
      [] a.name = "OpenPanel" -> OpenPanel(nav, a.arg, duration)
      [] a.name = "DismissPanel" -> DismissPanel(nav)
      [] OTHER -> nav

PageChanges(nav, a) ==
    CASE a.name = "Navigate" -> GoToChanges(nav, a.arg)
      [] a.name = "SelectMicrophone" -> GoToChanges(nav, "home")
      [] a.name = "OpenPanel" -> TRUE
      [] a.name = "DismissPanel" -> nav.panel # None
      [] OTHER -> FALSE

\* ApplicationInfo::context_action, over all its keys.
ContextActions(app) ==
    CASE app = "Spotify" -> {Do("Spotify")}
      [] app = "Wispr" -> {Do("ToggleHandsFree"), Do("Microphone"), Go("wispr")}
      [] app = "Meet" -> {Do("OpenMeeting"), Do("ToggleHandsFree"), Go("mixer"), Go("wispr")}
      [] app \in {"Ghostty", "Chrome", "Finder", "Slack"} -> {Do("Application")}
      [] OTHER -> {NoAction}

\* What there may be nothing to open or to switch to for.
Optional == {"Recent", "OpenCiRun", "OpenDepartureBoard", "OpenGitHubMetric",
             "OpenGitHubItem"}

\* What an action comes to, by what the deck knows.
Meaning(s, a) ==
    CASE a.name = "Context" -> ContextActions(App(s))
      [] a.name \in {"Application", "Recent"} /\ App(s) = None -> {NoAction}
      [] a.name \in Optional /\ (a.name = "Recent" => App(s) # None) -> {a, NoAction}
      [] OTHER -> {a}

Invalidated(a) ==
    CASE a.name = "Refresh" -> {a.arg} \cap Feeds
      [] a.name = "RefreshLake" -> {"lake_current", "lake_history"} \cap Feeds
      [] OTHER -> {}

Opening == Optional \cup {"ToggleHandsFree", "Microphone", "SelectMicrophone",
                          "QuickCapture", "OpenMeeting", "OpenVpn",
                          "OpenNetworkSettings", "OpenActivityMonitor"}

\* The task it spawns, by the feed that the task's outcome invalidates.
TaskOf(a) ==
    CASE a.name = "Spotify" -> {"spotify"} \cap Feeds
      [] a.name = "Media" -> {"media"} \cap Feeds
      [] a.name = "Audio" -> {"audio"} \cap Feeds
      [] a.name \in {"Application", "Recent"} -> {"application"} \cap Feeds
      [] a.name \in Opening \ {"Recent"} -> {None}
      [] OTHER -> {}

-----------------------------------------------------------------------------
(* What an answer does.                                                     *)

Stored(c, answer) ==
    CASE answer = "failed" -> Fail(c)
      [] answer = "unchanged" -> Revalidate(c)
      [] OTHER -> Store(c, answer)

\* Mutant: a failed fetch is not tried again by itself.
FaultyReceived(s, i, answer) ==
    [s EXCEPT !.inFlight = @ \ {i},
              !.cells[i] = Stored(@, answer),
              !.lastModified = IF i = "weather" /\ answer \in Versions THEN answer ELSE @,
              !.deadlines = IF answer = "failed" THEN @ ELSE @ \cup {i}]

\* store_refresh and apply_refresh: a failure is tried again after a delay, a
\* value is fetched again when it expires.
Received(s, i, answer) ==
    LET cell == Stored(s.cells[i], answer) IN
    [s EXCEPT !.inFlight = @ \ {i},
              !.cells[i] = cell,
              !.lastModified = IF i = "weather" /\ answer \in Versions THEN answer ELSE @,
              !.deadlines = IF answer # "failed" /\ cell.value = None
                            THEN @ ELSE @ \cup {i}]

-----------------------------------------------------------------------------
(* The start of the daemon, on the page it was left on.                     *)

Started(page) ==
    spawn_due_refreshes(schedule_refresh_deadlines(
        [ nav |-> [page |-> page, panel |-> None],
          cells |-> [i \in Feeds |-> NewCell],
          inFlight |-> {},
          deadlines |-> {},
          fast |-> FALSE,
          lastModified |-> None ]))

\* The fetches of a coordinator that has become s.
Running(s) ==
    [i \in Feeds |->
        IF i \in s.inFlight \ rt.inFlight
        THEN [since |-> IF i = "weather" THEN s.lastModified ELSE None, answer |-> None]
        ELSE fetches[i]]

RefreshInit ==
    \E page \in Pages :
        /\ rt = Started(page)
        /\ fetches = [i \in Feeds |->
                        IF i \in rt.inFlight THEN [since |-> None, answer |-> None] ELSE None]
        /\ running = [k \in TaskKinds |-> 0]
        /\ finished = [k \in TaskKinds |-> 0]
        /\ world \in [Feeds -> Versions]
        /\ changed = {}

-----------------------------------------------------------------------------
(* The handlers.                                                            *)
(*                                                                          *)
(* A set of one element binds an intermediate state of a handler.           *)

Becomes(s) ==
    \E next \in {s} :
        /\ rt' = next
        /\ fetches' = Running(next)

StaysInside(a) ==
    /\ a.name \in {"Navigate", "OpenPanel"} => a.arg \in Pages
    /\ a.name = "SelectMicrophone" => "home" \in Pages

\* execute and after_effects: a key press, or a Page request of the control socket.
Execute(a) ==
    /\ StaysInside(a)
    /\ \A k \in TaskOf(a) : running[k] + finished[k] < MaxTasks
    /\ \E duration \in Durations :
        \E nav \in {TouchPanel(rt.nav, duration)} :
        \E there \in Turned(rt, Navigated(nav, a, duration), PageChanges(nav, a)) :
        \E stale \in {InvalidateAll(there, Invalidated(a))} : Becomes(spawn_due_refreshes(stale))
    /\ running' = [k \in TaskKinds |-> running[k] + (IF k \in TaskOf(a) THEN 1 ELSE 0)]
    /\ UNCHANGED << finished, world, changed >>

Press == \E a \in ActionsOf(visible_page(rt)) : \E b \in Meaning(rt, a) : Execute(b)

PageRequest == \E page \in Pages : Execute(Go(page))

\* What a Refresh request has fetched.  IntegrationId::AudioInventory shares the
\* slot of the audio status: it invalidates the slot, and no page requires it.
FetchedFor(i) == {{i}} \cup (IF i = "audio" THEN {{}} ELSE {})

\* The Refresh request: it invalidates whatever is on show.
RefreshRequest(i) ==
    /\ \E ids \in FetchedFor(i) : Becomes(spawn_refresh(InvalidateAll(rt, {i}), ids))
    /\ UNCHANGED << outside, changed >>

\* handle_deadlines, for the refreshes that are due and the end of a panel.
HandleDeadlines(due) ==
    /\ UNCHANGED << outside, changed >>
    /\ due # {} \/ Expired(rt.nav)
    /\ \E taken \in {[rt EXCEPT !.deadlines = @ \ due]} : \E there \in PanelPolled(taken) :
            Becomes(spawn_refresh(there, due))

\* After a sleep every deadline is set anew, and what is on show is fetched again.
Wake ==
    /\ \E scheduled \in {schedule_refresh_deadlines([rt EXCEPT !.deadlines = {}])} :
        \E there \in PanelPolled(scheduled) :
        \E stale \in {InvalidateAll(there, Required(there))} : Becomes(spawn_due_refreshes(stale))
    /\ UNCHANGED << outside, changed >>

\* reload_config.
Reload ==
    /\ Becomes(schedule_refresh_deadlines(rt))
    /\ UNCHANGED << outside, changed >>

\* Mutant: only what is on show is invalidated.
FaultyTold(s, k) == InvalidateAll(s, {k} \cap Required(s))

\* apply_action_outcome: what the task has changed is out of date.
Told(s, k) == InvalidateAll(s, {k} \ {None})

ActionFinished(k) ==
    /\ finished[k] > 0
    /\ finished' = [finished EXCEPT ![k] = @ - 1]
    /\ \E told \in {Told(rt, k)} : Becomes(spawn_due_refreshes(told))
    /\ UNCHANGED << running, world, changed >>

\* Refreshed.
Receive(i) ==
    LET answer == fetches[i].answer IN
    /\ fetches[i] # None
    /\ answer # None
    /\ rt' = Received(rt, i, answer)
    /\ fetches' = [fetches EXCEPT ![i] = None]
    /\ changed' = IF answer = "failed" \/ finished[i] > 0 THEN changed ELSE changed \ {i}
    /\ UNCHANGED outside

-----------------------------------------------------------------------------
(* The world, the tasks and the clock.                                      *)

WorldMoves(i) ==
    /\ \E v \in Versions \ {world[i]} : world' = [world EXCEPT ![i] = v]
    /\ UNCHANGED << rt, fetches, running, finished, changed >>

Read(i) ==
    /\ fetches[i] # None
    /\ fetches[i].answer = None
    /\ fetches' = [fetches EXCEPT ![i].answer =
                        IF fetches[i].since = world[i] THEN "unchanged" ELSE world[i]]
    /\ UNCHANGED << rt, outside, changed >>

ReadFails(i) ==
    /\ fetches[i] # None
    /\ fetches[i].answer = None
    /\ fetches' = [fetches EXCEPT ![i].answer = "failed"]
    /\ UNCHANGED << rt, outside, changed >>

\* A task carries out what the user asked for, or fails, and reports back.
TaskEnds(k) ==
    /\ running[k] > 0
    /\ running' = [running EXCEPT ![k] = @ - 1]
    /\ finished' = [finished EXCEPT ![k] = @ + 1]
    /\ \/ /\ k # None
          /\ \E v \in Versions \ {world[k]} : world' = [world EXCEPT ![k] = v]
          /\ changed' = changed \cup {k}
       \/ UNCHANGED << world, changed >>
    /\ UNCHANGED << rt, fetches >>

\* A value's time to live runs out, or the time of a retry.
Expire(i) ==
    /\ rt.cells[i].value # None
    /\ rt' = [rt EXCEPT !.cells[i] = RunOut(@)]
    /\ UNCHANGED << fetches, outside, changed >>

PanelAges ==
    /\ rt' = [rt EXCEPT !.nav = PanelOlder(@)]
    /\ UNCHANGED << fetches, outside, changed >>

Deadlines == \E due \in SUBSET rt.deadlines : HandleDeadlines(due)

RefreshNext ==
    \/ Press
    \/ PageRequest
    \/ \E i \in Feeds : RefreshRequest(i)
    \/ Deadlines
    \/ Wake
    \/ Reload
    \/ \E k \in TaskKinds : ActionFinished(k)
    \/ \E i \in Feeds : Receive(i)
    \/ \E i \in Feeds : WorldMoves(i)
    \/ \E i \in Feeds : Read(i)
    \/ \E i \in Feeds : ReadFails(i)
    \/ \E k \in TaskKinds : TaskEnds(k)
    \/ \E i \in Feeds : Expire(i)
    \/ PanelAges

RefreshSpec == RefreshInit /\ [][RefreshNext]_vars

\* Every fetch ends (each has a timeout), every event is handled, and a deadline
\* that stays set comes due.
FairRefresh ==
    /\ RefreshSpec
    /\ \A i \in Feeds :
        /\ WF_vars(Read(i) \/ ReadFails(i) \/ Receive(i))
        /\ WF_vars(\E due \in SUBSET rt.deadlines : i \in due /\ HandleDeadlines(due))

-----------------------------------------------------------------------------
(* Properties.                                                              *)

\* Something will bring news of the feed: a fetch that is really running, or a
\* deadline.
Kept(i) == \/ i \in rt.inFlight /\ fetches[i] # None
           \/ i \in rt.deadlines

\* No tile on show is forgotten: every feed that the visible page's tiles are
\* drawn from is fetched or has a deadline, whatever was pressed, slept through,
\* reloaded or answered too late (README.md, "Integration refresh is
\* visibility-gated").
ShownFeedsAreKept ==
    \A i \in FeedsShown(visible_page(rt), App(rt)) \cap Feeds : Kept(i)

\* A value that is shown as current and not about to be fetched again.
Trusted(c) == Ready(c) /\ ~c.due

\* What the user has changed from the deck (a track, a volume, the application
\* in front) is not trusted from before that: once the runtime has heard of it,
\* the old value is shown as current only if a fetch brings it again.
ChangesAreSeen ==
    \A i \in changed : Trusted(rt.cells[i]) => finished[i] > 0

Answering == \A i \in Feeds : fetches[i] # None => fetches[i].answer # "failed"

Quiet == <>[](Answering) /\ <>[][world' = world]_vars

\* The screen catches up: when the world comes to rest and answers, every feed
\* that stays on show is shown as it is, and as current.
ScreenCatchesUp ==
    Quiet => \A i \in Feeds :
        []<>(i \in Required(rt) => Ready(rt.cells[i]) /\ rt.cells[i].value = world[i])

=============================================================================
