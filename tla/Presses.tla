-------------------------------- MODULE Presses ------------------------------
(***************************************************************************)
(* Key presses from the finger to the action: the reader of the device     *)
(* (crates/streamdeckd/src/device), the event channel, and the runtime     *)
(* (crates/streamdeckd/src/runtime/mod.rs) with its PressTracker, its      *)
(* Navigator, and the deadlines LongPressArm and PanelDismiss.             *)
(*                                                                         *)
(* The runtime handles one thing at a time.  What waits inside a handler   *)
(* is a step of its own: the sleep of a Hold from the control socket, and  *)
(* each key that arms in one pass.                                         *)
(*                                                                         *)
(* A definition named Faulty... is a mutant: the code with a possible bug. *)
(***************************************************************************)
EXTENDS PressTracker, Navigator, Sequences

CONSTANTS
    Thresholds,     \* PressConfig.long_press_ms, before and after a reload
    HoldTimes,      \* how long a Hold from the control socket lasts
    FirstPage,      \* the page the deck starts with
    Binding,        \* page -> key -> [short, long], or None: a blank key
    MaxQueue,       \* bound: events on their way to the runtime
    MaxUnplugs      \* bound: times the deck is unplugged

Action == [kind : {"none", "dismiss"}] \cup [kind : {"go", "panel"}, page : Pages]

ASSUME PressesAssumption ==
    /\ Thresholds \subseteq 1..Longest
    /\ HoldTimes \subseteq Nat
    /\ FirstPage \in Pages
    /\ Binding \in [Pages -> [Keys ->
            [short : Action, long : Action \cup {None}] \cup {None}]]
    /\ MaxQueue \in Nat \ {0}
    /\ MaxUnplugs \in Nat

\* The keys that arm in one pass of `handle_deadlines` and are still to be
\* handled, whether the panel is due as well, and whether none is handled yet.
Passes == [keys : SUBSET Keys, panelDue : BOOLEAN, first : BOOLEAN]

\* None is a value of its own.
ASSUME PassAssumption == None \notin Passes

VARIABLES
    down,       \* the keys a finger is on
    plugged,    \* the deck is there, and its reader runs
    seen,       \* the keys that were down in the last report of the device
    queue,      \* the events on their way to the runtime
    held,       \* PressTracker.held
    threshold,  \* PressTracker.config
    nav,        \* RuntimeState.navigator
    duration,   \* Navigator.panel_duration_ms
    armIn,      \* time to the LongPressArm deadline, or None
    dismissIn,  \* time to the PanelDismiss deadline, or None
    locked,     \* Runtime.screen_locked
    hold,       \* the Hold that is waiting, or None
    pass,       \* the pass that arms keys, or None
    unplugs,    \* auxiliary: times the deck was unplugged
    fresh,      \* auxiliary: keys held since they went down on what is shown
    fired,      \* auxiliary: what the last action was fired for
    acts        \* auxiliary: actions fired since the key went down, up to 2

device == << down, plugged, seen >>
control == << hold, pass >>
config == << threshold, duration >>
aux == << unplugs, fresh, fired, acts >>
vars == << device, queue, held, config, nav, armIn, dismissIn, locked, control, aux >>

-----------------------------------------------------------------------------
Events ==
    [kind : {"Down", "Up"}, key : Keys]
        \cup [kind : {"DeviceDisconnected", "DeviceReconnected"}]

Bound(k) == Binding[VisiblePage(nav)][k]
HasLong(k) == Bound(k) # None /\ Bound(k).long # None

LongestPanel == UNION {0..d : d \in Durations}

\* Every variable has a value of its kind.
PressesTypeOK ==
    /\ down \subseteq Keys
    /\ plugged \in BOOLEAN
    /\ seen \subseteq Keys
    /\ queue \in Seq(Events)
    /\ held \in Held
    /\ threshold \in Thresholds
    /\ nav \in Navigators
    /\ duration \in Durations
    /\ armIn \in 0..Longest \cup {None}
    /\ dismissIn \in LongestPanel \cup {None}
    /\ locked \in BOOLEAN
    /\ hold \in [key : Keys, left : UNION {0..t : t \in HoldTimes}] \cup {None}
    /\ pass \in Passes \cup {None}
    /\ unplugs \in 0..MaxUnplugs
    /\ fresh \subseteq Keys
    /\ fired \in [fresh : BOOLEAN, first : BOOLEAN]
    /\ acts \in [Keys -> 0..2]

PressesInit ==
    /\ down = {}
    /\ plugged = TRUE
    /\ seen = {}
    /\ queue = << >>
    /\ held = NothingHeld
    /\ threshold \in Thresholds
    /\ nav = [page |-> FirstPage, panel |-> None]
    /\ duration \in Durations
    /\ armIn = None
    /\ dismissIn = None
    /\ locked = FALSE
    /\ hold = None
    /\ pass = None
    /\ unplugs = 0
    /\ fresh = {}
    /\ fired = [fresh |-> TRUE, first |-> TRUE]
    /\ acts = [k \in Keys |-> 0]

-----------------------------------------------------------------------------
(* The finger, the device and its reader.  Bounds: MaxQueue, MaxUnplugs.   *)

runtimeVars == << held, config, nav, armIn, dismissIn, locked, control,
                  fresh, fired, acts >>

Touch(k) ==
    /\ plugged
    /\ down' = IF k \in down THEN down \ {k} ELSE down \cup {k}
    /\ UNCHANGED << plugged, seen, queue, unplugs, runtimeVars >>

\* `next_event` returns the first key of a report that changed; the others of
\* the same report are gone.
Forwarded(changed) == Min(changed)

Report ==
    LET changed == SymDiff(down, seen)
        k == Forwarded(changed)
    IN  /\ plugged
        /\ changed # {}
        /\ Len(queue) < MaxQueue
        /\ seen' = down
        /\ queue' = Append(queue, [kind |-> IF k \in down THEN "Down" ELSE "Up", key |-> k])
        /\ UNCHANGED << down, plugged, unplugs, runtimeVars >>

Unplug ==
    /\ plugged
    /\ unplugs < MaxUnplugs
    /\ Len(queue) < MaxQueue
    /\ unplugs' = unplugs + 1
    /\ plugged' = FALSE
    /\ down' = {}
    /\ queue' = Append(queue, [kind |-> "DeviceDisconnected"])
    /\ UNCHANGED << seen, runtimeVars >>

\* The reader of the new handle has seen no key.
Replug ==
    /\ ~plugged
    /\ Len(queue) < MaxQueue
    /\ plugged' = TRUE
    /\ seen' = {}
    /\ queue' = Append(queue, [kind |-> "DeviceReconnected"])
    /\ UNCHANGED << down, unplugs, runtimeVars >>

-----------------------------------------------------------------------------
(* What an action does, with what is held by then.                         *)

Acted(action, n) ==
    CASE action.kind = "go" -> GoTo(n, action.page)
      [] action.kind = "panel" -> OpenPanel(n, action.page, duration)
      [] action.kind = "dismiss" -> DismissPanel(n)
      [] action.kind = "none" -> n

PageChanged(action, n) ==
    \/ action.kind = "go" /\ GoToChanges(n, action.page)
    \/ action.kind = "panel"
    \/ action.kind = "dismiss" /\ n.panel # None

FaultyAfterPageChange(n) ==
    /\ nav' = n
    /\ dismissIn' = PanelLeft(n)
    /\ UNCHANGED held

\* `after_page_change`.
AfterPageChange(n) ==
    /\ nav' = n
    /\ held' = NothingHeld
    /\ dismissIn' = PanelLeft(n)

\* `execute`: any interaction restarts the panel.
Execute(action, heldNow) ==
    LET touched == TouchPanel(nav, duration)
        result == Acted(action, touched)
    IN  /\ IF PageChanged(action, touched)
             THEN AfterPageChange(result)
             ELSE /\ nav' = touched
                  /\ dismissIn' = IF nav.panel # None THEN duration ELSE dismissIn
                  /\ held' = heldNow
        /\ fresh' = IF result = touched THEN fresh ELSE {}

\* The action of a press of k.
Fire(k, action, heldNow, first) ==
    /\ Execute(action, heldNow)
    /\ fired' = [fresh |-> k \in fresh, first |-> first]
    /\ acts' = [acts EXCEPT ![k] = Min({@ + 1, 2})]

FireNothing(heldNow) ==
    /\ held' = heldNow
    /\ UNCHANGED << nav, dismissIn, fresh, fired, acts >>

Rearm(heldNow) == armIn' = NextArm(heldNow, threshold)

\* Whether a release of k runs its short action, and that action.
ShortOf(k) == IF Bound(k) = None THEN [kind |-> "none"] ELSE Bound(k).short

Release(k, heldBefore) ==
    LET heldNow == Released(heldBefore, k)
    IN  /\ Rearm(heldNow)
        /\ IF KeyUp(heldBefore[k], threshold) = "ShortPress"
             THEN Fire(k, ShortOf(k), heldNow, TRUE)
             ELSE FireNothing(heldNow)

-----------------------------------------------------------------------------
(* The handlers of the runtime.                                            *)

Idle == hold = None /\ pass = None

Take(kinds) ==
    /\ Idle
    /\ queue # << >>
    /\ Head(queue).kind \in kinds
    /\ queue' = Tail(queue)

IgnoreKey ==
    /\ Take({"Down", "Up"})
    /\ locked
    /\ UNCHANGED << device, held, config, nav, armIn, dismissIn, locked, control, aux >>

KeyDown ==
    LET k == Head(queue).key
    IN  /\ Take({"Down"})
        /\ ~locked
        /\ held' = PressedDown(held, k, HasLong(k))
        /\ Rearm(held')
        /\ fresh' = fresh \cup {k}
        /\ acts' = [acts EXCEPT ![k] = 0]
        /\ UNCHANGED << device, config, nav, dismissIn, locked, control, unplugs, fired >>

HandleKeyUp ==
    /\ Take({"Up"})
    /\ ~locked
    /\ Release(Head(queue).key, held)
    /\ UNCHANGED << device, config, locked, control, unplugs >>

\* DeviceDisconnected, and `attach_device`, forget what is held.
DeviceChanges ==
    /\ Take({"DeviceDisconnected", "DeviceReconnected"})
    /\ held' = NothingHeld
    /\ fresh' = {}
    /\ UNCHANGED << device, config, nav, armIn, dismissIn, locked, control,
                    unplugs, fired, acts >>

ArmDue == armIn = 0
PanelDue == dismissIn = 0

\* `poll_panel`.
PollPanel ==
    IF Expired(nav)
      THEN AfterPageChange(DismissPanel(nav)) /\ fresh' = {}
      ELSE UNCHANGED << nav, held, dismissIn, fresh >>

\* The PanelDismiss deadline alone.
DismissDue ==
    /\ Idle
    /\ PanelDue /\ ~ArmDue
    /\ IF Expired(nav)
         THEN AfterPageChange(DismissPanel(nav)) /\ fresh' = {}
         ELSE dismissIn' = None /\ UNCHANGED << nav, held, fresh >>
    /\ UNCHANGED << device, queue, config, armIn, locked, control, unplugs,
                    fired, acts >>

StartPass(panelDue) ==
    LET ripe == Ripe(held, threshold)
    IN  /\ held' = Armed(held, ripe)
        /\ pass' = [keys |-> ripe, panelDue |-> panelDue, first |-> TRUE]

\* The LongPressArm deadline: `take_due`, and `poll_arm`.
ArmingDue ==
    /\ Idle
    /\ ArmDue
    /\ StartPass(PanelDue)
    /\ armIn' = None
    /\ dismissIn' = IF PanelDue THEN None ELSE dismissIn
    /\ UNCHANGED << device, queue, config, nav, locked, hold, aux >>

\* `armed`, for the keys in the order of their positions: it looks the action
\* up on the page that is shown by now.
ArmNext ==
    LET k == Min(pass.keys)
    IN  /\ pass # None
        /\ pass.keys # {}
        /\ IF HasLong(k)
             THEN Fire(k, Bound(k).long, held, pass.first)
             ELSE FireNothing(held)
        /\ pass' = [pass EXCEPT !.keys = @ \ {k}, !.first = FALSE]
        /\ UNCHANGED << device, queue, config, armIn, locked, hold, unplugs >>

\* The rest of `handle_deadlines`.
EndPass ==
    /\ pass # None
    /\ pass.keys = {}
    /\ hold = None
    /\ pass' = None
    /\ Rearm(held)
    /\ IF pass.panelDue
         THEN PollPanel
         ELSE UNCHANGED << nav, held, dismissIn, fresh >>
    /\ UNCHANGED << device, queue, config, locked, hold, unplugs, fired, acts >>

-----------------------------------------------------------------------------
(* The control socket.                                                     *)

ControlPage(page) ==
    /\ Idle
    /\ Execute([kind |-> "go", page |-> page], held)
    /\ UNCHANGED << device, queue, config, armIn, locked, control, unplugs,
                    fired, acts >>

\* `key_down` and `key_up`, one after the other.
ControlPress(k) ==
    /\ Idle
    /\ Bound(k) # None
    /\ LET pressed == PressedDown(held, k, HasLong(k))
           heldNow == Released(pressed, k)
       IN  Rearm(heldNow) /\ Execute(ShortOf(k), heldNow)
    /\ UNCHANGED << device, queue, config, locked, control, unplugs, fired, acts >>

ControlHold(k, time) ==
    /\ Idle
    /\ Bound(k) # None
    /\ held' = PressedDown(held, k, HasLong(k))
    /\ Rearm(held')
    /\ hold' = [key |-> k, left |-> time]
    /\ fresh' = fresh \cup {k}
    /\ acts' = [acts EXCEPT ![k] = 0]
    /\ UNCHANGED << device, queue, config, nav, dismissIn, locked, pass, unplugs, fired >>

\* The sleep is over: every key that is ripe arms, then `key_up`.
HoldArms ==
    /\ hold # None /\ pass = None
    /\ hold.left = 0
    /\ StartPass(FALSE)
    /\ UNCHANGED << device, queue, config, nav, armIn, dismissIn, locked, hold, aux >>

HoldEnds ==
    /\ hold # None /\ pass # None
    /\ pass.keys = {}
    /\ Release(hold.key, held)
    /\ hold' = None
    /\ pass' = None
    /\ UNCHANGED << device, queue, config, locked, unplugs >>

-----------------------------------------------------------------------------
(* Everything else that reaches the presses and the page.                  *)

Lock ==
    /\ Idle
    /\ ~locked
    /\ locked' = TRUE
    /\ held' = NothingHeld
    /\ fresh' = {}
    /\ UNCHANGED << device, queue, config, nav, armIn, dismissIn, control, unplugs, fired, acts >>

Unlock ==
    /\ Idle
    /\ locked
    /\ locked' = FALSE
    /\ UNCHANGED << device, queue, held, config, nav, armIn, dismissIn, control, aux >>

FaultyWake ==
    /\ Idle
    /\ armIn' = None
    /\ fresh' = {}
    /\ held' = NothingHeld
    /\ IF Expired(nav)
         THEN nav' = DismissPanel(nav) /\ dismissIn' = None
         ELSE nav' = nav /\ dismissIn' = None
    /\ UNCHANGED << device, queue, config, locked, control, unplugs, fired, acts >>

\* `wake` drains every deadline; an open panel gets its deadline again.
Wake ==
    /\ Idle
    /\ armIn' = None
    /\ fresh' = {}
    /\ IF Expired(nav)
         THEN AfterPageChange(DismissPanel(nav))
         ELSE nav' = nav /\ held' = NothingHeld /\ dismissIn' = PanelLeft(nav)
    /\ UNCHANGED << device, queue, config, locked, control, unplugs, fired, acts >>

\* `apply_config`: the deadlines stay as they are.
Reload ==
    /\ Idle
    /\ threshold' \in Thresholds
    /\ duration' \in Durations
    /\ UNCHANGED << device, queue, held, nav, armIn, dismissIn, locked, control, aux >>

Sooner(time) == IF time = None \/ time = 0 THEN time ELSE time - 1

\* A deadline that is due is handled before time goes on, unless a Hold keeps
\* the runtime waiting.
Tick ==
    /\ pass = None
    /\ IF hold = None
         THEN ~ArmDue /\ ~PanelDue /\ hold' = hold
         ELSE hold.left > 0 /\ hold' = [hold EXCEPT !.left = @ - 1]
    /\ held' = Older(held)
    /\ nav' = PanelOlder(nav)
    /\ armIn' = Sooner(armIn)
    /\ dismissIn' = Sooner(dismissIn)
    /\ UNCHANGED << device, queue, config, locked, pass, aux >>

-----------------------------------------------------------------------------
PressesNext ==
    \/ \E k \in Keys : Touch(k)
    \/ Report
    \/ Unplug
    \/ Replug
    \/ IgnoreKey
    \/ KeyDown
    \/ HandleKeyUp
    \/ DeviceChanges
    \/ DismissDue
    \/ ArmingDue
    \/ ArmNext
    \/ EndPass
    \/ \E page \in Pages : ControlPage(page)
    \/ \E k \in Keys : ControlPress(k)
    \/ \E k \in Keys, time \in HoldTimes : ControlHold(k, time)
    \/ HoldArms
    \/ HoldEnds
    \/ Lock
    \/ Unlock
    \/ Wake
    \/ Reload
    \/ Tick

PressesSpec == PressesInit /\ [][PressesNext]_vars

\* Time goes on, a handler ends, and the select of `run` does not choose an
\* event over a deadline that is due for ever.
FairPresses ==
    /\ PressesSpec
    /\ SF_vars(Tick)
    /\ SF_vars(DismissDue \/ ArmingDue)
    /\ WF_vars(ArmNext \/ EndPass \/ HoldArms \/ HoldEnds)

-----------------------------------------------------------------------------
(* What should hold.                                                       *)

\* An action runs on the page, the connection and the unlocked screen its key
\* went down on.  The code leaves one exception: of several keys that arm in
\* one pass, only the first is sure to meet the page it was held on.
FiresWhereItWentDown == fired.fresh \/ ~fired.first

\* A press runs its short action or its long one, and neither twice, even if
\* the threshold changes while the key is down.
OneActionPerPress == \A k \in Keys : acts[k] <= 1

\* A key that may still arm has a deadline to do so: a wake, a reload, another
\* key's release or a pass that arms other keys does not lose it.
ArmIsScheduled == pass = None /\ Waiting(held) # {} => armIn # None

\* An open panel has exactly its own deadline, a closed one has none, whatever
\* closed it, restarted it or drained the deadlines.
PanelIsScheduled ==
    pass = None \/ ~pass.panelDue => dismissIn = PanelLeft(nav)

\* No deadline of a press or a panel is lost or left over.
DeadlinesAreSet == ArmIsScheduled /\ PanelIsScheduled

\* A press that goes down acts at most once and does not get stuck, and neither does
\* the panel that it opens.
PressesEndOnce == OneActionPerPress /\ DeadlinesAreSet

\* A panel closes in the end, unless it is restarted again and again: no lock,
\* wake, reload, unplugging or Hold can leave it open.
Restarted ==
    nav.panel # None /\ nav'.panel # None /\ nav'.panel.left > nav.panel.left
PanelCloses == []<>(nav.panel = None) \/ []<><<Restarted>>_vars

=============================================================================
