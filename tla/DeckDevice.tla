------------------------------ MODULE DeckDevice -----------------------------
(***************************************************************************)
(* From what a key should show to its glass: the rendering of the runtime  *)
(* (crates/streamdeckd/src/runtime/mod.rs) with its cache of views and of  *)
(* frames, the device handles (crates/streamdeckd/src/device), and the     *)
(* supervisor that replaces a handle when the deck comes back.             *)
(*                                                                         *)
(* A handle is the number of its opening.  The supervisor, the user and    *)
(* the hardware take steps while a batch of frames is being written.  The  *)
(* deck's own library is external: it keeps frames in a buffer per handle  *)
(* until they are flushed, and forgets them only when a flush succeeds.    *)
(*                                                                         *)
(* A definition named Faulty... is a mutant: the code with a possible bug. *)
(***************************************************************************)
EXTENDS DeckTypes, Sequences

CONSTANTS
    Looks,      \* what a key may show
    Saver,      \* a frame of the screensaver; every one is new
    MaxOpens,   \* bound: times the deck is opened
    MaxQueue,   \* bound: device events on their way to the runtime
    MaxFaults   \* bound: transient errors of a device that is there

ASSUME DeviceAssumption ==
    /\ None \notin Looks
    /\ Saver \notin Looks
    /\ Saver # None
    /\ MaxOpens \in Nat \ {0}
    /\ MaxQueue \in Nat \ {0}
    /\ MaxFaults \in Nat

VARIABLES
    plugged,    \* the deck is there
    glass,      \* what it shows
    working,    \* the handles that reach the deck
    buffer,     \* the library: the frames of each handle that wait for a flush;
                \* those of a handle that reaches nothing are of no interest
    opened,     \* handles opened so far
    reader,     \* the handle the supervisor reads from, or None
    closing,    \* the handle it is about to close, or None
    queue,      \* DeviceDisconnected (None) and DeviceReconnected (the handle)
    device,     \* Runtime.device
    view,       \* what every key should show
    views,      \* Runtime.last_views
    frames,     \* Runtime.frames
    locked,     \* Runtime.screen_locked
    saverDue,   \* the ScreensaverFrame deadline is set
    batch,      \* the frames that are being written, or None
    faults,     \* auxiliary: transient errors so far
    replaced    \* auxiliary: the runtime reported a handle to be gone after the
                \* supervisor had replaced it

deck == << plugged, glass, working, buffer >>
supervisor == << opened, reader, closing >>
caches == << views, frames >>
vars == << deck, supervisor, queue, device, view, caches, locked, saverDue, batch,
           faults, replaced >>

-----------------------------------------------------------------------------
Handles == 1..MaxOpens
Frames == Looks \cup {Saver}
MaybeFrames == [Keys -> Frames \cup {None}]
Blank == [k \in Keys |-> None]

\* Frames that are being written: where to, and the keys that are left.
Batches == [handle : Handles, left : SUBSET Keys, frame : [Keys -> Frames]]

ASSUME BatchAssumption == None \notin Batches

DeviceTypeOK ==
    /\ plugged \in BOOLEAN
    /\ glass \in MaybeFrames
    /\ working \subseteq Handles
    /\ buffer \in [Handles -> MaybeFrames]
    /\ opened \in 0..MaxOpens
    /\ reader \in Handles \cup {None}
    /\ closing \in Handles \cup {None}
    /\ queue \in Seq(Handles \cup {None})
    /\ device \in Handles \cup {None}
    /\ view \in [Keys -> Looks]
    /\ views \in [Keys -> Looks \cup {None}]
    /\ frames \in MaybeFrames
    /\ locked \in BOOLEAN
    /\ saverDue \in BOOLEAN
    /\ batch \in Batches \cup {None}
    /\ faults \in 0..MaxFaults
    /\ replaced \in BOOLEAN

\* `main` opens the deck if it is there; `start` treats it as it would a new one.
DeviceInit ==
    /\ plugged \in BOOLEAN
    /\ glass = Blank
    /\ buffer = [h \in Handles |-> Blank]
    /\ opened = IF plugged THEN 1 ELSE 0
    /\ working = 1..opened
    /\ reader = IF plugged THEN 1 ELSE None
    /\ closing = None
    /\ queue = IF plugged THEN << 1 >> ELSE << >>
    /\ device = None
    /\ view \in [Keys -> Looks]
    /\ views = Blank
    /\ frames = Blank
    /\ locked = FALSE
    /\ saverDue = FALSE
    /\ batch = None
    /\ faults = 0
    /\ replaced = FALSE

-----------------------------------------------------------------------------
(* The deck and its library.                                               *)

runtimeVars == << device, view, caches, locked, saverDue, batch, replaced >>

Unplug ==
    /\ plugged
    /\ plugged' = FALSE
    /\ working' = {}
    /\ glass' = Blank
    /\ buffer' = [h \in Handles |-> Blank]
    /\ UNCHANGED << supervisor, queue, runtimeVars, faults >>

Plug ==
    /\ ~plugged
    /\ plugged' = TRUE
    /\ UNCHANGED << glass, working, buffer, supervisor, queue, runtimeVars, faults >>

Over(frame, below) == [k \in Keys |-> IF frame[k] # None THEN frame[k] ELSE below[k]]

\* A flush that succeeds.
Flushed(h) ==
    /\ h \in working
    /\ glass' = Over(buffer[h], glass)
    /\ buffer' = [buffer EXCEPT ![h] = Blank]

\* A flush that fails after the first keys: the buffer is not emptied.
FlushedUpTo(h, last) ==
    /\ glass' = IF h \in working
                  THEN [k \in Keys |-> IF k <= last THEN Over(buffer[h], glass)[k]
                                                    ELSE glass[k]]
                  ELSE glass
    /\ UNCHANGED buffer

-----------------------------------------------------------------------------
(* `supervise`.                                                            *)

Tell(event) ==
    /\ Len(queue) < MaxQueue
    /\ queue' = Append(queue, event)

\* A device that works may fail too, now and then.
Fault(h) ==
    IF h \in working THEN faults < MaxFaults /\ faults' = faults + 1
                     ELSE UNCHANGED faults

\* The reader of the device gives up.
ReadFails ==
    /\ reader # None
    /\ Fault(reader)
    /\ Tell(None)
    /\ closing' = reader
    /\ reader' = None
    /\ UNCHANGED << deck, opened, runtimeVars >>

\* `close` flushes what is left.
Close ==
    /\ closing # None
    /\ \/ Flushed(closing)
       \/ closing \notin working /\ UNCHANGED << glass, buffer >>
    /\ closing' = None
    /\ UNCHANGED << plugged, working, opened, reader, queue, runtimeVars, faults >>

\* An attempt to open the deck that succeeds; the others change nothing.
Reopen ==
    /\ reader = None /\ closing = None
    /\ plugged
    /\ opened < MaxOpens
    /\ opened' = opened + 1
    /\ working' = working \cup {opened'}
    /\ reader' = opened'
    /\ Tell(opened')
    /\ UNCHANGED << plugged, glass, buffer, closing, runtimeVars, faults >>

-----------------------------------------------------------------------------
(* Rendering.                                                              *)

\* `send`, up to its first write.
Send(keys, frame, framesNow, handle) ==
    LET changed == {k \in keys : frame[k] = Saver \/ framesNow[k] # frame[k]}
    IN  batch' = IF handle = None \/ changed = {}
                   THEN None
                   ELSE [handle |-> handle, left |-> changed, frame |-> frame]

\* `render` and `render_key`: the views are recorded first.
Render(keys, viewsNow, framesNow, handle) ==
    LET changed == {k \in keys : viewsNow[k] # view'[k]}
    IN  /\ views' = [k \in Keys |-> IF k \in changed THEN view'[k] ELSE viewsNow[k]]
        /\ frames' = framesNow
        /\ Send(changed, view', framesNow, handle)

\* `render_screensaver`.  The next frame is due some time after this one.
RenderSaver(viewsNow, framesNow, handle) ==
    /\ views' = viewsNow
    /\ frames' = framesNow
    /\ saverDue' = TRUE
    /\ Send(Keys, [k \in Keys |-> Saver], framesNow, handle)

RenderAny(viewsNow, framesNow, handle) ==
    IF locked THEN RenderSaver(viewsNow, framesNow, handle)
              ELSE Render(Keys, viewsNow, framesNow, handle) /\ UNCHANGED saverDue

FaultyInvalidate == views' = views /\ frames' = Blank

\* `invalidate_render_caches`: both, or the next repaint skips what is stale.
Invalidate == views' = Blank /\ frames' = Blank

\* The runtime reports that the device is gone.
Report(h) ==
    /\ h \notin working
    /\ Tell(None)
    /\ replaced' = (replaced \/ reader \notin {h, None})

\* The keys are written in the order of their positions.
WriteKey ==
    /\ batch # None
    /\ \E k \in batch.left :
          /\ \A j \in batch.left : k <= j
          /\ buffer' = IF batch.handle \in working
                         THEN [buffer EXCEPT ![batch.handle][k] = batch.frame[k]]
                         ELSE buffer
          /\ frames' = [frames EXCEPT ![k] = batch.frame[k]]
          /\ batch' = [batch EXCEPT !.left = @ \ {k}]
    /\ UNCHANGED << plugged, glass, working, supervisor, queue, device, view,
                    views, locked, saverDue, faults, replaced >>

\* Keys before the one that fails stay in the buffer.
WriteFails ==
    /\ batch # None /\ batch.left # {}
    /\ Fault(batch.handle)
    /\ Invalidate
    /\ batch' = None
    /\ UNCHANGED << deck, supervisor, queue, device, view, locked, saverDue, replaced >>

FlushKeys ==
    /\ batch # None /\ batch.left = {}
    /\ Flushed(batch.handle)
    /\ batch' = None
    /\ UNCHANGED << plugged, working, supervisor, queue, device, view, caches,
                    locked, saverDue, faults, replaced >>

FaultyFlushFails ==
    /\ batch # None /\ batch.left = {}
    /\ Fault(batch.handle)
    /\ \E last \in Keys \cup {0} : FlushedUpTo(batch.handle, last)
    /\ batch' = None
    /\ UNCHANGED << plugged, working, supervisor, queue, device, view, caches,
                    locked, saverDue, replaced >>

FlushFails ==
    /\ batch # None /\ batch.left = {}
    /\ Fault(batch.handle)
    /\ \E last \in Keys \cup {0} : FlushedUpTo(batch.handle, last)
    /\ Invalidate
    /\ batch' = None
    /\ UNCHANGED << plugged, working, supervisor, queue, device, view,
                    locked, saverDue, replaced >>

\* A write or a flush finds that the device is gone: the caches stay until the
\* runtime takes its own report from the queue.
DeviceGone ==
    /\ batch # None
    /\ Report(batch.handle)
    /\ batch' = None
    /\ UNCHANGED << deck, supervisor, device, view, caches, locked, saverDue, faults >>

-----------------------------------------------------------------------------
(* The handlers of the runtime.  Each ends with a batch, or with none.     *)

Idle == batch = None

FaultyTakeDisconnected ==
    /\ Idle
    /\ queue # << >>
    /\ Head(queue) = None
    /\ queue' = Tail(queue)
    /\ Invalidate
    /\ UNCHANGED << deck, supervisor, device, view, locked, saverDue, batch, faults,
                    replaced >>

\* DeviceDisconnected, whichever device it was.
TakeDisconnected ==
    /\ Idle
    /\ queue # << >>
    /\ Head(queue) = None
    /\ queue' = Tail(queue)
    /\ device' = None
    /\ Invalidate
    /\ UNCHANGED << deck, supervisor, view, locked, saverDue, batch, faults, replaced >>

\* `set_deck_brightness`: done, failed, or the device is gone.
SetBrightness(h, queueNow) ==
    \/ /\ h # None => h \in working
       /\ queue' = queueNow
       /\ UNCHANGED << faults, replaced >>
    \/ /\ h # None
       /\ Fault(h)
       /\ queue' = queueNow
       /\ UNCHANGED replaced
    \/ /\ h # None
       /\ h \notin working
       /\ Len(queueNow) < MaxQueue
       /\ queue' = Append(queueNow, None)
       /\ replaced' = (replaced \/ reader \notin {h, None})
       /\ UNCHANGED faults

\* DeviceReconnected: `attach_device`, the brightness, and a full repaint.
TakeReconnected ==
    /\ Idle
    /\ queue # << >>
    /\ Head(queue) # None
    /\ device' = Head(queue)
    /\ UNCHANGED << plugged, glass, working, buffer, supervisor, view, locked >>
    /\ SetBrightness(device', Tail(queue))
    /\ RenderAny(Blank, Blank, device')

\* Whatever changes the view and repaints it.
Repaint(v) ==
    /\ Idle
    /\ ~locked
    /\ view' = v
    /\ Render(Keys, views, frames, device)
    /\ UNCHANGED << deck, supervisor, queue, device, locked, saverDue, faults, replaced >>

\* Pressed feedback draws one key, whatever else has changed by then.
Feedback(k, v) ==
    /\ Idle
    /\ ~locked
    /\ view' = v
    /\ Render({k}, views, frames, device)
    /\ UNCHANGED << deck, supervisor, queue, device, locked, saverDue, faults, replaced >>

\* While the screen is locked what a key should show changes unseen.
ChangeUnseen(v) ==
    /\ Idle
    /\ locked
    /\ view' = v
    /\ UNCHANGED << deck, supervisor, queue, device, caches, locked, saverDue, batch,
                    faults, replaced >>

\* `reload_config`.
Reload ==
    /\ Idle
    /\ UNCHANGED << plugged, glass, working, buffer, supervisor, device, view, locked,
                    saverDue >>
    /\ SetBrightness(device, queue)
    /\ IF locked THEN Invalidate /\ UNCHANGED batch ELSE Render(Keys, Blank, Blank, device)

\* AmbientLight, when it changes the brightness.
Brighten ==
    /\ Idle
    /\ UNCHANGED << plugged, glass, working, buffer, supervisor, device, view, caches,
                    locked, saverDue, batch >>
    /\ SetBrightness(device, queue)

Lock ==
    /\ Idle
    /\ ~locked
    /\ locked' = TRUE
    /\ RenderSaver(Blank, Blank, device)
    /\ UNCHANGED << deck, supervisor, queue, device, view, faults, replaced >>

Unlock ==
    /\ Idle
    /\ locked
    /\ locked' = FALSE
    /\ saverDue' = FALSE
    /\ UNCHANGED view
    /\ Render(Keys, Blank, Blank, device)
    /\ UNCHANGED << deck, supervisor, queue, device, faults, replaced >>

\* The ScreensaverFrame deadline.
SaverFrame ==
    /\ Idle
    /\ locked
    /\ saverDue
    /\ RenderSaver(views, frames, device)
    /\ UNCHANGED << deck, supervisor, queue, device, view, locked, faults, replaced >>

\* `wake` drains the deadline of the screensaver, and draws a frame of it.
Wake ==
    /\ Idle
    /\ UNCHANGED view
    /\ RenderAny(views, frames, device)
    /\ UNCHANGED << deck, supervisor, queue, device, locked, faults, replaced >>

-----------------------------------------------------------------------------
TakeEvent == TakeDisconnected \/ TakeReconnected

Write == WriteKey \/ WriteFails \/ FlushKeys \/ FlushFails \/ DeviceGone

DeviceNext ==
    \/ Unplug
    \/ Plug
    \/ ReadFails
    \/ Close
    \/ Reopen
    \/ WriteKey
    \/ WriteFails
    \/ FlushKeys
    \/ FlushFails
    \/ DeviceGone
    \/ TakeDisconnected
    \/ TakeReconnected
    \/ \E v \in [Keys -> Looks] : Repaint(v) \/ ChangeUnseen(v)
    \/ \E k \in Keys, v \in [Keys -> Looks] : Feedback(k, v)
    \/ Reload
    \/ Brighten
    \/ Lock
    \/ Unlock
    \/ SaverFrame
    \/ Wake

DeviceSpec == DeviceInit /\ [][DeviceNext]_vars

\* Calls return, events are taken in turn, and deadlines repaint the deck from
\* time to time.
FairDevice ==
    /\ DeviceSpec
    /\ WF_vars(Write)
    /\ SF_vars(TakeEvent)
    /\ SF_vars(Repaint(view))

-----------------------------------------------------------------------------
Attached == device # None /\ device \in working
Settled == Idle /\ queue = << >>

\* What the caches say a key shows is what it shows, so that skipping it is
\* right: after any partial write, lost or failed flush, lock, wake or new
\* handle.  Views and frames are forgotten together.
RecordedIsShown ==
    Settled /\ Attached =>
        \A k \in Keys :
            /\ frames[k] # None => glass[k] = frames[k]
            /\ ~locked /\ views[k] # None => frames[k] = views[k]

\* Once its events are handled, the runtime writes to the handle the supervisor
\* reads from, or to none; and to none, with a deck that works, only when it
\* reported the handle before to be gone, too late.
HandlesAgree ==
    Settled =>
        /\ device \in {reader, None}
        /\ reader \in working /\ device # reader => replaced

\* The screensaver has its next deadline whenever the screen is locked.
SaverKeepsRunning == locked => saverDue

\* A deck that stays attached comes to show what it should, however many writes
\* failed before.
GlassCatchesUp ==
    <>[](Attached /\ ~locked) /\ <>[][UNCHANGED view]_vars => <>[](glass = view)

=============================================================================
