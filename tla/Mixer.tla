-------------------------------- MODULE Mixer --------------------------------
(***************************************************************************)
(* The audio keys: choose a device, step its volume, mute it.  A press     *)
(* spawns a task, tasks run side by side, and what a task learnt comes     *)
(* back to the coordinator as a report.  integrations/audio.rs of          *)
(* streamdeck-core, audio.rs and audio/native.rs of streamdeck-macos, the  *)
(* audio tasks of runtime/actions.rs and the audio tiles of pages/views.rs.*)
(*                                                                         *)
(* There are two adapters: the native one holds a mutex over a reading and *)
(* the writing that follows from it; the other runs a command for each.    *)
(* The user may turn the same knobs elsewhere, at any moment.              *)
(***************************************************************************)
EXTENDS Tiles

CONSTANTS
    Sound,         \* the devices: of each its kind, its name, and its control
    Targets,       \* of each kind: the sequence of configured targets
    AudioKeys,     \* the presses there are: [do, kind, arg]
    MaxPresses,    \* bound
    MaxTurns       \* bound: times something else turns a knob

Kinds == {"Output", "Input"}

ASSUME MixerAssumption ==
    /\ IsFiniteSet(DOMAIN Sound) /\ None \notin DOMAIN Sound \cup Int
    /\ \A d \in DOMAIN Sound : Sound[d].kind \in Kinds /\ Sound[d].control \in {"main", "channels", "none"}
    /\ \A k \in Kinds : \E d \in DOMAIN Sound : Sound[d].kind = k /\ Sound[d].control # "none"
    /\ \A key \in AudioKeys : key.kind \in Kinds /\ (key.do = "adjust" => key.arg \in Int)
    /\ \A k \in Kinds : \A i \in DOMAIN Targets[k] :
            Targets[k][i].exact # None \/ Targets[k][i].pattern # None
    /\ {MaxPresses, MaxTurns} \subseteq Nat

VARIABLES
    native,     \* which adapter the configuration names
    mac,        \* [present, default, level, muted]
    drawn,      \* the snapshot that the tiles were drawn from
    tasks,      \* of each press so far, its task
    holder,     \* the task that holds the transaction, or 0
    reports,    \* the outcomes that wait for the coordinator
    remembered, \* input_volume_before_mute
    before,     \* auxiliary: the level that the last mute took, or None, see Muted
    turns       \* bounded

mixer == << native, mac, drawn, tasks, holder, reports, remembered, before, turns >>

-----------------------------------------------------------------------------
(* Devices.                                                                 *)

Present(kind) == {d \in mac.present : Sound[d].kind = kind}

NamesOf(ids) == {Sound[d].name : d \in ids}

Total(levels) ==
    LET total[c \in 0..Len(levels)] == IF c = 0 THEN 0 ELSE total[c - 1] + levels[c]
    IN  total[Len(levels)]

Mean(levels) == (2 * Total(levels) + Len(levels)) \div (2 * Len(levels))

\* The channels, or the one of the device as a whole, make one level: their mean.
read_volume(d) ==
    IF d = None \/ Sound[d].control = "none" THEN None ELSE Mean(mac.level[d])

\* A device without a control has no mute either.
read_mute(d) == IF d = None \/ Sound[d].control = "none" THEN None ELSE mac.muted[d]

\* Every channel is written.
write_volume(d, volume) == [mac EXCEPT !.level[d] = [c \in DOMAIN @ |-> volume]]
write_mute(d, muted) == [mac EXCEPT !.muted[d] = muted]

Writable(d) == d \in mac.present /\ Sound[d].control # "none"

next_volume(current, delta) ==
    IF current + delta < 0 THEN 0 ELSE IF current + delta > 100 THEN 100 ELSE current + delta

\* The name that a target stands for among these devices, None if there is none, and
\* "several" if it would have to be guessed.  The native inventory names a device
\* once.
resolve(target, ids) ==
    LET fits == {d \in ids : target.pattern # None /\ Sound[d].name \in target.pattern}
        count == Cardinality(IF native THEN NamesOf(fits) ELSE fits)
    IN  IF target.exact \in NamesOf(ids) THEN target.exact
        ELSE IF count = 0 THEN None
        ELSE IF count = 1 THEN CHOOSE n \in NamesOf(fits) : TRUE
        ELSE "several"

-----------------------------------------------------------------------------
(* Tiles.                                                                   *)

Snapshot ==
    [present |-> mac.present,
     names |-> [k \in Kinds |-> IF mac.default[k] = None THEN None ELSE Sound[mac.default[k]].name],
     volume |-> [k \in Kinds |-> read_volume(mac.default[k])],
     muted |-> read_mute(mac.default.Output)]

\* `status` of the adapters: the command wants every field of `get volume settings`.
StatusOk ==
    /\ \A k \in Kinds : read_volume(mac.default[k]) # None
    /\ native \/ read_mute(mac.default.Output) # None

is_muted(snapshot, kind) ==
    IF kind = "Output" THEN snapshot.muted = TRUE ELSE snapshot.volume.Input = 0

DeviceFace(feed, kind, index) ==
    LET target == At(Targets[kind], index)
        name == resolve(target, {d \in feed.value.present : Sound[d].kind = kind})
    IN  IF target = None THEN Face("blank", << >>, "Ok")
        ELSE IF ~HasValue(feed) THEN Face("disabled", << target.label >>, StatusOf(feed))
        ELSE Face("device", << target.label >>,
                  IF name = None THEN "Disabled"
                  ELSE IF name = "several" THEN "Ambiguous"
                  ELSE IF name = feed.value.names[kind] THEN "Selected"
                  ELSE "Ok")

MuteFace(feed, kind) ==
    IF ~HasValue(feed) THEN Face("disabled", << >>, StatusOf(feed))
    ELSE IF is_muted(feed.value, kind) THEN Face("muted", << "OFF" >>, "Alert")
    ELSE Face("live", << "ON" >>, "Selected")

MixerFace(feed) ==
    IF ~HasValue(feed) THEN offline_or_loading(feed)
    ELSE Face("mixer", << feed.value.names,
                          IF is_muted(feed.value, "Output") THEN "OFF" ELSE feed.value.volume.Output,
                          IF is_muted(feed.value, "Input") THEN "OFF" ELSE "ON" >>, StatusOf(feed))

-----------------------------------------------------------------------------
(* Presses and their tasks.                                                 *)

\* A device without a level of its own, a dock say, is not plugged in yet.
MixerInit ==
    /\ native \in BOOLEAN
    /\ mac = [present |-> {d \in DOMAIN Sound : Sound[d].control # "none"},
              default |-> [k \in Kinds |-> CHOOSE d \in DOMAIN Sound :
                                                Sound[d].kind = k /\ Sound[d].control # "none"],
              level |-> [d \in DOMAIN Sound |->
                            IF Sound[d].control = "channels" THEN << 40, 61 >> ELSE << 60 >>],
              muted |-> [d \in DOMAIN Sound |-> FALSE]]
    /\ drawn = Loading
    /\ tasks = << >>
    /\ holder = 0
    /\ reports = << >>
    /\ remembered = 50
    /\ before = None
    /\ turns = 0

Mutes(task) == task.do = "toggle" /\ task.kind = "Input"

\* What the coordinator knows is copied into the task when it is spawned.
\* Auxiliary: `calm`, no other press of the key was on its way, nor came later; `tile`,
\* how the key looked; `same`, the devices are still the ones that it was drawn from.
PressAudio ==
    /\ Len(tasks) < MaxPresses
    /\ \E key \in AudioKeys :
        tasks' = Append([p \in DOMAIN tasks |-> [tasks[p] EXCEPT !.calm = @ /\ ~Mutes(key)]],
            [do |-> key.do, kind |-> key.kind, arg |-> key.arg, restore |-> remembered,
             step |-> "read", device |-> None, saw |-> None, said |-> "ok", memory |-> None,
             calm |-> \A p \in DOMAIN tasks : Mutes(tasks[p]) => tasks[p].step = "over",
             tile |-> IF key.do = "select" THEN DeviceFace(drawn, key.kind, key.arg).status ELSE None,
             same |-> HasValue(drawn) /\ drawn.value.present = mac.present,
             among |-> {}, disturbed |-> FALSE])
    /\ UNCHANGED << native, mac, drawn, holder, reports, remembered, before, turns >>

\* Mutant: no transaction.
FaultyMayStart == TRUE

\* The native adapter does one thing at a time.
MayStart == native => holder = 0

Needed(task) ==
    LET device == mac.default[task.kind]
    IN  CASE task.do = "select" ->
                LET target == At(Targets[task.kind], task.arg)
                    name == resolve(target, Present(task.kind))
                IN  IF target = None \/ name \in {None, "several"} THEN None ELSE name
          [] task.do = "toggle" /\ task.kind = "Output" ->
                IF native \/ StatusOk THEN read_mute(device) ELSE None
          [] OTHER -> IF native \/ StatusOk THEN read_volume(device) ELSE None

\* A task reads what it needs.  What it cannot read ends it, and so does a command
\* that fails or takes too long.
TaskReads ==
    \E p \in DOMAIN tasks :
        /\ tasks[p].step = "read"
        /\ MayStart
        /\ LET saw == Needed(tasks[p])
               ended == [tasks[p] EXCEPT !.step = "report", !.said = "error"]
           IN  \/ /\ saw # None
                  /\ tasks' = [tasks EXCEPT ![p].step = "write", ![p].saw = saw,
                                            ![p].device = mac.default[tasks[p].kind],
                                            ![p].among = Present(tasks[p].kind)]
                  /\ holder' = IF native /\ tasks[p].do # "select" THEN p ELSE holder
               \/ /\ saw = None \/ ~native
                  /\ tasks' = [tasks EXCEPT ![p] = ended]
                  /\ UNCHANGED holder
    /\ UNCHANGED << native, mac, drawn, reports, remembered, before, turns >>

\* The devices that may be meant by the name of a selection.
Meant(task) == {d \in Present(task.kind) : Sound[d].name = task.saw}

\* The native adapter writes to the device it read, a command to the one that is the
\* default by then.
Device(task) == IF native THEN task.device ELSE mac.default[task.kind]

Restored(task) == IF task.restore < 1 THEN 1 ELSE task.restore

\* The states of the Mac in which the writing of a task may leave it.
Effects(task) ==
    LET d == Device(task)
    IN  IF task.do = "select"
          THEN IF native /\ Cardinality(Meant(task)) # 1
                 THEN {}
                 ELSE {[mac EXCEPT !.default[task.kind] = m] : m \in Meant(task)}
        ELSE IF d = None \/ ~Writable(d) THEN {}
        ELSE CASE task.do = "adjust" -> {write_volume(d, next_volume(task.saw, task.arg))}
               [] task.do = "toggle" /\ task.kind = "Output" -> {write_mute(d, ~task.saw)}
               [] OTHER -> {write_volume(d, IF task.saw = 0 THEN Restored(task) ELSE 0)}

\* Auxiliary: the level that a mute took, as long as nothing else has moved it and no
\* other press of the key was on its way.
Muted(task, ok) ==
    IF Mutes(task) /\ ok /\ task.saw > 0 /\ task.calm /\ ~task.disturbed
      THEN task.saw
      ELSE IF task.kind = "Input" THEN None ELSE before

\* A command that was stopped may have had its effect.
TaskWrites ==
    \E p \in DOMAIN tasks :
        /\ tasks[p].step = "write"
        /\ native /\ tasks[p].do = "select" => MayStart
        /\ \/ /\ mac' \in Effects(tasks[p])
              /\ tasks' = [tasks EXCEPT ![p].step = "report",
                                        ![p].memory = IF Mutes(tasks[p]) /\ tasks[p].saw > 0
                                                        THEN tasks[p].saw ELSE None]
              /\ before' = Muted(tasks[p], TRUE)
           \/ /\ IF native THEN Effects(tasks[p]) = {} /\ UNCHANGED mac
                           ELSE mac' \in Effects(tasks[p]) \cup {mac}
              /\ tasks' = [tasks EXCEPT ![p].step = "report", ![p].said = "error"]
              /\ before' = Muted(tasks[p], FALSE)
        /\ holder' = IF holder = p THEN 0 ELSE holder
    /\ UNCHANGED << native, drawn, reports, remembered, turns >>

TaskReports ==
    \E p \in DOMAIN tasks :
        /\ tasks[p].step = "report"
        /\ tasks' = [tasks EXCEPT ![p].step = "sent"]
        /\ reports' = Append(reports, p)
    /\ UNCHANGED << native, mac, drawn, holder, remembered, before, turns >>

\* `apply_action_outcome`; the refresh it asks for is RefreshAudio.
OutcomeHandled ==
    /\ reports # << >>
    /\ LET p == Head(reports)
       IN  /\ remembered' = IF tasks[p].memory # None THEN tasks[p].memory ELSE remembered
           /\ tasks' = [tasks EXCEPT ![p].step = "over"]
    /\ reports' = Tail(reports)
    /\ UNCHANGED << native, mac, drawn, holder, before, turns >>

RefreshAudio ==
    /\ MayStart
    /\ drawn' = IF StatusOk THEN Ready(Snapshot) ELSE Failing(drawn)
    /\ drawn' # drawn
    /\ UNCHANGED << native, mac, tasks, holder, reports, remembered, before, turns >>

\* Somebody else moves a level, chooses a device, or plugs one in or out.
KnobTurns ==
    /\ turns < MaxTurns
    /\ turns' = turns + 1
    /\ \/ \E d \in mac.present : Sound[d].control # "none" /\ mac' = write_volume(d, 30)
       \/ \E d \in mac.present : mac' = [mac EXCEPT !.default[Sound[d].kind] = d]
       \/ \E d \in DOMAIN Sound \ mac.present : mac' = [mac EXCEPT !.present = @ \cup {d}]
       \/ \E d \in mac.present :
            LET rest == Present(Sound[d].kind) \ {d}
            IN  mac' = [mac EXCEPT !.present = @ \ {d},
                                   !.default[Sound[d].kind] =
                                        IF @ # d THEN @
                                        ELSE IF rest = {} THEN None ELSE CHOOSE r \in rest : TRUE]
    /\ mac' # mac
    /\ before' = None
    /\ tasks' = [p \in DOMAIN tasks |->
                    [tasks[p] EXCEPT !.disturbed = @ \/ tasks[p].step = "write",
                                     !.same = @ /\ tasks[p].step # "read"]]
    /\ UNCHANGED << native, drawn, holder, reports, remembered >>

MixerNext ==
    \/ PressAudio
    \/ TaskReads
    \/ TaskWrites
    \/ TaskReports
    \/ OutcomeHandled
    \/ RefreshAudio
    \/ KnobTurns


-----------------------------------------------------------------------------
(* Properties.                                                              *)

(***************************************************************************)
(* Levels add up.  A volume step of the native adapter moves the level     *)
(* that is there by exactly its amount, within 0..100, whatever other      *)
(* presses run beside it: none is lost.  And a press that unmutes the      *)
(* microphone, with no other press of that key on its way and nothing else *)
(* having touched the level, brings back the level that the mute took.     *)
(* The command adapter loses steps, and a second quick press of the mute   *)
(* key restores an older level: what the mute took is stored when its      *)
(* outcome is handled.  (`adjust_volume_relative`, `toggle_mute_state`,    *)
(* `apply_action_outcome`.)                                                *)
(***************************************************************************)
Written(p) == tasks[p].step = "write" /\ tasks'[p].step = "report" /\ tasks'[p].said = "ok"

LevelsStep ==
    \A p \in DOMAIN tasks : Written(p) =>
        LET task == tasks[p]  d == Device(task)
        IN  /\ native /\ task.do = "adjust" /\ ~task.disturbed =>
                    read_volume(d)' = next_volume(read_volume(d), task.arg)
            /\ Mutes(task) /\ task.calm /\ ~task.disturbed /\ task.saw = 0 /\ before # None =>
                    read_volume(d)' = before

LevelsAddUp == [][LevelsStep]_mixer

(***************************************************************************)
(* A selection that succeeded chose a device by the name that its target   *)
(* gives, or by the only name that its pattern fits; and if the devices    *)
(* were those that the key was drawn from, the key had offered it.         *)
(* (`select_target`, `AudioTarget::resolve`, `audio_device` of the views.) *)
(***************************************************************************)
SelectionsAreMeant ==
    \A p \in DOMAIN tasks :
        LET task == tasks[p]
            target == At(Targets[task.kind], task.arg)
        IN  task.do = "select" /\ task.step \in {"report", "sent", "over"} /\ task.said = "ok" =>
                /\ \/ task.saw = target.exact
                   \/ \A n \in NamesOf(task.among) : n \in target.pattern <=> n = task.saw
                /\ task.same => task.tile \in {"Ok", "Selected"}

=============================================================================
