--------------------------- MODULE DeckDeviceProofs ---------------------------
(***************************************************************************)
(* Proofs about rendering and the handles of the deck: what the caches     *)
(* record is on the glass, and the runtime and the supervisor come to hold *)
(* the same handle, for any number of keys, looks, openings and events.    *)
(***************************************************************************)
EXTENDS DeckDevice, SequenceTheorems, TLAPS

Events == Handles \cup {None}

\* Nothing was ever written to the handle since it was opened.
Unused(h) == \A k \in Keys : buffer[h][k] = None

\* The supervisor holds the newest handle, or none; the runtime one that was
\* opened, and a batch goes to the handle the runtime holds.
HandleInv ==
    /\ working \subseteq 1..opened
    /\ reader \in {opened, None}
    /\ closing \in {opened, None}
    /\ closing # None => reader = None
    /\ device # None => device \in 1..opened
    /\ batch # None => batch.handle = device

\* The handles that wait in q for a runtime that holds d: they are newer than d,
\* come in the order they were opened, the newest among them, and unused.
Waiting(q, d) ==
    /\ \A i \in 1..Len(q) : q[i] # None =>
          /\ q[i] \in 1..opened
          /\ Unused(q[i])
          /\ d # None => d < q[i]
    /\ \A i, j \in 1..Len(q) : i < j /\ q[i] # None /\ q[j] # None => q[i] < q[j]
    /\ (\E i \in 1..Len(q) : q[i] # None) => \E i \in 1..Len(q) : q[i] = opened

QueueInv ==
    /\ Waiting(queue, device)
    /\ \A h \in Handles : h > opened => Unused(h)
    /\ device # None /\ device # opened => Unused(opened)

\* What the runtime will hold once it has taken its events.
Target(q, d) == IF q = << >> THEN d ELSE q[Len(q)]

TargetInv ==
    /\ Target(queue, device) \in {reader, None}
    /\ reader \in working /\ Target(queue, device) # reader => replaced

\* A recorded frame is in the buffer of the handle, or on the glass already;
\* between two batches it is on the glass in any case.
FramesInv ==
    Attached =>
        \A k \in Keys : frames[k] # None =>
            /\ buffer[device][k] \in {frames[k], None}
            /\ buffer[device][k] = None \/ batch = None => glass[k] = frames[k]

\* A recorded view is the recorded frame, or is going to be.
ViewsInv ==
    Attached /\ ~locked =>
        \A k \in Keys : views[k] # None =>
            \/ frames[k] = views[k]
            \/ batch # None /\ k \in batch.left /\ batch.frame[k] = views[k]

\* Frames are recorded as views record them.
BatchInv ==
    batch # None /\ ~locked =>
        \A k \in batch.left : batch.frame[k] = views[k] /\ views[k] # None

DeviceInv ==
    /\ DeviceTypeOK
    /\ HandleInv
    /\ QueueInv
    /\ TargetInv
    /\ FramesInv
    /\ ViewsInv
    /\ BatchInv

-----------------------------------------------------------------------------
(* The queue of events.                                                    *)

LEMMA Sizes ==
    /\ MaxOpens \in Nat \ {0} /\ MaxQueue \in Nat \ {0} /\ MaxFaults \in Nat
    /\ None \notin Nat /\ None \notin Looks /\ None \notin Handles /\ Handles \subseteq Nat
    /\ None \notin Frames /\ Saver \in Frames /\ Looks \subseteq Frames /\ Saver \notin Looks
BY DeckAssumption, DeviceAssumption DEF Handles, Frames

LEMMA Appended ==
    ASSUME NEW q \in Seq(Events), NEW e \in Events
    PROVE  /\ Append(q, e) \in Seq(Events) /\ Append(q, e) # << >>
           /\ Len(q) \in Nat /\ Len(Append(q, e)) = Len(q) + 1
           /\ \A i \in 1..Len(q) : Append(q, e)[i] = q[i]
           /\ Append(q, e)[Len(q) + 1] = e
BY AppendProperties, LenProperties

LEMMA Taken ==
    ASSUME NEW q \in Seq(Events), q # << >>
    PROVE  /\ Tail(q) \in Seq(Events) /\ Head(q) = q[1] /\ q[1] \in Events
           /\ Len(q) \in Nat \ {0} /\ Len(Tail(q)) = Len(q) - 1
           /\ \A i \in 1..Len(q) : q[i] \in Events
           /\ \A i \in 1..Len(Tail(q)) : Tail(q)[i] = q[i + 1]
           /\ Tail(q) = << >> <=> Len(q) = 1
<1>1. Len(q) \in Nat \ {0}
    BY EmptySeq, LenProperties
<1>2. /\ Tail(q) \in Seq(Events) /\ Head(q) = q[1] /\ Len(Tail(q)) = Len(q) - 1
      /\ \A i \in 1..Len(Tail(q)) : Tail(q)[i] = q[i + 1]
    BY <1>1, HeadTailProperties
<1>3. \A i \in 1..Len(q) : q[i] \in Events
    BY ElementOfSeq
<1>4. Tail(q) = << >> <=> Len(Tail(q)) = 0
    BY <1>2, EmptySeq
<1> QED BY <1>1, <1>2, <1>3, <1>4

\* That a handle is gone changes nothing about those that wait.
LEMMA WaitingForGone ==
    ASSUME NEW q \in Seq(Events), NEW d, Waiting(q, d)
    PROVE  Waiting(Append(q, None), d) /\ Target(Append(q, None), d) = None
<1>1. /\ Len(Append(q, None)) = Len(q) + 1 /\ Append(q, None)[Len(q) + 1] = None
      /\ \A i \in 1..Len(q) : Append(q, None)[i] = q[i]
      /\ Len(q) \in Nat /\ Append(q, None) # << >>
    BY Appended DEF Events
<1> DEFINE r == Append(q, None)
<1> HIDE DEF r
<1>2. \A i \in 1..Len(r) : r[i] # None => i \in 1..Len(q) /\ r[i] = q[i]
    BY <1>1 DEF r
<1>3. \A i \in 1..Len(q) : i \in 1..Len(r) /\ r[i] = q[i]
    BY <1>1 DEF r
<1>4. Waiting(r, d)
    BY <1>2, <1>3 DEF Waiting
<1>5. Target(r, d) = None
    BY <1>1 DEF Target, r
<1> QED BY <1>4, <1>5 DEF r

\* The next handle is opened.
LEMMA WaitingForNew ==
    ASSUME NEW q \in Seq(Events), NEW d, Waiting(q, d), DeviceTypeOK, opened < MaxOpens,
           d # None => d \in 1..opened, Unused(opened + 1)
    PROVE  LET r == Append(q, opened + 1) IN
           /\ \A i \in 1..Len(r) : r[i] # None =>
                 r[i] \in 1..opened + 1 /\ Unused(r[i]) /\ (d # None => d < r[i])
           /\ \A i, j \in 1..Len(r) : i < j /\ r[i] # None /\ r[j] # None => r[i] < r[j]
           /\ \E i \in 1..Len(r) : r[i] = opened + 1
           /\ Target(r, d) = opened + 1
<1>1. opened \in Nat /\ opened + 1 \in Events
    BY Sizes DEF DeviceTypeOK, Events, Handles
<1> DEFINE r == Append(q, opened + 1)
<1>2. /\ Len(r) = Len(q) + 1 /\ r[Len(q) + 1] = opened + 1
      /\ \A i \in 1..Len(q) : r[i] = q[i]
      /\ Len(q) \in Nat /\ r # << >>
    BY <1>1, Appended
<1> HIDE DEF r
<1>3. \A i \in 1..Len(r) : i \in 1..Len(q) \/ i = Len(q) + 1
    BY <1>2
<1>4. \A i \in 1..Len(q) : q[i] # None => q[i] \in 1..opened /\ Unused(q[i]) /\ (d # None => d < q[i])
    BY DEF Waiting
<1>5. ASSUME NEW i \in 1..Len(r), r[i] # None
      PROVE  r[i] \in 1..opened + 1 /\ Unused(r[i]) /\ (d # None => d < r[i])
    <2>1. CASE i \in 1..Len(q)
        BY <1>1, <1>2, <1>4, <1>5, <2>1
    <2>2. CASE i = Len(q) + 1
        BY <1>1, <1>2, <2>2
    <2> QED BY <1>3, <2>1, <2>2
<1>6. ASSUME NEW i \in 1..Len(r), NEW j \in 1..Len(r), i < j, r[i] # None, r[j] # None
      PROVE  r[i] < r[j]
    <2>1. i \in 1..Len(q)
        BY <1>2, <1>6
    <2>2. CASE j \in 1..Len(q)
        BY <1>2, <1>6, <2>1, <2>2 DEF Waiting
    <2>3. CASE j = Len(q) + 1
        BY <1>1, <1>2, <1>4, <1>6, <2>1, <2>3
    <2> QED BY <1>3, <2>2, <2>3
<1>7. Target(r, d) = opened + 1
    BY <1>2 DEF Target
<1>8. \E i \in 1..Len(r) : r[i] = opened + 1
    BY <1>2
<1> QED BY <1>5, <1>6, <1>7, <1>8 DEF r

\* The runtime takes an event and holds what it says.
LEMMA WaitingTaken ==
    ASSUME NEW q \in Seq(Events), NEW d, q # << >>, Waiting(q, d), DeviceTypeOK
    PROVE  /\ Waiting(Tail(q), Head(q))
           /\ Target(Tail(q), Head(q)) = Target(q, d)
           /\ Head(q) # None => /\ Head(q) \in 1..opened
                                /\ Head(q) # opened => Unused(opened)
<1> DEFINE r == Tail(q)
<1>1. /\ Len(q) \in Nat \ {0} /\ Len(r) = Len(q) - 1 /\ Head(q) = q[1]
      /\ \A i \in 1..Len(r) : r[i] = q[i + 1] /\ i + 1 \in 1..Len(q) /\ 1 < i + 1
      /\ 1 \in 1..Len(q)
      /\ r = << >> <=> Len(q) = 1
    BY Taken
<1> HIDE DEF r
<1>2. /\ \A i \in 1..Len(q) : q[i] # None => q[i] \in 1..opened /\ Unused(q[i])
      /\ \A i, j \in 1..Len(q) : i < j /\ q[i] # None /\ q[j] # None => q[i] < q[j]
      /\ (\E i \in 1..Len(q) : q[i] # None) => \E i \in 1..Len(q) : q[i] = opened
    BY DEF Waiting
<1>3. \A i \in 1..Len(r) : r[i] # None =>
          r[i] \in 1..opened /\ Unused(r[i]) /\ (q[1] # None => q[1] < r[i])
    BY <1>1, <1>2
<1>4. \A i, j \in 1..Len(r) : i < j /\ r[i] # None /\ r[j] # None => r[i] < r[j]
    <2> SUFFICES ASSUME NEW i \in 1..Len(r), NEW j \in 1..Len(r), i < j, r[i] # None, r[j] # None
                 PROVE  r[i] < r[j]
        OBVIOUS
    <2>1. i + 1 \in 1..Len(q) /\ j + 1 \in 1..Len(q) /\ i + 1 < j + 1
        BY <1>1
    <2> QED BY <1>1, <1>2, <2>1
<1>5. ASSUME NEW i \in 1..Len(q), q[i] = opened, i # 1
      PROVE  i - 1 \in 1..Len(r) /\ r[i - 1] = opened
    BY <1>1, <1>5
<1>6. (\E i \in 1..Len(r) : r[i] # None) => \E i \in 1..Len(r) : r[i] = opened
    <2> SUFFICES ASSUME NEW i \in 1..Len(r), r[i] # None
                 PROVE  \E j \in 1..Len(r) : r[j] = opened
        OBVIOUS
    <2>1. i + 1 \in 1..Len(q) /\ q[i + 1] # None /\ q[i + 1] \in 1..opened
        BY <1>1, <1>2
    <2>2. PICK j \in 1..Len(q) : q[j] = opened
        BY <1>2, <2>1
    <2>3. j # 1
        <3>1. q[1] # None => q[1] < q[i + 1]
            BY <1>1, <1>2, <2>1
        <3>2. opened \in Nat /\ opened # None
            BY Sizes DEF DeviceTypeOK
        <3> QED BY <2>1, <2>2, <3>1, <3>2
    <2> QED BY <1>5, <2>2, <2>3
<1>7. Target(r, Head(q)) = Target(q, d)
    BY <1>1 DEF Target
<1>8. ASSUME q[1] # None, q[1] # opened
      PROVE  Unused(opened)
    <2>1. PICK j \in 1..Len(q) : q[j] = opened
        BY <1>1, <1>2, <1>8
    <2>2. opened # None
        BY Sizes DEF DeviceTypeOK
    <2> QED BY <1>2, <2>1, <2>2
<1>9. Waiting(r, q[1])
    BY <1>3, <1>4, <1>6 DEF Waiting
<1> QED BY <1>1, <1>2, <1>7, <1>8, <1>9 DEF r

-----------------------------------------------------------------------------
(* The handles.                                                            *)

LEMMA DeviceInvInit == DeviceInit => DeviceInv
<1> SUFFICES ASSUME DeviceInit PROVE DeviceInv
    OBVIOUS
<1> USE DEF DeviceInit
<1>1. /\ opened \in 0..1 /\ opened \in 0..MaxOpens /\ working = 1..opened /\ working \subseteq Handles
      /\ 1 \in Handles
    BY Sizes DEF Handles
<1>2. \A k \in Keys : \A h \in Handles : buffer[h][k] = None
    BY DEF Blank
<1>3. /\ glass \in MaybeFrames /\ frames \in MaybeFrames /\ buffer \in [Handles -> MaybeFrames]
      /\ views \in [Keys -> Looks \cup {None}]
      /\ \A k \in Keys : glass[k] = None /\ frames[k] = None /\ views[k] = None
    BY DEF MaybeFrames, Blank
<1>4. /\ queue \in Seq(Handles \cup {None})
      /\ \/ queue = << 1 >> /\ Len(queue) = 1 /\ queue[1] = 1 /\ opened = 1 /\ reader = 1
         \/ queue = << >> /\ Len(queue) = 0 /\ opened = 0 /\ reader = None
    <2>1. CASE plugged
        BY <1>1, <2>1
    <2>2. CASE ~plugged
        BY <2>2
    <2> QED BY <2>1, <2>2
<1>5. DeviceTypeOK
    <2>1. /\ plugged \in BOOLEAN /\ working \subseteq Handles /\ opened \in 0..MaxOpens
          /\ reader \in Handles \cup {None} /\ closing \in Handles \cup {None}
          /\ device \in Handles \cup {None}
        BY <1>1, <1>4
    <2>2. view \in [Keys -> Looks] /\ locked \in BOOLEAN /\ saverDue \in BOOLEAN /\ replaced \in BOOLEAN
        OBVIOUS
    <2>3. batch \in Batches \cup {None} /\ faults \in 0..MaxFaults
        BY Sizes
    <2> QED BY <1>3, <1>4, <2>1, <2>2, <2>3 DEF DeviceTypeOK
<1>6. HandleInv
    BY <1>1, <1>4 DEF HandleInv
<1>7. QueueInv
    <2>1. Waiting(queue, device)
        BY <1>1, <1>2, <1>4 DEF Waiting, Unused
    <2> QED BY <1>2, <2>1 DEF QueueInv, Unused
<1>8. TargetInv
    BY <1>4 DEF TargetInv, Target
<1>9. FramesInv /\ ViewsInv /\ BatchInv
    BY <1>3 DEF FramesInv, ViewsInv, BatchInv
<1> QED BY <1>5, <1>6, <1>7, <1>8, <1>9 DEF DeviceInv

\* Only the handle the runtime holds is written to.
LEMMA UnusedStep ==
    DeviceInv /\ [DeviceNext]_vars =>
        \A h \in Handles : Unused(h) /\ h # device => Unused(h)'
<1> SUFFICES ASSUME DeviceInv, [DeviceNext]_vars, NEW h \in Handles, Unused(h), h # device
             PROVE  Unused(h)'
    OBVIOUS
<1>0. buffer \in [Handles -> MaybeFrames] /\ (batch # None => batch.handle = device)
    BY DEF DeviceInv, DeviceTypeOK, HandleInv
<1>1. CASE UNCHANGED buffer
    BY <1>1 DEF Unused
<1>2. CASE Unplug
    BY <1>2 DEF Unplug, Unused, Blank
<1>3. ASSUME NEW g, Flushed(g) PROVE Unused(h)'
    BY <1>0, <1>3 DEF Flushed, Unused, Blank
<1>4. CASE WriteKey
    <2>1. \/ buffer' = buffer
          \/ \E k \in batch.left : buffer' = [buffer EXCEPT ![batch.handle][k] = batch.frame[k]]
        BY <1>4 DEF WriteKey
    <2>2. batch.handle # h
        BY <1>0, <1>4 DEF WriteKey
    <2> QED BY <1>0, <2>1, <2>2 DEF Unused
<1> QED
    BY <1>1, <1>2, <1>3, <1>4
    DEF DeviceNext, Plug, ReadFails, Close, Reopen, WriteFails, FlushKeys, FlushFails,
        FlushedUpTo, DeviceGone, TakeDisconnected, TakeReconnected, Repaint, ChangeUnseen,
        Feedback, Reload, Brighten, Lock, Unlock, SaverFrame, Wake, deck, vars

\* What a step does to what the runtime and the supervisor hold, and to the
\* events between them.
QueueKept == UNCHANGED << opened, reader, queue, device, replaced >> /\ working' \subseteq working

Told ==
    /\ UNCHANGED << opened, reader, buffer, device, working >>
    /\ queue' = Append(queue, None)
    /\ \E h : h \notin working /\ replaced' = (replaced \/ reader \notin {h, None})

LEMMA BrightnessStep ==
    ASSUME NEW h, NEW q, SetBrightness(h, q)
    PROVE  \/ queue' = q /\ replaced' = replaced
           \/ /\ queue' = Append(q, None) /\ h \notin working
              /\ replaced' = (replaced \/ reader \notin {h, None})
BY DEF SetBrightness

LEMMA KeptStep ==
    ASSUME DeviceInv, DeviceNext, QueueKept
    PROVE  QueueInv' /\ TargetInv'
<1>1. \A h \in Handles : Unused(h) /\ h # device => Unused(h)'
    BY UnusedStep
<1>2. /\ Waiting(queue, device) /\ opened \in 0..MaxOpens
      /\ \A h \in Handles : h > opened => Unused(h)
      /\ device # None /\ device # opened => Unused(opened)
      /\ device # None => device \in 1..opened
      /\ MaxOpens \in Nat /\ Handles = 1..MaxOpens
    BY Sizes DEF DeviceInv, QueueInv, DeviceTypeOK, HandleInv, Handles
<1>3. UNCHANGED << opened, reader, queue, device, replaced >> /\ working' \subseteq working
    BY DEF QueueKept
<1>4. \A i \in 1..Len(queue) : queue[i] # None => Unused(queue[i])'
    <2> SUFFICES ASSUME NEW i \in 1..Len(queue), queue[i] # None
                 PROVE  Unused(queue[i])'
        OBVIOUS
    <2>1. PICK h \in Handles : h = queue[i]
        BY <1>2 DEF Waiting
    <2>2. Unused(h) /\ (device # None => device < h)
        BY <1>2, <2>1 DEF Waiting
    <2>3. h # device
        BY <1>2, <2>2, Sizes
    <2>4. Unused(h)'
        BY <1>1, <2>2, <2>3
    <2> QED BY <1>3, <2>1, <2>4 DEF Unused
<1>5. Waiting(queue, device)'
    BY <1>2, <1>3, <1>4 DEF Waiting
<1>6. \A h \in Handles : h > opened => Unused(h)'
    <2> SUFFICES ASSUME NEW h \in Handles, h > opened PROVE Unused(h)'
        OBVIOUS
    <2>1. h # device
        BY <1>2, Sizes
    <2> QED BY <1>1, <1>2, <2>1
<1>7. device # None /\ device # opened => Unused(opened)'
    <2> SUFFICES ASSUME device # None, device # opened PROVE Unused(opened)'
        OBVIOUS
    <2>1. PICK h \in Handles : h = opened
        BY <1>2
    <2>2. Unused(h)'
        BY <1>1, <1>2, <2>1
    <2> QED BY <1>3, <2>1, <2>2 DEF Unused
<1>8. QueueInv'
    BY <1>3, <1>5, <1>6, <1>7 DEF QueueInv, Unused
<1>9. TargetInv'
    BY <1>3 DEF DeviceInv, TargetInv, Target
<1> QED BY <1>8, <1>9

LEMMA ToldStep ==
    ASSUME DeviceInv, Told
    PROVE  QueueInv' /\ TargetInv'
<1>1. queue \in Seq(Events) /\ None \in Events
    BY DEF DeviceInv, DeviceTypeOK, Events
<1>2. Waiting(queue', device) /\ Target(queue', device) = None
    BY <1>1, WaitingForGone DEF DeviceInv, QueueInv, Told
<1>3. Waiting(queue, device)' /\ Target(queue', device') = None
    BY <1>2 DEF Told, Waiting, Unused
<1>4. QueueInv'
    BY <1>3 DEF DeviceInv, QueueInv, Told, Waiting, Unused
<1>5. reader' \in working' => replaced'
    <2>1. None \notin working
        BY Sizes DEF DeviceInv, DeviceTypeOK
    <2> QED BY <2>1 DEF Told
<1>6. TargetInv'
    BY <1>3, <1>5 DEF TargetInv, Target
<1> QED BY <1>4, <1>6

LEMMA ReadFailsStep ==
    ASSUME DeviceInv, ReadFails
    PROVE  QueueInv' /\ TargetInv'
<1>1. /\ queue \in Seq(Events) /\ queue' = Append(queue, None) /\ reader' = None
      /\ UNCHANGED << buffer, device, opened, working >>
    BY DEF DeviceInv, DeviceTypeOK, Events, ReadFails, Tell, deck, runtimeVars
<1>2. Waiting(queue', device) /\ Target(queue', device) = None
    BY <1>1, WaitingForGone DEF DeviceInv, QueueInv
<1>3. Waiting(queue, device)' /\ Target(queue', device') = None
    BY <1>1, <1>2 DEF Waiting, Unused
<1>4. QueueInv'
    BY <1>1, <1>3 DEF DeviceInv, QueueInv, Waiting, Unused
<1>5. TargetInv'
    BY <1>1, <1>3 DEF TargetInv, Target
<1> QED BY <1>4, <1>5

LEMMA ReopenStep ==
    ASSUME DeviceInv, Reopen
    PROVE  QueueInv' /\ TargetInv'
<1>1. /\ queue \in Seq(Events) /\ queue' = Append(queue, opened + 1)
      /\ reader' = opened + 1 /\ opened' = opened + 1 /\ opened < MaxOpens
      /\ UNCHANGED << buffer, device >>
      /\ DeviceTypeOK /\ Waiting(queue, device) /\ opened \in Nat
      /\ device # None => device \in 1..opened
    BY Sizes DEF DeviceInv, QueueInv, HandleInv, DeviceTypeOK, Events, Reopen, Tell, runtimeVars
<1>2. opened + 1 \in Handles /\ Unused(opened + 1)
    BY <1>1, Sizes DEF DeviceInv, QueueInv, Handles
<1>3. /\ \A i \in 1..Len(queue') : queue'[i] # None =>
            queue'[i] \in 1..opened' /\ Unused(queue'[i]) /\ (device # None => device < queue'[i])
      /\ \A i, j \in 1..Len(queue') :
            i < j /\ queue'[i] # None /\ queue'[j] # None => queue'[i] < queue'[j]
      /\ \E i \in 1..Len(queue') : queue'[i] = opened'
      /\ Target(queue', device) = opened'
    BY <1>1, <1>2, WaitingForNew
<1>4. Waiting(queue, device)'
    BY <1>1, <1>3 DEF Waiting, Unused
<1>5. QueueInv'
    <2>1. \A h \in Handles : h > opened' => Unused(h)'
        BY <1>1, Sizes DEF DeviceInv, QueueInv, Unused
    <2>2. Unused(opened)'
        BY <1>1, <1>2 DEF Unused
    <2> QED BY <1>4, <2>1, <2>2 DEF QueueInv
<1>6. TargetInv'
    BY <1>1, <1>3 DEF TargetInv, Target
<1> QED BY <1>5, <1>6

LEMMA TakeStep ==
    ASSUME DeviceInv, TakeDisconnected \/ TakeReconnected
    PROVE  QueueInv' /\ TargetInv' /\ (device' # None => device' \in 1..opened')
<1>1. /\ queue \in Seq(Events) /\ queue # << >> /\ device' = Head(queue)
      /\ UNCHANGED << buffer, opened, reader, working >>
      /\ DeviceTypeOK /\ Waiting(queue, device)
    BY DEF DeviceInv, QueueInv, DeviceTypeOK, Events, TakeDisconnected, TakeReconnected, deck,
           supervisor
<1>2. /\ Waiting(Tail(queue), device')
      /\ Target(Tail(queue), device') = Target(queue, device)
      /\ Tail(queue) \in Seq(Events)
      /\ device' # None => device' \in 1..opened /\ (device' # opened => Unused(opened))
    BY <1>1, WaitingTaken, Taken
<1>3. \/ queue' = Tail(queue) /\ replaced' = replaced
      \/ /\ queue' = Append(Tail(queue), None) /\ device' \notin working
         /\ replaced' = (replaced \/ reader \notin {device', None})
    BY BrightnessStep DEF TakeDisconnected, TakeReconnected
<1>4. Waiting(queue', device')
    BY <1>2, <1>3, WaitingForGone
<1>5. QueueInv'
    <2>1. Waiting(queue, device)'
        BY <1>1, <1>4 DEF Waiting, Unused
    <2>2. \A h \in Handles : h > opened' => Unused(h)'
        BY <1>1 DEF DeviceInv, QueueInv, Unused
    <2>3. device' # None /\ device' # opened' => Unused(opened)'
        BY <1>1, <1>2 DEF Unused
    <2> QED BY <2>1, <2>2, <2>3 DEF QueueInv
<1>6. TargetInv'
    <2>1. CASE queue' = Tail(queue) /\ replaced' = replaced
        BY <1>1, <1>2, <2>1 DEF DeviceInv, TargetInv, Target
    <2>2. CASE /\ queue' = Append(Tail(queue), None) /\ device' \notin working
               /\ replaced' = (replaced \/ reader \notin {device', None})
        <3>1. Target(queue', device') = None
            BY <1>2, <2>2, WaitingForGone
        <3>2. None \notin working
            BY <1>1, Sizes DEF DeviceTypeOK
        <3> QED BY <1>1, <2>2, <3>1, <3>2 DEF TargetInv, Target
    <2> QED BY <1>3, <2>1, <2>2
<1> QED BY <1>1, <1>2, <1>5, <1>6

LEMMA QueueStep == DeviceInv /\ [DeviceNext]_vars => QueueInv' /\ TargetInv'
<1> SUFFICES ASSUME DeviceInv, [DeviceNext]_vars PROVE QueueInv' /\ TargetInv'
    OBVIOUS
<1>1. CASE ReadFails \/ Reopen \/ TakeDisconnected \/ TakeReconnected
    BY <1>1, ReadFailsStep, ReopenStep, TakeStep
<1>2. CASE DeviceGone
    BY <1>2, ToldStep DEF DeviceGone, Report, Tell, Told, deck, supervisor
<1>3. CASE Reload \/ Brighten
    <2>1. SetBrightness(device, queue) /\ UNCHANGED << opened, reader, buffer, device, working >>
        BY <1>3 DEF Reload, Brighten, supervisor
    <2>2. CASE queue' = queue /\ replaced' = replaced
        BY <1>3, <2>1, <2>2, KeptStep DEF QueueKept, DeviceNext
    <2>3. CASE /\ queue' = Append(queue, None) /\ device \notin working
               /\ replaced' = (replaced \/ reader \notin {device, None})
        BY <2>1, <2>3, ToldStep DEF Told
    <2> QED BY <2>1, <2>2, <2>3, BrightnessStep
<1>4. CASE UNCHANGED vars
    BY <1>4 DEF vars, deck, supervisor, DeviceInv, QueueInv, TargetInv, Target, Waiting, Unused
<1>5. ASSUME DeviceNext, ~ReadFails, ~Reopen, ~TakeDisconnected, ~TakeReconnected,
             ~DeviceGone, ~Reload, ~Brighten
      PROVE  QueueInv' /\ TargetInv'
    <2>1. QueueKept
        BY <1>5
        DEF QueueKept, DeviceNext, Unplug, Plug, Close, WriteKey, WriteFails, FlushKeys,
            FlushFails, Repaint, ChangeUnseen, Feedback, Lock, Unlock, SaverFrame, Wake, deck,
            supervisor, runtimeVars
    <2> QED BY <1>5, <2>1, KeptStep
<1> QED BY <1>1, <1>2, <1>3, <1>4, <1>5

-----------------------------------------------------------------------------
(* Rendering.                                                              *)

RecordsType ==
    /\ views \in [Keys -> Looks \cup {None}]
    /\ frames \in MaybeFrames
    /\ batch \in Batches \cup {None}
    /\ batch # None => batch.handle = device

RecordsInv == RecordsType /\ FramesInv /\ ViewsInv /\ BatchInv

\* The frames that are sent are the ones that differ from those recorded.
LEMMA SendStep ==
    ASSUME NEW keys \in SUBSET Keys, NEW frame \in [Keys -> Frames], NEW framesNow,
           NEW h \in Handles \cup {None}, Send(keys, frame, framesNow, h)
    PROVE  /\ batch' \in Batches \cup {None}
           /\ batch' # None => /\ batch'.handle = h /\ batch'.frame = frame
                               /\ batch'.left =
                                     {k \in keys : frame[k] = Saver \/ framesNow[k] # frame[k]}
           /\ batch' = None =>
                 h = None \/ \A k \in keys : frame[k] # Saver /\ framesNow[k] = frame[k]
<1> DEFINE changed == {k \in keys : frame[k] = Saver \/ framesNow[k] # frame[k]}
           b == [handle |-> h, left |-> changed, frame |-> frame]
<1>1. batch' = IF h = None \/ changed = {} THEN None ELSE b
    BY DEF Send
<1>2. CASE h = None \/ changed = {}
    BY <1>1, <1>2
<1>3. CASE ~(h = None \/ changed = {})
    <2>1. batch' = b /\ b \in Batches
        BY <1>1, <1>3 DEF Batches
    <2>2. b # None
        BY <2>1, BatchAssumption
    <2> QED BY <2>1, <2>2
<1> QED BY <1>2, <1>3

\* Nothing is recorded between the two halves of a batch that is not rendered.
Remembered(viewsNow, framesNow) ==
    \/ viewsNow = views /\ framesNow = frames /\ device' = device /\ ~locked
    \/ viewsNow = Blank /\ framesNow = Blank

LEMMA RenderStep ==
    ASSUME DeviceInv, Idle, NEW keys \in SUBSET Keys, NEW viewsNow, NEW framesNow,
           Render(keys, viewsNow, framesNow, device'), Remembered(viewsNow, framesNow),
           device' \in Handles \cup {None}, view' \in [Keys -> Looks],
           UNCHANGED << glass, buffer, working >>
    PROVE  RecordsInv'
<1> DEFINE changed == {k \in keys : viewsNow[k] # view'[k]}
<1>1. /\ views' = [k \in Keys |-> IF k \in changed THEN view'[k] ELSE viewsNow[k]]
      /\ frames' = framesNow
      /\ Send(changed, view', framesNow, device')
    BY DEF Render
<1>2. /\ viewsNow \in [Keys -> Looks \cup {None}] /\ framesNow \in MaybeFrames
      /\ views \in [Keys -> Looks \cup {None}] /\ frames \in MaybeFrames
    BY DEF Remembered, DeviceInv, DeviceTypeOK, Blank, MaybeFrames
<1>3. /\ view' \in [Keys -> Frames] /\ changed \in SUBSET Keys
      /\ \A k \in Keys : view'[k] # Saver /\ view'[k] # None
    BY Sizes DEF Frames
<1>4. /\ batch' \in Batches \cup {None}
      /\ batch' # None => /\ batch'.handle = device' /\ batch'.frame = view'
                          /\ batch'.left =
                                {k \in changed : view'[k] = Saver \/ framesNow[k] # view'[k]}
      /\ batch' = None =>
            device' = None \/ \A k \in changed : view'[k] # Saver /\ framesNow[k] = view'[k]
    <2> HIDE DEF changed
    <2> QED BY <1>1, <1>3, SendStep
<1>5. RecordsType'
    BY <1>1, <1>2, <1>4 DEF RecordsType
<1>6. FramesInv'
    <2>1. CASE framesNow = Blank
        BY <1>1, <2>1 DEF FramesInv, Blank
    <2>2. CASE framesNow = frames /\ device' = device
        BY <1>1, <2>2 DEF DeviceInv, FramesInv, Attached, Idle
    <2> QED BY <2>1, <2>2 DEF Remembered
<1>7. ASSUME NEW k \in Keys, views'[k] # None, device' # None
      PROVE  \/ frames'[k] = views'[k]
             \/ batch' # None /\ k \in batch'.left /\ batch'.frame[k] = views'[k]
             \/ ~Attached'
    <2>1. CASE k \in changed
        <3>1. views'[k] = view'[k]
            BY <1>1, <2>1
        <3>2. CASE framesNow[k] = view'[k]
            BY <1>1, <3>1, <3>2
        <3>3. CASE framesNow[k] # view'[k]
            <4>1. batch' # None
                BY <1>4, <1>7, <2>1, <3>3
            <4>2. k \in batch'.left /\ batch'.frame[k] = view'[k]
                BY <1>4, <2>1, <3>3, <4>1
            <4> QED BY <3>1, <4>1, <4>2
        <3> QED BY <3>2, <3>3
    <2>2. CASE k \notin changed /\ viewsNow = Blank
        BY <1>1, <1>7, <2>2 DEF Blank
    <2>3. CASE k \notin changed /\ viewsNow = views /\ framesNow = frames
                  /\ device' = device /\ ~locked
        <3>1. views'[k] = views[k] /\ frames' = frames
            BY <1>1, <2>3
        <3>2. Attached' <=> Attached
            BY <2>3 DEF Attached
        <3>3. Attached => frames[k] = views[k]
            BY <1>7, <2>3, <3>1 DEF DeviceInv, ViewsInv, Idle
        <3>4. CASE Attached
            BY <3>1, <3>3, <3>4
        <3>5. CASE ~Attached
            BY <2>3, <3>2, <3>5
        <3> QED BY <3>4, <3>5
    <2> QED BY <2>1, <2>2, <2>3 DEF Remembered
<1>8. ViewsInv'
    BY <1>7 DEF ViewsInv, Attached
<1>9. BatchInv'
    BY <1>1, <1>3, <1>4 DEF BatchInv
<1> QED BY <1>5, <1>6, <1>8, <1>9 DEF RecordsInv

LEMMA SaverStep ==
    ASSUME DeviceInv, Idle, NEW viewsNow, NEW framesNow,
           RenderSaver(viewsNow, framesNow, device'),
           \/ viewsNow = views /\ framesNow = frames /\ device' = device
           \/ viewsNow = Blank /\ framesNow = Blank,
           device' \in Handles \cup {None}, locked',
           UNCHANGED << glass, buffer, working >>
    PROVE  RecordsInv'
<1>1. /\ views' = viewsNow /\ frames' = framesNow
      /\ Send(Keys, [k \in Keys |-> Saver], framesNow, device')
    BY DEF RenderSaver
<1>2. /\ views' \in [Keys -> Looks \cup {None}] /\ frames' \in MaybeFrames
    BY <1>1 DEF DeviceInv, DeviceTypeOK, Blank, MaybeFrames
<1>3. [k \in Keys |-> Saver] \in [Keys -> Frames]
    BY Sizes
<1>4. /\ batch' \in Batches \cup {None}
      /\ batch' # None => batch'.handle = device'
    BY <1>1, <1>3, SendStep
<1>5. FramesInv'
    <2>1. CASE framesNow = Blank
        BY <1>1, <2>1 DEF FramesInv, Blank
    <2>2. CASE framesNow = frames /\ device' = device
        BY <1>1, <2>2 DEF DeviceInv, FramesInv, Attached, Idle
    <2> QED BY <2>1, <2>2
<1> QED BY <1>2, <1>4, <1>5 DEF RecordsInv, RecordsType, ViewsInv, BatchInv

-----------------------------------------------------------------------------
(* Writing, and what happens meanwhile.                                    *)

LEMMA RecordsNow ==
    ASSUME DeviceInv
    PROVE  /\ RecordsInv
           /\ glass \in MaybeFrames /\ buffer \in [Handles -> MaybeFrames]
           /\ device \in Handles \cup {None} /\ working \subseteq Handles
           /\ view \in [Keys -> Looks]
BY DEF DeviceInv, DeviceTypeOK, HandleInv, RecordsInv, RecordsType

\* Nothing that rendering depends on changes.
LEMMA RecordsKept ==
    ASSUME RecordsInv, UNCHANGED << glass, working, buffer, device, caches, locked, batch >>
    PROVE  RecordsInv'
<1>1. UNCHANGED << views, frames >>
    BY DEF caches
<1>2. RecordsType'
    BY <1>1 DEF RecordsInv, RecordsType
<1>3. Attached' <=> Attached
    BY DEF Attached
<1>4. FramesInv'
    BY <1>1, <1>3 DEF RecordsInv, FramesInv
<1>5. ViewsInv'
    BY <1>1, <1>3 DEF RecordsInv, ViewsInv
<1>6. BatchInv'
    BY <1>1 DEF RecordsInv, BatchInv
<1> QED BY <1>2, <1>4, <1>5, <1>6 DEF RecordsInv

\* The deck is not reached any more, and no batch is left.
LEMMA RecordsOfNothing ==
    ASSUME RecordsType', ~Attached', batch' = None \/ UNCHANGED << views, locked, batch >>,
           BatchInv
    PROVE  RecordsInv'
BY DEF RecordsInv, FramesInv, ViewsInv, BatchInv

\* The caches are forgotten, and no batch is left.
LEMMA RecordsForgotten ==
    ASSUME views' = Blank, frames' = Blank, batch' = None
    PROVE  RecordsInv'
<1>1. RecordsType'
    BY DEF RecordsType, Blank, MaybeFrames
<1>2. FramesInv' /\ ViewsInv' /\ BatchInv'
    BY DEF FramesInv, ViewsInv, BatchInv, Blank
<1> QED BY <1>1, <1>2 DEF RecordsInv

LEMMA WriteKeyStep ==
    ASSUME DeviceInv, WriteKey
    PROVE  RecordsInv'
<1>1. /\ RecordsType /\ FramesInv /\ ViewsInv /\ BatchInv
      /\ buffer \in [Handles -> MaybeFrames] /\ device \in Handles \cup {None}
    BY RecordsNow DEF RecordsInv
<1>2. /\ batch # None /\ batch \in Batches /\ batch.handle = device
      /\ batch.left \subseteq Keys /\ batch.frame \in [Keys -> Frames]
      /\ device \in Handles /\ frames \in MaybeFrames
      /\ UNCHANGED << glass, working, device, views, locked >>
    BY <1>1 DEF WriteKey, RecordsType, Batches
<1>3. PICK k \in batch.left :
          /\ buffer' = IF device \in working
                         THEN [buffer EXCEPT ![device][k] = batch.frame[k]]
                         ELSE buffer
          /\ frames' = [frames EXCEPT ![k] = batch.frame[k]]
          /\ batch' = [batch EXCEPT !.left = @ \ {k}]
    BY <1>2 DEF WriteKey
<1>4. /\ batch' \in Batches /\ batch' # None /\ batch'.handle = device
      /\ batch'.left = batch.left \ {k} /\ batch'.frame = batch.frame
    <2>1. /\ batch' \in Batches /\ batch'.handle = device
          /\ batch'.left = batch.left \ {k} /\ batch'.frame = batch.frame
        BY <1>2, <1>3 DEF Batches
    <2> QED BY <2>1, BatchAssumption
<1>5. k \in Keys /\ batch.frame[k] \in Frames /\ batch.frame[k] # None
    BY <1>2, Sizes
<1>6. /\ frames' \in MaybeFrames /\ frames'[k] = batch.frame[k]
      /\ \A j \in Keys : j # k => frames'[j] = frames[j]
    BY <1>2, <1>3, <1>5 DEF MaybeFrames
<1>7. RecordsType'
    BY <1>1, <1>2, <1>4, <1>6 DEF RecordsType
<1>8. FramesInv'
    <2> SUFFICES ASSUME device \in working, NEW j \in Keys, frames'[j] # None
                 PROVE  /\ buffer'[device][j] \in {frames'[j], None}
                        /\ buffer'[device][j] = None => glass[j] = frames'[j]
        BY <1>2, <1>4 DEF FramesInv, Attached
    <2>1. /\ buffer'[device][k] = batch.frame[k]
          /\ j # k => buffer'[device][j] = buffer[device][j]
        BY <1>1, <1>2, <1>3, <1>5 DEF MaybeFrames
    <2>2. CASE j = k
        BY <1>5, <1>6, <2>1, <2>2
    <2>3. CASE j # k
        BY <1>1, <1>2, <1>6, <2>1, <2>3, Sizes DEF FramesInv, Attached
    <2> QED BY <2>2, <2>3
<1>9. ViewsInv'
    <2> SUFFICES ASSUME Attached, ~locked, NEW j \in Keys, views[j] # None
                 PROVE  \/ frames'[j] = views[j]
                        \/ j \in batch'.left /\ batch'.frame[j] = views[j]
        BY <1>2, <1>4 DEF ViewsInv, Attached
    <2>1. CASE j = k
        BY <1>1, <1>2, <1>6, <2>1 DEF BatchInv
    <2>2. CASE j # k
        BY <1>1, <1>2, <1>4, <1>6, <2>2 DEF ViewsInv
    <2> QED BY <2>1, <2>2
<1>10. BatchInv'
    BY <1>1, <1>2, <1>4 DEF BatchInv
<1> QED BY <1>7, <1>8, <1>9, <1>10 DEF RecordsInv

\* A flush puts what is in the buffer of the handle on the glass.
LEMMA FlushKeysStep ==
    ASSUME DeviceInv, FlushKeys
    PROVE  RecordsInv'
<1>1. /\ RecordsType /\ FramesInv /\ ViewsInv
      /\ glass \in MaybeFrames /\ buffer \in [Handles -> MaybeFrames]
      /\ device \in Handles \cup {None}
    BY RecordsNow DEF RecordsInv
<1>2. /\ batch # None /\ batch.left = {} /\ batch.handle = device /\ batch' = None
      /\ UNCHANGED << working, device, views, frames, locked >>
      /\ glass' = Over(buffer[device], glass) /\ buffer' = [buffer EXCEPT ![device] = Blank]
    BY <1>1 DEF FlushKeys, Flushed, RecordsType, caches
<1>3. RecordsType'
    BY <1>1, <1>2 DEF RecordsType
<1>4. FramesInv'
    <2> SUFFICES ASSUME Attached, NEW k \in Keys, frames[k] # None
                 PROVE  buffer'[device][k] = None /\ glass'[k] = frames[k]
        BY <1>2 DEF FramesInv, Attached
    <2>1. device \in Handles /\ buffer'[device][k] = None
        BY <1>1, <1>2 DEF Attached, Blank
    <2>2. /\ buffer[device][k] \in {frames[k], None}
          /\ buffer[device][k] = None => glass[k] = frames[k]
        BY <1>1 DEF FramesInv
    <2>3. glass'[k] = IF buffer[device][k] # None THEN buffer[device][k] ELSE glass[k]
        BY <1>2 DEF Over
    <2> QED BY <2>1, <2>2, <2>3
<1>5. ViewsInv'
    BY <1>1, <1>2 DEF ViewsInv, Attached
<1>6. BatchInv'
    BY <1>2 DEF BatchInv
<1> QED BY <1>3, <1>4, <1>5, <1>6 DEF RecordsInv

\* Closing flushes the newest handle, which is the one of the runtime or unused.
LEMMA CloseStep ==
    ASSUME DeviceInv, Close
    PROVE  RecordsInv'
<1>1. /\ RecordsInv
      /\ glass \in MaybeFrames /\ buffer \in [Handles -> MaybeFrames]
      /\ device \in Handles \cup {None} /\ working \subseteq Handles
    BY RecordsNow
<1>2. /\ closing = opened
      /\ UNCHANGED << working, device, view, views, frames, locked, batch >>
      /\ \/ Flushed(closing)
         \/ UNCHANGED << glass, buffer >>
    BY DEF Close, DeviceInv, HandleInv, runtimeVars, caches
<1>3. CASE UNCHANGED << glass, buffer >>
    BY <1>1, <1>2, <1>3, RecordsKept DEF caches
<1>4. CASE Flushed(closing) /\ device = closing
    <2>1. /\ glass' = Over(buffer[device], glass)
          /\ buffer' = [buffer EXCEPT ![device] = Blank]
        BY <1>4 DEF Flushed
    <2>2. RecordsType'
        BY <1>1, <1>2 DEF RecordsInv, RecordsType
    <2>3. FramesInv'
        <3> SUFFICES ASSUME Attached, NEW k \in Keys, frames[k] # None
                     PROVE  buffer'[device][k] = None /\ glass'[k] = frames[k]
            BY <1>2 DEF FramesInv, Attached
        <3>1. device \in Handles /\ buffer'[device][k] = None
            BY <1>1, <2>1 DEF Attached, Blank
        <3>2. /\ buffer[device][k] \in {frames[k], None}
              /\ buffer[device][k] = None => glass[k] = frames[k]
            BY <1>1 DEF RecordsInv, FramesInv
        <3>3. glass'[k] = IF buffer[device][k] # None THEN buffer[device][k] ELSE glass[k]
            BY <2>1 DEF Over
        <3> QED BY <3>1, <3>2, <3>3
    <2>4. ViewsInv' /\ BatchInv'
        BY <1>1, <1>2 DEF RecordsInv, ViewsInv, BatchInv, Attached
    <2> QED BY <2>2, <2>3, <2>4 DEF RecordsInv
<1>5. CASE Flushed(closing) /\ device # closing /\ device # None
    <2>1. Unused(closing) /\ closing \in Handles
        BY <1>1, <1>2, <1>5 DEF DeviceInv, QueueInv, Flushed
    <2>2. glass' = glass
        BY <1>1, <1>5, <2>1 DEF Flushed, Over, Unused, MaybeFrames
    <2>3. buffer'[device] = buffer[device]
        BY <1>1, <1>5 DEF Flushed
    <2>4. RecordsType' /\ FramesInv' /\ ViewsInv' /\ BatchInv'
        BY <1>1, <1>2, <2>2, <2>3
        DEF RecordsInv, RecordsType, FramesInv, ViewsInv, BatchInv, Attached
    <2> QED BY <2>4 DEF RecordsInv
<1>6. CASE device = None
    <2>1. RecordsType' /\ ~Attached'
        BY <1>1, <1>2, <1>6 DEF RecordsInv, RecordsType, Attached
    <2>2. BatchInv /\ UNCHANGED << views, locked, batch >>
        BY <1>1, <1>2 DEF RecordsInv
    <2> QED BY <2>1, <2>2, RecordsOfNothing
<1> QED BY <1>2, <1>3, <1>4, <1>5, <1>6

\* Every repaint of the runtime.
LEMMA PaintStep ==
    ASSUME DeviceInv,
           \/ TakeReconnected
           \/ \E v \in [Keys -> Looks] : Repaint(v) \/ \E k \in Keys : Feedback(k, v)
           \/ Reload /\ ~locked
           \/ Lock \/ Unlock \/ SaverFrame \/ Wake
    PROVE  RecordsInv'
<1>1. /\ view \in [Keys -> Looks] /\ device \in Handles \cup {None}
      /\ (queue # << >> => Head(queue) \in Handles \cup {None})
    BY RecordsNow, Taken DEF DeviceInv, DeviceTypeOK, Events
<1>2. CASE TakeReconnected
    <2>1. /\ Idle /\ device' \in Handles \cup {None} /\ view' = view /\ locked' = locked
          /\ UNCHANGED << glass, buffer, working >>
        BY <1>1, <1>2 DEF TakeReconnected
    <2>2. CASE locked
        BY <1>2, <2>1, <2>2, SaverStep DEF TakeReconnected, RenderAny
    <2>3. CASE ~locked
        BY <1>1, <1>2, <2>1, <2>3, RenderStep DEF TakeReconnected, RenderAny, Remembered
    <2> QED BY <2>2, <2>3
<1>3. ASSUME NEW v \in [Keys -> Looks], Repaint(v) \/ \E k \in Keys : Feedback(k, v)
      PROVE  RecordsInv'
    <2>1. /\ Idle /\ ~locked /\ view' \in [Keys -> Looks] /\ device' = device
          /\ UNCHANGED << glass, buffer, working >>
        BY <1>3 DEF Repaint, Feedback, deck
    <2>2. PICK keys \in SUBSET Keys : Render(keys, views, frames, device')
        BY <1>3, <2>1 DEF Repaint, Feedback
    <2> QED BY <1>1, <2>1, <2>2, RenderStep DEF Remembered
<1>4. CASE Reload /\ ~locked
    BY <1>1, <1>4, RenderStep DEF Reload, Remembered
<1>5. CASE Lock
    BY <1>1, <1>5, SaverStep DEF Lock, deck
<1>6. CASE Unlock
    BY <1>1, <1>6, RenderStep DEF Unlock, Remembered, deck
<1>7. CASE SaverFrame
    BY <1>1, <1>7, SaverStep DEF SaverFrame, deck
<1>8. CASE Wake
    <2>1. CASE locked
        BY <1>1, <1>8, <2>1, SaverStep DEF Wake, RenderAny, deck
    <2>2. CASE ~locked
        BY <1>1, <1>8, <2>2, RenderStep DEF Wake, RenderAny, Remembered, deck
    <2> QED BY <2>1, <2>2
<1> QED BY <1>2, <1>3, <1>4, <1>5, <1>6, <1>7, <1>8

LEMMA RecordsStep == DeviceInv /\ [DeviceNext]_vars => RecordsInv'
<1> SUFFICES ASSUME DeviceInv, [DeviceNext]_vars PROVE RecordsInv'
    OBVIOUS
<1>1. /\ RecordsInv /\ RecordsType /\ BatchInv
      /\ device \in Handles \cup {None} /\ working \subseteq Handles
    BY RecordsNow DEF RecordsInv
<1>2. CASE Plug \/ ReadFails \/ Brighten \/ UNCHANGED vars
    BY <1>1, <1>2, RecordsKept DEF Plug, ReadFails, Brighten, deck, runtimeVars, vars, caches
<1>3. CASE Unplug
    <2>1. working' = {} /\ UNCHANGED << device, views, frames, locked, batch >>
        BY <1>3 DEF Unplug, runtimeVars, caches
    <2>2. RecordsType' /\ ~Attached'
        BY <1>1, <2>1 DEF RecordsType, Attached
    <2> QED BY <1>1, <2>1, <2>2, RecordsOfNothing
<1>4. CASE Reopen
    <2>1. /\ working' = working \cup {opened + 1}
          /\ UNCHANGED << glass, buffer, device, views, frames, locked, batch >>
        BY <1>4 DEF Reopen, runtimeVars, caches
    <2>2. Attached' <=> Attached
        BY <1>1, <2>1, Sizes DEF Attached, DeviceInv, HandleInv, DeviceTypeOK
    <2> QED BY <1>1, <2>1, <2>2
            DEF RecordsInv, RecordsType, FramesInv, ViewsInv, BatchInv
<1>5. CASE DeviceGone
    <2>1. /\ batch.handle \notin working /\ batch.handle = device /\ batch' = None
          /\ UNCHANGED << working, device, views, frames, locked >>
        BY <1>1, <1>5 DEF DeviceGone, Report, RecordsType, deck, caches
    <2>2. RecordsType' /\ ~Attached'
        BY <1>1, <2>1 DEF RecordsType, Attached
    <2> QED BY <1>1, <2>1, <2>2, RecordsOfNothing
<1>6. CASE WriteFails \/ FlushFails \/ TakeDisconnected \/ (Reload /\ locked)
    BY <1>6, RecordsForgotten
    DEF WriteFails, FlushFails, TakeDisconnected, Reload, Invalidate, Idle
<1>7. CASE \E v \in [Keys -> Looks] : ChangeUnseen(v)
    BY <1>1, <1>7, RecordsKept DEF ChangeUnseen, deck
<1> QED BY <1>2, <1>3, <1>4, <1>5, <1>6, <1>7, WriteKeyStep, FlushKeysStep, CloseStep, PaintStep
        DEF DeviceNext

-----------------------------------------------------------------------------
(* The invariant.                                                          *)

LEMMA HandleStep == DeviceInv /\ [DeviceNext]_vars => HandleInv'
<1> SUFFICES ASSUME DeviceInv, [DeviceNext]_vars PROVE HandleInv'
    OBVIOUS
<1>1. HandleInv /\ opened \in Nat /\ opened \in 0..MaxOpens
    BY Sizes DEF DeviceInv, DeviceTypeOK
<1>2. batch' # None => batch'.handle = device'
    BY RecordsStep DEF RecordsInv, RecordsType
<1>3. CASE Unplug \/ ReadFails \/ Close
    BY <1>1, <1>2, <1>3 DEF HandleInv, Unplug, ReadFails, Close, deck, supervisor, runtimeVars
<1>4. CASE Reopen
    BY <1>1, <1>2, <1>4 DEF HandleInv, Reopen, runtimeVars
<1>5. CASE TakeDisconnected \/ TakeReconnected
    <2>1. UNCHANGED << working, opened, reader, closing >>
        BY <1>5 DEF TakeDisconnected, TakeReconnected, deck, supervisor
    <2>2. device' # None => device' \in 1..opened'
        BY <1>5, TakeStep
    <2> QED BY <1>1, <1>2, <2>1, <2>2 DEF HandleInv
<1>6. ASSUME UNCHANGED << working, opened, reader, closing, device >>
      PROVE  HandleInv'
    BY <1>1, <1>2, <1>6 DEF HandleInv
<1> QED BY <1>3, <1>4, <1>5, <1>6
        DEF DeviceNext, Plug, WriteKey, WriteFails, FlushKeys, FlushFails, DeviceGone, Repaint,
            ChangeUnseen, Feedback, Reload, Brighten, Lock, Unlock, SaverFrame, Wake, deck,
            supervisor, runtimeVars, vars

\* The deck, its library and the supervisor.
DeckType ==
    /\ plugged \in BOOLEAN
    /\ glass \in MaybeFrames
    /\ buffer \in [Handles -> MaybeFrames]

LEMMA FlushedType ==
    ASSUME DeckType, NEW h \in Handles
    PROVE  /\ Over(buffer[h], glass) \in MaybeFrames
           /\ \A last : [k \in Keys |-> IF k <= last THEN Over(buffer[h], glass)[k] ELSE glass[k]]
                            \in MaybeFrames
           /\ [buffer EXCEPT ![h] = Blank] \in [Handles -> MaybeFrames]
<1>1. Blank \in MaybeFrames
    BY DEF Blank, MaybeFrames
<1>2. Over(buffer[h], glass) \in MaybeFrames
    BY DEF DeckType, Over, MaybeFrames
<1>3. [buffer EXCEPT ![h] = Blank] \in [Handles -> MaybeFrames]
    BY <1>1 DEF DeckType
<1> DEFINE over == Over(buffer[h], glass)
<1> HIDE DEF over
<1>4. \A last : [k \in Keys |-> IF k <= last THEN over[k] ELSE glass[k]] \in MaybeFrames
    BY <1>2 DEF DeckType, MaybeFrames, over
<1> QED BY <1>2, <1>3, <1>4 DEF over

LEMMA DeckTypeStep == DeviceInv /\ [DeviceNext]_vars => DeckType'
<1> SUFFICES ASSUME DeviceInv, [DeviceNext]_vars PROVE DeckType'
    OBVIOUS
<1>1. DeckType /\ working \subseteq Handles /\ RecordsType
    BY RecordsNow DEF DeviceInv, DeviceTypeOK, DeckType, RecordsInv
<1>2. CASE Unplug
    <2>1. Blank \in MaybeFrames
        BY DEF Blank, MaybeFrames
    <2> QED BY <1>1, <1>2, <2>1 DEF DeckType, Unplug
<1>3. CASE Plug
    BY <1>1, <1>3 DEF DeckType, Plug
<1>4. CASE Close \/ FlushKeys
    <2>1. \/ UNCHANGED << glass, buffer, plugged >>
          \/ \E h \in Handles : Flushed(h) /\ UNCHANGED plugged
        BY <1>1, <1>4 DEF Close, FlushKeys, Flushed
    <2> QED BY <1>1, <2>1, FlushedType DEF DeckType, Flushed
<1>5. CASE WriteKey
    <2>1. PICK k \in batch.left :
              buffer' = IF batch.handle \in working
                          THEN [buffer EXCEPT ![batch.handle][k] = batch.frame[k]]
                          ELSE buffer
        BY <1>5 DEF WriteKey
    <2>2. k \in Keys /\ batch.frame[k] \in Frames /\ batch # None
        BY <1>1, <1>5 DEF WriteKey, RecordsType, Batches
    <2>3. buffer' \in [Handles -> MaybeFrames]
        BY <1>1, <2>1, <2>2 DEF DeckType, MaybeFrames
    <2> QED BY <1>1, <1>5, <2>3 DEF DeckType, WriteKey
<1>6. CASE FlushFails
    <2>1. PICK last : FlushedUpTo(batch.handle, last)
        BY <1>6 DEF FlushFails
    <2>2. glass' \in MaybeFrames
        BY <1>1, <2>1, FlushedType DEF FlushedUpTo, DeckType
    <2> QED BY <1>1, <1>6, <2>1, <2>2 DEF DeckType, FlushFails, FlushedUpTo
<1>7. ASSUME UNCHANGED << plugged, glass, buffer >>
      PROVE  DeckType'
    BY <1>1, <1>7 DEF DeckType
<1> QED BY <1>2, <1>3, <1>4, <1>5, <1>6, <1>7
        DEF DeviceNext, ReadFails, Reopen, WriteFails, DeviceGone, TakeDisconnected,
            TakeReconnected, Repaint, ChangeUnseen, Feedback, Reload, Brighten, Lock, Unlock,
            SaverFrame, Wake, deck, vars

\* Events, and what is counted.
LEMMA CountsStep ==
    DeviceInv /\ [DeviceNext]_vars =>
        /\ queue' \in Seq(Handles \cup {None})
        /\ faults' \in 0..MaxFaults
        /\ replaced' \in BOOLEAN
<1> SUFFICES ASSUME DeviceInv, [DeviceNext]_vars
             PROVE  queue' \in Seq(Events) /\ faults' \in 0..MaxFaults /\ replaced' \in BOOLEAN
    BY DEF Events
<1>1. /\ queue \in Seq(Events) /\ faults \in 0..MaxFaults /\ replaced \in BOOLEAN
      /\ opened \in 0..MaxOpens /\ None \in Events
      /\ \A q \in Seq(Events) : \A e \in Events : Append(q, e) \in Seq(Events)
      /\ queue # << >> => Tail(queue) \in Seq(Events)
    BY Taken, Appended DEF DeviceInv, DeviceTypeOK, Events
<1>2. ASSUME NEW h, NEW q \in Seq(Events), SetBrightness(h, q)
      PROVE  queue' \in Seq(Events) /\ faults' \in 0..MaxFaults /\ replaced' \in BOOLEAN
    <2>1. queue' \in Seq(Events) /\ replaced' \in BOOLEAN
        BY <1>1, <1>2, BrightnessStep
    <2>2. faults' \in 0..MaxFaults
        BY <1>1, <1>2, Sizes DEF SetBrightness, Fault
    <2> QED BY <2>1, <2>2
<1>3. CASE TakeReconnected \/ Reload \/ Brighten
    BY <1>1, <1>2, <1>3 DEF TakeReconnected, Reload, Brighten
<1>4. CASE ReadFails \/ WriteFails \/ FlushFails
    <2>1. faults' \in 0..MaxFaults
        BY <1>1, <1>4, Sizes DEF ReadFails, WriteFails, FlushFails, Fault
    <2>2. queue' \in Seq(Events) /\ replaced' = replaced
        BY <1>1, <1>4 DEF ReadFails, WriteFails, FlushFails, Tell, runtimeVars
    <2> QED BY <1>1, <2>1, <2>2
<1>5. CASE Reopen
    <2>1. opened' \in Events
        BY <1>1, <1>5, Sizes DEF Reopen, Events, Handles
    <2> QED BY <1>1, <1>5, <2>1 DEF Reopen, Tell, runtimeVars
<1>6. CASE DeviceGone
    BY <1>1, <1>6 DEF DeviceGone, Report, Tell
<1>7. CASE TakeDisconnected
    BY <1>1, <1>7 DEF TakeDisconnected
<1>8. ASSUME UNCHANGED << queue, faults, replaced >>
      PROVE  queue' \in Seq(Events) /\ faults' \in 0..MaxFaults /\ replaced' \in BOOLEAN
    BY <1>1, <1>8
<1> QED BY <1>3, <1>4, <1>5, <1>6, <1>7, <1>8
        DEF DeviceNext, Unplug, Plug, Close, WriteKey, FlushKeys, Repaint, ChangeUnseen, Feedback,
            Lock, Unlock, SaverFrame, Wake, runtimeVars, vars

LEMMA LooksStep ==
    DeviceInv /\ [DeviceNext]_vars =>
        view' \in [Keys -> Looks] /\ locked' \in BOOLEAN /\ saverDue' \in BOOLEAN
<1> SUFFICES ASSUME DeviceInv, [DeviceNext]_vars
             PROVE  view' \in [Keys -> Looks] /\ locked' \in BOOLEAN /\ saverDue' \in BOOLEAN
    OBVIOUS
<1>1. view \in [Keys -> Looks] /\ locked \in BOOLEAN /\ saverDue \in BOOLEAN
    BY DEF DeviceInv, DeviceTypeOK
<1>2. view' \in [Keys -> Looks]
    BY <1>1
    DEF DeviceNext, Unplug, Plug, ReadFails, Close, Reopen, WriteKey, WriteFails, FlushKeys,
        FlushFails, DeviceGone, TakeDisconnected, TakeReconnected, Repaint, ChangeUnseen,
        Feedback, Reload, Brighten, Lock, Unlock, SaverFrame, Wake, runtimeVars, vars
<1>3. locked' \in {locked, TRUE, FALSE} /\ saverDue' \in {saverDue, TRUE, FALSE}
    BY DEF DeviceNext, Unplug, Plug, ReadFails, Close, Reopen, WriteKey, WriteFails, FlushKeys,
        FlushFails, DeviceGone, TakeDisconnected, TakeReconnected, Repaint, ChangeUnseen,
        Feedback, Reload, Brighten, Lock, Unlock, SaverFrame, Wake, runtimeVars, vars,
        RenderAny, RenderSaver
<1> QED BY <1>1, <1>2, <1>3

LEMMA DeviceInvStep == DeviceInv /\ [DeviceNext]_vars => DeviceInv'
<1> SUFFICES ASSUME DeviceInv, [DeviceNext]_vars PROVE DeviceInv'
    OBVIOUS
<1>1. RecordsInv' /\ HandleInv' /\ DeckType' /\ QueueInv' /\ TargetInv'
    BY RecordsStep, HandleStep, DeckTypeStep, QueueStep
<1>2. opened' \in 0..MaxOpens
    <2>1. opened \in 0..MaxOpens
        BY DEF DeviceInv, DeviceTypeOK
    <2>2. opened' = opened \/ (opened < MaxOpens /\ opened' = opened + 1)
        BY DEF DeviceNext, Unplug, Plug, ReadFails, Close, Reopen, WriteKey, WriteFails, FlushKeys,
               FlushFails, DeviceGone, TakeDisconnected, TakeReconnected, Repaint, ChangeUnseen,
               Feedback, Reload, Brighten, Lock, Unlock, SaverFrame, Wake, supervisor, vars
    <2> QED BY <2>1, <2>2, Sizes
<1>3. 1..opened' \subseteq Handles
    BY <1>2, Sizes DEF Handles
<1>4. working' \subseteq Handles /\ device' \in Handles \cup {None}
    BY <1>1, <1>3 DEF HandleInv
<1>5. reader' \in Handles \cup {None} /\ closing' \in Handles \cup {None}
    <2>1. /\ reader \in Handles \cup {None} /\ closing \in Handles \cup {None}
          /\ opened \in 0..MaxOpens
        BY DEF DeviceInv, DeviceTypeOK
    <2>2. CASE ReadFails \/ Close
        BY <2>1, <2>2 DEF ReadFails, Close
    <2>3. CASE Reopen
        <3>1. reader' = opened' /\ opened' = opened + 1 /\ closing' = closing
            BY <2>3 DEF Reopen
        <3> QED BY <1>2, <2>1, <3>1, Sizes DEF Handles
    <2>4. ASSUME UNCHANGED << reader, closing >>
          PROVE  reader' \in Handles \cup {None} /\ closing' \in Handles \cup {None}
        BY <2>1, <2>4
    <2> QED BY <2>2, <2>3, <2>4
            DEF DeviceNext, Unplug, Plug, WriteKey, WriteFails, FlushKeys, FlushFails, DeviceGone,
                TakeDisconnected, TakeReconnected, Repaint, ChangeUnseen, Feedback, Reload,
                Brighten, Lock, Unlock, SaverFrame, Wake, supervisor, vars
<1>6. DeviceTypeOK'
    BY <1>1, <1>2, <1>4, <1>5, CountsStep, LooksStep
    DEF DeviceTypeOK, DeckType, RecordsInv, RecordsType
<1> QED BY <1>1, <1>6 DEF DeviceInv, RecordsInv

LEMMA DeviceInvHolds == DeviceSpec => []DeviceInv
BY DeviceInvInit, DeviceInvStep, PTL DEF DeviceSpec

\* Rendering and the supervisor stay within their types: no batch, whatever
\* happens while it is written, is of a handle or of a key there is not.
THEOREM DeviceTypeCorrect == DeviceSpec => []DeviceTypeOK
<1>1. DeviceInv => DeviceTypeOK
    BY DEF DeviceInv
<1> QED BY <1>1, DeviceInvHolds, PTL

\* What the caches say a key shows is what it shows, so that skipping it is
\* right, after any failed write or flush, lock, wake or replaced handle.
THEOREM RecordedAlwaysShown == DeviceSpec => []RecordedIsShown
<1>1. DeviceInv => RecordedIsShown
    BY DEF DeviceInv, FramesInv, ViewsInv, RecordedIsShown, Settled, Idle
<1> QED BY <1>1, DeviceInvHolds, PTL

\* Once its events are handled, the runtime writes to the handle the supervisor
\* reads from, or it reported an older handle after that one was opened.
THEOREM HandlesAlwaysAgree == DeviceSpec => []HandlesAgree
<1>1. DeviceInv => HandlesAgree
    BY DEF DeviceInv, TargetInv, Target, HandlesAgree, Settled
<1> QED BY <1>1, DeviceInvHolds, PTL

=============================================================================
