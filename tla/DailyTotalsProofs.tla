--------------------------- MODULE DailyTotalsProofs --------------------------
(***************************************************************************)
(* Proofs about the state file and the day's totals of the belt: a save    *)
(* implements a durable register, the file holds whatever is not marked    *)
(* dirty, and no day is credited with more than the belt counted on it.    *)
(***************************************************************************)
EXTENDS DailyTotals, SequenceTheorems, TLAPS

-----------------------------------------------------------------------------
(* One save.                                                               *)

\* What is known between two steps of a save: the temporary file holds what is
\* saved once it is written, is on the disk before it is renamed, and stands
\* under the name of the state file while the directory is synced.
StoreInv ==
    /\ StoreTypeOK
    /\ step # "idle" => saving.state \in States
    /\ step \in {"sync", "rename"} => temporary = saving.state
    /\ step = "rename" => synced
    /\ step = "sync_dir" => file = saving.state /\ saving.durability = "Critical"

LEMMA StoreInvInit == StoreInit => StoreInv
<1> SUFFICES ASSUME StoreInit PROVE StoreInv
    OBVIOUS
<1>1. /\ step = "idle" /\ file \in Whole /\ onDisk = {file}
      /\ saving = [state |-> NoState, durability |-> "Normal"]
      /\ temporary = NoState /\ synced \in BOOLEAN /\ promised \in BOOLEAN
    BY DEF StoreInit, Resting
<1> QED BY <1>1 DEF StoreInv, StoreTypeOK, Durability, Steps, Whole

LEMMA StoreInvStep == StoreInv /\ [StoreNext]_storeVars => StoreInv'
<1> SUFFICES ASSUME StoreInv, [StoreNext]_storeVars PROVE StoreInv'
    OBVIOUS
<1> USE DEF StoreInv, StoreTypeOK, Durability, Steps, Whole
<1>1. ASSUME NEW s \in States, NEW d \in Durability, StartSave(s, d) PROVE StoreInv'
    BY <1>1 DEF StartSave
<1>2. CASE CreateDirectory
    BY <1>2 DEF CreateDirectory
<1>3. CASE OpenTemporary
    BY <1>3 DEF OpenTemporary
<1>4. CASE WriteAll
    BY <1>4 DEF WriteAll
<1>5. CASE SyncAll
    BY <1>5 DEF SyncAll
<1>6. CASE Rename
    <2>1. CASE saving.durability = "Critical"
        BY <1>6, <2>1 DEF Rename, SyncsDirectory
    <2>2. CASE saving.durability # "Critical"
        <3>1. /\ step' = "idle" /\ file' = temporary /\ onDisk' = onDisk \cup {temporary}
              /\ temporary' = NoState /\ synced' \in BOOLEAN
              /\ saving' = [state |-> NoState, durability |-> "Normal"]
            BY <1>6, <2>2 DEF Rename, SyncsDirectory, ReturnOk, Finish, Resting
        <3>2. promised' \in BOOLEAN
            BY <1>6, <2>2 DEF Rename, SyncsDirectory, ReturnOk
        <3>3. temporary \in States
            BY <1>6 DEF Rename
        <3> QED BY <3>1, <3>2, <3>3
    <2> QED BY <2>1, <2>2
<1>7. CASE SyncDirectory
    BY <1>7 DEF SyncDirectory, ReturnOk, Finish, Resting
<1>8. CASE FailSave
    BY <1>8 DEF FailSave, Finish, Resting
<1>9. CASE Killed
    BY <1>9 DEF Killed, Finish, Resting
<1>10. CASE PowerLost
    BY <1>10 DEF PowerLost, Finish, Resting
<1>11. CASE UNCHANGED storeVars
    BY <1>11 DEF storeVars
<1> QED
    BY <1>1, <1>2, <1>3, <1>4, <1>5, <1>6, <1>7, <1>8, <1>9, <1>10, <1>11
    DEF StoreNext, SaveStep

-----------------------------------------------------------------------------
(* A save implements the durable register.                                 *)

LEMMA DurableStep ==
    StoreInv /\ [StoreNext]_storeVars => [Durable!DurableNext]_(Durable!durableVars)
<1> SUFFICES ASSUME StoreInv, [StoreNext]_storeVars
             PROVE  [Durable!DurableNext]_(Durable!durableVars)
    OBVIOUS
<1> USE DEF Durable!DurableNext, Durable!durableVars
<1>1. ASSUME NEW s \in States, NEW d \in Durability, StartSave(s, d)
      PROVE  Durable!Offer(s)
    BY <1>1 DEF StartSave, Durable!Offer
<1>2. CASE CreateDirectory \/ OpenTemporary \/ WriteAll \/ SyncAll
    BY <1>2 DEF CreateDirectory, OpenTemporary, WriteAll, SyncAll
<1>3. CASE Rename
    <2>1. /\ saving.state \in States /\ temporary = saving.state /\ synced
          /\ file' = saving.state
          /\ onDisk' = onDisk \cup {saving.state}
        BY <1>3 DEF StoreInv, Rename
    <2>2. saving'.state \in {saving.state, NoState}
        BY <1>3 DEF Rename, ReturnOk, Finish, Resting
    <2>3. promised' = FALSE
        <3>1. CASE saving.durability = "Critical"
            BY <1>3, <3>1 DEF Rename, SyncsDirectory
        <3>2. CASE saving.durability # "Critical"
            BY <1>3, <3>2, Zenon DEF Rename, SyncsDirectory, ReturnOk
        <3> QED BY <3>1, <3>2
    <2>4. Durable!Replace
        BY <2>1, <2>2, <2>3 DEF Durable!Replace
    <2> QED BY <2>4
<1>4. CASE SyncDirectory
    BY <1>4 DEF StoreInv, SyncDirectory, ReturnOk, Finish, Resting, Durable!Promise
<1>5. CASE FailSave \/ Killed
    BY <1>5 DEF FailSave, Killed, Finish, Resting, Durable!Withdraw
<1>6. CASE PowerLost
    BY <1>6 DEF PowerLost, Finish, Resting, Durable!PowerLoss
<1>7. CASE UNCHANGED storeVars
    BY <1>7 DEF storeVars
<1> QED
    BY <1>1, <1>2, <1>3, <1>4, <1>5, <1>6, <1>7 DEF StoreNext, SaveStep

LEMMA DurableStart == StoreInit => Durable!DurableInit
BY DEF StoreInit, Durable!DurableInit, Durable!Contents, Whole, Resting

\* The steps of save, the ways it fails, kills and power losses implement a
\* state file that is never torn and never falls back behind a Critical save
\* that returned, whatever the states are and whenever one is saved.
THEOREM SavesAreDurable == StoreSpec => ImplementsDurable
<1>1. StoreInit => Durable!DurableInit /\ StoreInv
    BY DurableStart, StoreInvInit
<1>2. StoreInv /\ [StoreNext]_storeVars
          => StoreInv' /\ [Durable!DurableNext]_(Durable!durableVars)
    BY StoreInvStep, DurableStep
<1> QED BY <1>1, <1>2, PTL DEF StoreSpec, ImplementsDurable, Durable!DurableSpec

-----------------------------------------------------------------------------
(* The inductive invariant of the runtime and its totals.                  *)

\* A daemon that runs has a day; one that does not holds nothing.
DaemonInv ==
    /\ daemon = "down" =>
          step = "idle" /\ totals = NoTotals /\ updates = << >> /\ ~link /\ ~continuous
    /\ daemon # "down" => totals.date \in Days
    /\ totals.date # None => totals.date <= today

\* The totals stand still while they are saved.
SaveInv == daemon # "down" /\ step # "idle" => saving.state = Saved(totals)

\* No state that could still come under the name of the state file claims more
\* than was watched.
Contents == onDisk \cup {file, temporary, saving.state}

FilesAreHonest == \A s \in Contents \cap States : s.count <= watched[s.date]

IsSample(i) == i \in 1..Len(updates) /\ updates[i].kind = "Status"

\* The runtime credits the next sample, if it is of this day, with what was
\* counted since the last one.
Credits(day) == continuous /\ totals.last # None /\ totals.date = day

\* `seen` says what had been watched, on the day of each sample on its way,
\* when it was taken.  What the runtime is going to credit for a sample is then
\* no more than what was watched since the one before.
Explains(seen) ==
    /\ \A i \in 1..Len(updates) : IsSample(i) =>
          /\ updates[i].day <= today
          /\ seen[i] <= watched[updates[i].day]
          /\ totals.date = updates[i].day => totals.count <= seen[i]
    /\ \A i, j \in 1..Len(updates) : i < j /\ IsSample(i) /\ IsSample(j) =>
          /\ updates[i].day <= updates[j].day
          /\ updates[i].day = updates[j].day => seen[i] <= seen[j]
    /\ \A i \in 1..Len(updates) :
          IsSample(i) /\ IsSample(i + 1) /\ updates[i].day = updates[i + 1].day =>
              updates[i + 1].counter - updates[i].counter <= seen[i + 1] - seen[i]
    /\ IsSample(Len(updates)) /\ updates[Len(updates)].day = today =>
          link /\ counter - updates[Len(updates)].counter
                      <= watched[today] - seen[Len(updates)]
    /\ IsSample(1) /\ Credits(updates[1].day) =>
          updates[1].counter - totals.last <= seen[1] - totals.count
    /\ updates = << >> /\ Credits(today) =>
          link /\ counter - totals.last <= watched[today] - totals.count

CreditIsCovered == \E seen \in [1..Len(updates) -> Counts] : Explains(seen)

DailyInv ==
    /\ DailyTypeOK
    /\ StoreInv
    /\ DaemonInv
    /\ SaveInv
    /\ StoredUnlessDirty
    /\ NeverOverCounts
    /\ FilesAreHonest
    /\ CreditIsCovered

-----------------------------------------------------------------------------
(* The operators on totals.                                                *)

LEMMA SavedIsState ==
    ASSUME NEW t \in Totals, t.date \in Days
    PROVE  Saved(t) \in States
BY DailyAssumption DEF Totals, Saved, Days, Counts

LEMMA StateIsRecord ==
    ASSUME NEW s \in States
    PROVE  /\ s.date \in Days /\ s.count \in Counts
           /\ s = [date |-> s.date, count |-> s.count]
           /\ s # NoState
BY DailyAssumption, StoreAssumption DEF Days, Counts

LEMMA SavedTotals ==
    ASSUME NEW t \in Totals
    PROVE  Saved(t).date = t.date /\ Saved(t).count = t.count
BY DEF Saved

LEMMA NoTotalsType == NoTotals \in Totals
BY DailyAssumption DEF NoTotals, Totals, Counts

\* Another day starts from nothing.
LEMMA RolledOverType ==
    ASSUME NEW t \in Totals, NEW day \in Days
    PROVE  /\ RolledOver(t, day) \in Totals
           /\ RolledOver(t, day).date = day
           /\ t.date = day => RolledOver(t, day) = t
           /\ t.date # day => RolledOver(t, day) = [date |-> day, count |-> 0, last |-> None]
BY DailyAssumption DEF RolledOver, Totals, Counts

\* A sample that is credited adds what was counted since the last; another one
\* adds nothing; both are the last sample from then on.
LEMMA ObservedTotals ==
    ASSUME NEW t \in Totals, NEW value \in Counts, NEW day \in Days, NEW isContinuous \in BOOLEAN
    PROVE  LET o == Observed(t, value, day, isContinuous)
               r == RolledOver(t, day)
           IN  /\ o = [date |-> day, count |-> o.count, last |-> value]
               /\ IF isContinuous /\ t.date = day /\ t.last # None /\ value >= t.last
                    THEN o.count = t.count + (value - t.last)
                    ELSE o.count = r.count
<1> DEFINE r == RolledOver(t, day)
           o == Observed(t, value, day, isContinuous)
           credits == isContinuous /\ t.date = day /\ r.last # None /\ value >= r.last
<1>1. r \in Totals /\ r.date = day
    BY RolledOverType
<1>2. /\ o = [r EXCEPT !.count = @ + (IF credits THEN value - r.last ELSE 0), !.last = value]
    BY DEF Observed
<1>3. t.date = day => r = t
    BY RolledOverType
<1>4. /\ o.date = day /\ o.last = value
      /\ o.count = r.count + (IF credits THEN value - r.last ELSE 0)
      /\ o = [date |-> day, count |-> o.count, last |-> value]
    <2> HIDE DEF r, o, credits
    <2>1. r = [date |-> r.date, count |-> r.count, last |-> r.last]
        BY <1>1 DEF Totals
    <2> QED BY <1>1, <1>2, <2>1 DEF Totals
<1>5. r.count \in Nat
    BY <1>1, DailyAssumption DEF Totals, Counts
<1>6. CASE credits
    <2>1. t = r
        BY <1>3, <1>6
    <2> QED BY <2>1, <1>4, <1>6
<1>7. CASE ~credits
    <2>1. ~(isContinuous /\ t.date = day /\ t.last # None /\ value >= t.last)
        BY <1>3, <1>7
    <2> QED BY <2>1, <1>4, <1>5, <1>7
<1> QED BY <1>6, <1>7

-----------------------------------------------------------------------------
(* What a step of the daemon does to the state file.                       *)

\* A step of the daemon is a step of its save, or leaves the files alone.
LEMMA StoreMoves == DailyInv /\ [DailyNext]_vars => [StoreNext]_storeVars
<1> SUFFICES ASSUME DailyInv, [DailyNext]_vars PROVE [StoreNext]_storeVars
    OBVIOUS
<1>0. /\ totals \in Totals
      /\ daemon # "down" => Saved(totals) \in States
      /\ today \in Days
    BY SavedIsState DEF DailyInv, DailyTypeOK, DaemonInv
<1>1. CASE Walk \/ NewRun \/ Connect \/ Sample \/ Disconnect \/ Midnight \/ Tick \/ Sleep
    BY <1>1 DEF Walk, NewRun, Connect, Sample, Disconnect, Send, Midnight, Tick, Sleep
<1>2. ASSUME NEW t \in Totals, t.date \in Days, NEW reason, NEW d \in Durability,
             PersistIf(reason, t, d)
      PROVE  [StoreNext]_storeVars
    <2>1. Saved(t) \in States
        BY <1>2, SavedIsState
    <2> QED BY <1>2, <2>1 DEF PersistIf, StoreNext
<1>3. CASE Start
    <2> DEFINE loaded == Loaded(Saved(NoTotals))
               before == [date |-> loaded.date, count |-> loaded.count, last |-> None]
    <2>1. before \in Totals
        <3>1. file \in Whole
            BY DEF DailyInv, StoreInv, StoreTypeOK
        <3>2. CASE file = NoState
            BY <3>2, DailyAssumption DEF Loaded, Saved, NoTotals, Totals, Counts
        <3>3. CASE file \in States
            BY <3>3, StateIsRecord DEF Loaded, Totals
        <3> QED BY <3>1, <3>2, <3>3 DEF Whole
    <2>2. totals' = RolledOver(before, today) /\ PersistIf(before.date # today, totals', "Normal")
        BY <1>3, Zenon DEF Start
    <2> HIDE DEF before
    <2>3. totals' \in Totals /\ totals'.date \in Days
        BY <1>0, <2>1, <2>2, RolledOverType
    <2>4. "Normal" \in Durability
        BY DEF Durability
    <2> QED BY <1>2, <2>2, <2>3, <2>4
<1>4. CASE ReceiveStatus \/ ReceiveDisconnected \/ Reload
    BY <1>4 DEF ReceiveStatus, ReceiveDisconnected, Reload
<1>5. CASE PersistDue \/ Wake
    <2>1. daemon # "down" /\ PersistIf(dirty, totals, "Normal")
        BY <1>5 DEF PersistDue, Wake, Ready
    <2> QED BY <1>0, <1>2, <2>1 DEF DailyInv, DaemonInv, Durability
<1>6. CASE MidnightDue
    <2>1. totals' = RolledOver(totals, today) /\ PersistIf(totals.date # today, totals', "Critical")
        BY <1>6 DEF MidnightDue
    <2>2. totals' \in Totals /\ totals'.date \in Days
        BY <1>0, <2>1, RolledOverType
    <2> QED BY <1>2, <2>1, <2>2 DEF Durability
<1>7. CASE PersistOther \/ ShutDown
    BY <1>0, <1>7 DEF PersistOther, ShutDown, Ready, StoreNext, Durability
<1>8. CASE ContinueSave \/ SaveFails \/ Kill \/ LosePower
    BY <1>8 DEF ContinueSave, SaveFails, Kill, LosePower, StoreNext
<1>9. CASE Exit \/ UNCHANGED vars
    BY <1>9 DEF Exit, vars
<1> QED
    BY <1>1, <1>3, <1>4, <1>5, <1>6, <1>7, <1>8, <1>9 DEF DailyNext

-----------------------------------------------------------------------------
(* What is stored.                                                         *)

LEMMA DailyInvInit == DailyInit => DailyInv
<1> SUFFICES ASSUME DailyInit PROVE DailyInv
    OBVIOUS
<1> USE DEF DailyInit
<1>1. StoreInv
    BY StoreInvInit
<1>2. /\ totals = [date |-> None, count |-> 0, last |-> None]
      /\ updates = << >> /\ Len(updates) = 0 /\ updates \in Seq(Updates)
      /\ NoState \notin States /\ None \notin Nat
    BY StoreAssumption, DailyAssumption DEF NoTotals
<1>3. DailyTypeOK
    <2>1. StoreTypeOK
        BY <1>1 DEF StoreInv
    <2>2. totals \in Totals
        BY NoTotalsType
    <2> QED BY <2>1, <2>2, <1>2, DailyAssumption DEF DailyTypeOK, Days, Counts
<1>4. DaemonInv /\ SaveInv /\ StoredUnlessDirty
    BY <1>2 DEF DaemonInv, SaveInv, StoredUnlessDirty, StoreInit
<1>5. NeverOverCounts /\ FilesAreHonest
    BY <1>2 DEF NeverOverCounts, FilesAreHonest, Contents, StoreInit, Resting
<1>6. CreditIsCovered
    <2>1. [i \in 1..Len(updates) |-> 0] \in [1..Len(updates) -> Counts]
        BY DailyAssumption DEF Counts
    <2>2. PICK seen \in [1..Len(updates) -> Counts] : TRUE
        BY <2>1
    <2>3. Explains(seen)
        BY <1>2 DEF Explains, IsSample, Credits
    <2> QED BY <2>3 DEF CreditIsCovered
<1> QED BY <1>1, <1>3, <1>4, <1>5, <1>6 DEF DailyInv

\* The steps of the belt, its controller and the clock.
Outside == Walk \/ NewRun \/ Connect \/ Sample \/ Disconnect \/ Midnight \/ Tick \/ Sleep

LEMMA OutsideStep ==
    ASSUME DailyInv, Outside
    PROVE  /\ UNCHANGED << storeVars, daemon, totals, continuous, dirty, saveFailed, accidents >>
           /\ today' >= today
BY DEF Outside, DailyInv, DailyTypeOK, Days, Walk, NewRun, Connect, Sample, Disconnect, Send,
       Midnight, Tick, Sleep, runtime, history, world

\* What `start` has loaded.
LEMMA StartTotals ==
    ASSUME DailyInv, Start
    PROVE  /\ daemon = "down" /\ daemon' = "up" /\ step = "idle"
           /\ totals' \in Totals /\ totals'.date = today /\ totals'.last = None
           /\ step' # "idle" => saving'.state = Saved(totals')
           /\ step' = "idle" => file' = Saved(totals')
           /\ totals'.count <= watched[today]
<1> DEFINE loaded == Loaded(Saved(NoTotals))
           before == [date |-> loaded.date, count |-> loaded.count, last |-> None]
<1>1. /\ daemon = "down" /\ daemon' = "up" /\ step = "idle"
      /\ totals' = RolledOver(before, today)
      /\ PersistIf(before.date # today, totals', "Normal")
    BY Zenon DEF Start
<1>2. today \in Days /\ file \in Whole /\ watched[today] \in Counts /\ None \notin Nat
    BY DailyAssumption DEF DailyInv, DailyTypeOK, StoreTypeOK
<1>3. before \in Totals
    <2>1. CASE file = NoState
        BY <2>1, DailyAssumption DEF Loaded, Saved, NoTotals, Totals, Counts
    <2>2. CASE file \in States
        BY <2>2, StateIsRecord DEF Loaded, Totals
    <2> QED BY <1>2, <2>1, <2>2 DEF Whole
<1>4. /\ totals' \in Totals /\ totals'.date = today
      /\ before.date = today => totals' = before
      /\ before.date # today => totals' = [date |-> today, count |-> 0, last |-> None]
    BY <1>1, <1>2, <1>3, RolledOverType
<1>5. CASE before.date # today
    <2>1. totals'.last = None /\ totals'.count = 0
        BY <1>4, <1>5
    <2>2. step' # "idle" /\ saving'.state = Saved(totals')
        BY <1>1, <1>5 DEF PersistIf, StartSave
    <2> QED BY <1>1, <1>2, <1>4, <2>1, <2>2 DEF Counts
<1>6. CASE before.date = today
    <2>1. file \in States /\ loaded = file
        <3>1. file # NoState
            BY <1>2, <1>6 DEF Loaded, Saved, NoTotals, Days
        <3> QED BY <1>2, <3>1 DEF Loaded, Whole
    <2>2. file = Saved(totals') /\ totals'.count = file.count /\ totals'.last = None
        <3>1. totals' = [date |-> file.date, count |-> file.count, last |-> None]
            BY <1>4, <1>6, <2>1
        <3> QED BY <2>1, <3>1, StateIsRecord DEF Saved
    <2>3. UNCHANGED storeVars
        BY <1>1, <1>6 DEF PersistIf
    <2>4. file.count <= watched[today]
        <3>1. file.date = today
            BY <1>6, <2>1
        <3> QED BY <2>1, <3>1, StateIsRecord DEF DailyInv, NeverOverCounts
    <2> QED BY <1>1, <1>4, <2>2, <2>3, <2>4 DEF storeVars
<1> QED BY <1>5, <1>6

LEMMA UpdateType ==
    ASSUME NEW u \in Updates
    PROVE  u.kind = "Status" => u.day \in Days /\ u.counter \in Counts
BY DEF Updates

\* The runtime takes the oldest update.
LEMMA UpdateTaken ==
    ASSUME DailyTypeOK, updates # << >>, updates' = Tail(updates)
    PROVE  /\ Len(updates) \in Nat \ {0} /\ Head(updates) = updates[1]
           /\ updates' \in Seq(Updates) /\ Len(updates') = Len(updates) - 1
           /\ \A i \in 1..Len(updates) : updates[i] \in Updates
           /\ \A i \in 1..Len(updates') : updates'[i] = updates[i + 1]
<1>1. updates \in Seq(Updates)
    BY DEF DailyTypeOK
<1>2. Len(updates) \in Nat \ {0}
    BY <1>1, EmptySeq
<1> QED BY <1>1, <1>2, HeadTailProperties, ElementOfSeq

\* A sample becomes the last one, and its day is credited with no more than had
\* been watched when it was taken.
LEMMA StatusTotals ==
    ASSUME DailyInv, ReceiveStatus
    PROVE  LET u == updates[1] IN
           /\ IsSample(1) /\ u.day \in Days /\ u.counter \in Counts /\ u.day <= today
           /\ totals' = [date |-> u.day, count |-> totals'.count, last |-> u.counter]
           /\ \A seen \in [1..Len(updates) -> Counts] :
                 Explains(seen) => totals'.count \in 0..seen[1]
<1> DEFINE u == updates[1]
           o == Observed(totals, u.counter, u.day, continuous)
           r == RolledOver(totals, u.day)
           credits == continuous /\ totals.date = u.day /\ totals.last # None
                         /\ u.counter >= totals.last
<1>1. /\ Len(updates) \in Nat \ {0} /\ u \in Updates /\ u.kind = "Status"
      /\ totals' = o
    <2>1. updates # << >> /\ updates' = Tail(updates) /\ DailyTypeOK
        BY DEF ReceiveStatus, DailyInv
    <2>2. Head(updates).kind = "Status"
          /\ totals' = Observed(totals, Head(updates).counter, Head(updates).day, continuous)
        BY DEF ReceiveStatus
    <2> QED BY <2>1, <2>2, UpdateTaken
<1>2. /\ totals \in Totals /\ continuous \in BOOLEAN
      /\ MaxCounter \in Nat /\ None \notin Nat
    BY DailyAssumption DEF DailyInv, DailyTypeOK
<1>3. IsSample(1) /\ u.day \in Days /\ u.counter \in Counts
    BY <1>1, UpdateType DEF IsSample
<1>4. /\ o = [date |-> u.day, count |-> o.count, last |-> u.counter]
      /\ IF credits THEN o.count = totals.count + (u.counter - totals.last)
                    ELSE o.count = r.count
    BY <1>2, <1>3, ObservedTotals
<1>5. /\ totals.date = u.day => r = totals
      /\ totals.date # u.day => r.count = 0
    <2>1. totals.date # u.day => r = [date |-> u.day, count |-> 0, last |-> None]
        BY <1>2, <1>3, RolledOverType
    <2> QED BY <1>2, <1>3, <2>1, RolledOverType
<1>6. PICK before \in [1..Len(updates) -> Counts] : Explains(before)
    BY DEF DailyInv, CreditIsCovered
<1>7. u.day <= today
    BY <1>1, <1>3, <1>6 DEF Explains
<1>8. ASSUME NEW seen \in [1..Len(updates) -> Counts], Explains(seen)
      PROVE  o.count \in 0..seen[1]
    <2>1. /\ seen[1] \in Nat
          /\ totals.date = u.day => totals.count <= seen[1]
          /\ Credits(u.day) => u.counter - totals.last <= seen[1] - totals.count
        BY <1>1, <1>2, <1>3, <1>8 DEF Explains, Counts
    <2>2. CASE credits
        <3>1. /\ totals.count \in Nat /\ totals.last \in Nat /\ u.counter \in Nat
              /\ u.counter - totals.last <= seen[1] - totals.count
              /\ u.counter >= totals.last
            BY <1>2, <1>3, <2>1, <2>2 DEF Totals, Counts, Credits
        <3>2. o.count = totals.count + (u.counter - totals.last)
            BY <1>4, <2>2
        <3> QED BY <2>1, <3>1, <3>2
    <2>3. CASE ~credits
        <3>1. o.count = r.count
            BY <1>4, <2>3
        <3>2. totals.count \in Nat
            BY <1>2 DEF Totals, Counts
        <3> QED BY <1>5, <2>1, <3>1, <3>2
    <2> QED BY <2>2, <2>3
<1> QED BY <1>1, <1>3, <1>4, <1>7, <1>8

\* What is not marked dirty, and did not fail to be saved, is in the file.
LEMMA StoredStep ==
    DailyInv /\ [DailyNext]_vars => DaemonInv' /\ SaveInv' /\ StoredUnlessDirty'
<1> SUFFICES ASSUME DailyInv, [DailyNext]_vars
             PROVE  DaemonInv' /\ SaveInv' /\ StoredUnlessDirty'
    OBVIOUS
<1>0. /\ DaemonInv /\ SaveInv /\ StoredUnlessDirty /\ StoreInv
      /\ totals \in Totals /\ today \in Days /\ None \notin Nat
    BY DailyAssumption DEF DailyInv, DailyTypeOK
<1> USE DEF DaemonInv, SaveInv, StoredUnlessDirty
<1>1. CASE Outside
    <2>1. /\ UNCHANGED << step, saving, file, daemon, totals, continuous, dirty, saveFailed >>
          /\ today' >= today
        BY <1>1, OutsideStep DEF storeVars
    <2>2. daemon = "down" => UNCHANGED << updates, link >>
        BY <1>1 DEF Outside, Walk, NewRun, Connect, Sample, Disconnect, Send, Midnight, Tick,
                    Sleep, world, DailyInv
    <2>3. totals.date # None => totals.date \in Int /\ today \in Int /\ today' \in Int
        <3>1. today' \in Int
            BY <1>0, <1>1 DEF Outside, Walk, NewRun, Connect, Sample, Disconnect, Send, Midnight,
                              Tick, Sleep, world, Days
        <3> QED BY <1>0, <3>1 DEF Totals, Days
    <2> QED BY <1>0, <2>1, <2>2, <2>3
<1>2. CASE Start
    <2>1. today' = today
        BY <1>2 DEF Start, world
    <2> QED BY <1>0, <1>2, <2>1, StartTotals DEF Totals, Days
<1>3. CASE ReceiveStatus
    <2>1. dirty' = TRUE /\ step' = "idle" /\ daemon' = "up" /\ today' = today
        BY <1>0, <1>3 DEF ReceiveStatus, Ready, storeVars, world
    <2>2. totals'.date \in Days /\ totals'.date <= today
        BY <1>3, StatusTotals
    <2> QED BY <1>0, <2>1, <2>2
<1>4. CASE ReceiveDisconnected \/ Reload
    BY <1>0, <1>4 DEF ReceiveDisconnected, Reload, Ready, storeVars, world, history
<1>5. CASE PersistDue \/ Wake
    <2>1. /\ PersistIf(dirty, totals, "Normal") /\ totals' = totals /\ today' = today
          /\ daemon = "up" /\ daemon' = "up" /\ step = "idle" /\ saveFailed' = saveFailed
        BY <1>5 DEF PersistDue, Wake, Ready, world, history
    <2>2. CASE dirty
        <3>1. step' # "idle" /\ saving'.state = Saved(totals)
            BY <2>1, <2>2 DEF PersistIf, StartSave
        <3> QED BY <1>0, <2>1, <3>1
    <2>3. CASE ~dirty
        <3>1. UNCHANGED storeVars
            BY <2>1, <2>3 DEF PersistIf
        <3>2. dirty' = FALSE
            BY <1>5 DEF PersistDue, Wake
        <3> QED BY <1>0, <2>1, <2>3, <3>1, <3>2 DEF storeVars
    <2> QED BY <2>2, <2>3
<1>6. CASE MidnightDue
    <2>1. /\ totals' = RolledOver(totals, today) /\ PersistIf(totals.date # today, totals', "Critical")
          /\ daemon = "up" /\ daemon' = "up" /\ step = "idle" /\ UNCHANGED << saveFailed, dirty, today >>
        BY <1>6 DEF MidnightDue, Ready, world, history
    <2>2. /\ totals'.date = today
          /\ totals.date = today => totals' = totals
        BY <1>0, <2>1, RolledOverType
    <2>3. CASE totals.date # today
        <3>1. step' # "idle" /\ saving'.state = Saved(totals')
            BY <2>1, <2>3 DEF PersistIf, StartSave
        <3> QED BY <1>0, <2>1, <2>2, <3>1 DEF Days
    <2>4. CASE totals.date = today
        <3>1. UNCHANGED storeVars
            BY <2>1, <2>4 DEF PersistIf
        <3> QED BY <1>0, <2>1, <2>2, <2>4, <3>1 DEF storeVars
    <2> QED BY <2>3, <2>4
<1>7. CASE PersistOther \/ ShutDown
    <2>1. /\ step' = "create_dir" /\ saving'.state = Saved(totals)
          /\ UNCHANGED << totals, today >> /\ daemon = "up" /\ daemon' \in {"up", "stopping"}
        BY <1>7 DEF PersistOther, ShutDown, StartSave, Ready, runtime, world
    <2> QED BY <1>0, <2>1
<1>8. CASE ContinueSave
    <2>1. /\ daemon # "down" /\ SaveStep
          /\ UNCHANGED << today, link, updates, daemon, totals, continuous, dirty >>
          /\ saveFailed' = (saveFailed /\ step' # "idle")
        BY <1>8 DEF ContinueSave, world, runtime
    <2>2. step # "idle" /\ saving.state = Saved(totals)
        BY <1>0, <2>1 DEF SaveStep, CreateDirectory, OpenTemporary, WriteAll, SyncAll, Rename,
                          SyncDirectory
    <2>3. /\ step' # "idle" => saving' = saving
          /\ step' = "idle" => file' = saving.state
        <3>1. CASE CreateDirectory \/ OpenTemporary \/ WriteAll \/ SyncAll
            BY <3>1 DEF CreateDirectory, OpenTemporary, WriteAll, SyncAll
        <3>2. CASE Rename
            BY <1>0, <3>2 DEF Rename, ReturnOk, Finish, StoreInv
        <3>3. CASE SyncDirectory
            BY <1>0, <3>3 DEF SyncDirectory, ReturnOk, Finish, StoreInv
        <3> QED BY <2>1, <3>1, <3>2, <3>3 DEF SaveStep
    <2> QED BY <1>0, <2>1, <2>2, <2>3
<1>9. CASE SaveFails
    BY <1>0, <1>9 DEF SaveFails, FailSave, Finish, world, runtime
<1>10. CASE Exit \/ Kill \/ LosePower
    <2>1. step' = "idle" /\ Gone
        BY <1>10 DEF Exit, Kill, LosePower, Killed, PowerLost, Finish, storeVars
    <2> QED BY <2>1 DEF Gone, NoTotals
<1>11. CASE UNCHANGED vars
    BY <1>0, <1>11 DEF vars, storeVars, world, runtime, history
<1> QED
    BY <1>1, <1>2, <1>3, <1>4, <1>5, <1>6, <1>7, <1>8, <1>9, <1>10, <1>11
    DEF DailyNext, Outside

-----------------------------------------------------------------------------
(* What is counted.                                                        *)

\* What was watched is never unwatched.
LEMMA WatchedGrows ==
    DailyInv /\ [DailyNext]_vars =>
        watched' \in [Days -> Counts] /\ \A d \in Days : watched[d] <= watched'[d]
<1> SUFFICES ASSUME DailyInv, [DailyNext]_vars
             PROVE  watched' \in [Days -> Counts] /\ \A d \in Days : watched[d] <= watched'[d]
    OBVIOUS
<1>0. watched \in [Days -> Counts] /\ today \in Days /\ Counts = 0..MaxCounter /\ MaxCounter \in Nat
    BY DailyAssumption DEF DailyInv, DailyTypeOK, Counts
<1>1. CASE Walk
    <2>1. watched[today] < MaxCounter
          /\ watched' = IF link THEN [watched EXCEPT ![today] = @ + 1] ELSE watched
        BY <1>1 DEF Walk
    <2> QED BY <1>0, <2>1
<1>2. CASE UNCHANGED watched
    BY <1>0, <1>2
<1>3. Walk \/ UNCHANGED watched
    BY DEF DailyNext, NewRun, Connect, Sample, Disconnect, Send, Midnight, Tick, Sleep, Start,
           ReceiveStatus, ReceiveDisconnected, PersistDue, MidnightDue, Wake, Reload,
           PersistOther, ContinueSave, ShutDown, Exit, SaveFails, Kill, LosePower, Gone, world,
           vars
<1> QED BY <1>1, <1>2, <1>3

\* The day that is shown is credited with no more than was watched on it.
LEMMA TotalsStep ==
    DailyInv /\ [DailyNext]_vars =>
        /\ totals' \in Totals
        /\ totals'.date # None => totals'.count <= watched[totals'.date]
<1> SUFFICES ASSUME DailyInv, [DailyNext]_vars
             PROVE  /\ totals' \in Totals
                    /\ totals'.date # None => totals'.count <= watched[totals'.date]
    OBVIOUS
<1>0. /\ totals \in Totals /\ today \in Days /\ watched \in [Days -> Counts] /\ None \notin Nat
      /\ totals.date # None => totals.count <= watched[totals.date]
      /\ Counts = 0..MaxCounter /\ MaxCounter \in Nat
    BY DailyAssumption DEF DailyInv, DailyTypeOK, NeverOverCounts, Counts
<1>1. CASE UNCHANGED totals
    BY <1>0, <1>1
<1>2. CASE Start
    BY <1>2, StartTotals
<1>3. CASE ReceiveStatus
    <2> DEFINE u == updates[1]
    <2>1. PICK seen \in [1..Len(updates) -> Counts] : Explains(seen)
        BY DEF DailyInv, CreditIsCovered
    <2>2. /\ IsSample(1) /\ u.day \in Days /\ u.counter \in Counts
          /\ totals' = [date |-> u.day, count |-> totals'.count, last |-> u.counter]
          /\ totals'.count \in 0..seen[1]
        BY <1>3, <2>1, StatusTotals
    <2>3. seen[1] \in Counts /\ seen[1] <= watched[u.day]
        BY <2>1, <2>2 DEF Explains, IsSample
    <2>4. totals'.count \in Counts /\ totals'.count <= watched[u.day]
        BY <1>0, <2>2, <2>3
    <2> QED BY <2>2, <2>4 DEF Totals
<1>4. CASE MidnightDue
    <2>1. totals' = RolledOver(totals, today)
        BY <1>4 DEF MidnightDue
    <2>2. totals' \in Totals /\ (totals' = totals \/ totals' = [date |-> today, count |-> 0, last |-> None])
        BY <1>0, <2>1, RolledOverType
    <2> QED BY <1>0, <2>2
<1>5. CASE totals' = NoTotals
    BY <1>5, NoTotalsType DEF NoTotals
<1> QED
    BY <1>1, <1>2, <1>3, <1>4, <1>5
    DEF DailyNext, Walk, NewRun, Connect, Sample, Disconnect, Send, Midnight, Tick, Sleep,
        ReceiveDisconnected, PersistDue, Wake, Reload, PersistOther, ContinueSave, ShutDown,
        Exit, SaveFails, Kill, LosePower, Gone, runtime, vars

\* What a step of a save puts anywhere was there before, unless the save starts.
LEMMA ContentsStep ==
    StoreInv /\ [StoreNext]_storeVars =>
        \A s \in Contents' \cap States :
            s \in Contents \/ (step' # "idle" /\ s = saving'.state)
<1> SUFFICES ASSUME StoreInv, [StoreNext]_storeVars, NEW s \in Contents' \cap States
             PROVE  s \in Contents \/ (step' # "idle" /\ s = saving'.state)
    OBVIOUS
<1>0. s # NoState /\ s # Torn
    BY StoreAssumption
<1> USE DEF Contents
<1>1. ASSUME NEW t \in States, NEW d \in Durability, StartSave(t, d)
      PROVE  s \in Contents \/ (step' # "idle" /\ s = saving'.state)
    BY <1>1 DEF StartSave
<1>2. CASE CreateDirectory \/ OpenTemporary \/ WriteAll \/ SyncAll
    BY <1>0, <1>2 DEF CreateDirectory, OpenTemporary, WriteAll, SyncAll
<1>3. CASE Rename
    BY <1>0, <1>3 DEF Rename, ReturnOk, Finish, Resting
<1>4. CASE SyncDirectory
    BY <1>0, <1>4 DEF SyncDirectory, ReturnOk, Finish, Resting
<1>5. CASE FailSave \/ Killed
    BY <1>0, <1>5 DEF FailSave, Killed, Finish, Resting
<1>6. CASE PowerLost
    BY <1>0, <1>6 DEF PowerLost, Finish, Resting
<1>7. CASE UNCHANGED storeVars
    BY <1>7 DEF storeVars
<1> QED
    BY <1>1, <1>2, <1>3, <1>4, <1>5, <1>6, <1>7 DEF StoreNext, SaveStep

LEMMA HonestStep ==
    DailyInv /\ [DailyNext]_vars => NeverOverCounts' /\ FilesAreHonest'
<1> SUFFICES ASSUME DailyInv, [DailyNext]_vars PROVE NeverOverCounts' /\ FilesAreHonest'
    OBVIOUS
<1>1. /\ watched \in [Days -> Counts] /\ watched' \in [Days -> Counts]
      /\ \A d \in Days : watched[d] <= watched'[d]
      /\ Counts = 0..MaxCounter /\ MaxCounter \in Nat /\ None \notin Nat
    BY WatchedGrows, DailyAssumption DEF DailyInv, DailyTypeOK, Counts
<1>2. /\ totals' \in Totals
      /\ totals'.date # None => totals'.count <= watched[totals'.date]
    BY TotalsStep
<1>3. totals'.date # None => totals'.count <= watched'[totals'.date]
    <2>1. totals'.date # None => totals'.date \in Days /\ totals'.count \in Counts
        BY <1>2 DEF Totals
    <2> QED BY <1>1, <1>2, <2>1
<1>4. StoreInv /\ [StoreNext]_storeVars /\ StoreInv'
    BY StoreMoves, StoreInvStep DEF DailyInv
<1>5. ASSUME NEW s \in Contents' \cap States
      PROVE  s.count <= watched'[s.date]
    <2>1. s.date \in Days /\ s.count \in Counts
        BY StateIsRecord
    <2>2. CASE s \in Contents
        <3>1. s.count <= watched[s.date]
            BY <2>2 DEF DailyInv, FilesAreHonest
        <3> QED BY <1>1, <2>1, <3>1
    <2>3. CASE step' # "idle" /\ s = saving'.state
        <3>1. s = Saved(totals')
            BY <2>3, StoredStep DEF DaemonInv, SaveInv
        <3>2. s.date = totals'.date /\ s.count = totals'.count
            BY <1>2, <3>1, SavedTotals
        <3>3. s.date # None
            BY <1>1, <2>1 DEF Days
        <3> QED BY <1>3, <3>2, <3>3
    <2> QED BY <1>4, <1>5, <2>2, <2>3, ContentsStep
<1>6. FilesAreHonest'
    BY <1>5 DEF FilesAreHonest
<1>7. \A s \in (onDisk \cup {file})' : s # NoState => s.count <= watched'[s.date]
    <2>1. (onDisk \cup {file})' \subseteq Contents' \cap (States \cup {NoState})
        BY <1>4 DEF StoreInv, StoreTypeOK, Whole, Contents
    <2> QED BY <1>5, <2>1
<1> QED BY <1>3, <1>6, <1>7 DEF NeverOverCounts

LEMMA DailyTypeStep == DailyInv /\ [DailyNext]_vars => DailyTypeOK'
<1> SUFFICES ASSUME DailyInv, [DailyNext]_vars PROVE DailyTypeOK'
    OBVIOUS
<1>0. DailyTypeOK /\ None \notin Nat /\ LastDay \in Nat /\ PersistDelay \in Nat \ {0}
      /\ MaxUpdates \in Nat \ {0} /\ MaxAccidents \in Nat /\ MaxCounter \in Nat
    BY DailyAssumption DEF DailyInv
<1>1. StoreTypeOK' /\ totals' \in Totals /\ watched' \in [Days -> Counts]
    <2>1. StoreInv'
        BY StoreMoves, StoreInvStep DEF DailyInv
    <2> QED BY <2>1, TotalsStep, WatchedGrows DEF StoreInv
<1>2. today' \in Days /\ counter' \in Counts /\ link' \in BOOLEAN
    <2> USE <1>0 DEF DailyTypeOK, Days, Counts
    <2>1. today' = today \/ Midnight
        BY DEF DailyNext, Walk, NewRun, Connect, Sample, Disconnect, Send, Tick, Sleep, Start,
               ReceiveStatus, ReceiveDisconnected, PersistDue, MidnightDue, Wake, Reload,
               PersistOther, ContinueSave, ShutDown, Exit, SaveFails, Kill, LosePower, Gone,
               world, vars
    <2>2. counter' \in {counter, 0} \/ Walk
        BY DEF DailyNext, NewRun, Connect, Sample, Disconnect, Send, Midnight, Tick, Sleep, Start,
               ReceiveStatus, ReceiveDisconnected, PersistDue, MidnightDue, Wake, Reload,
               PersistOther, ContinueSave, ShutDown, Exit, SaveFails, Kill, LosePower, Gone,
               world, vars
    <2>3. link' = link \/ link' = TRUE \/ link' = FALSE
        BY DEF DailyNext, Walk, NewRun, Connect, Sample, Disconnect, Send, Midnight, Tick, Sleep,
               Start, ReceiveStatus, ReceiveDisconnected, PersistDue, MidnightDue, Wake, Reload,
               PersistOther, ContinueSave, ShutDown, Exit, SaveFails, Kill, LosePower, Gone,
               world, vars
    <2>4. today' \in Days
        BY <2>1 DEF Midnight
    <2>5. counter' \in Counts
        BY <2>2 DEF Walk
    <2>6. link' \in BOOLEAN
        BY <2>3
    <2> QED BY <2>4, <2>5, <2>6
<1>3. updates' \in Seq(Updates) /\ Len(updates') <= MaxUpdates
    <2>1. ASSUME NEW u \in Updates, Send(u)
          PROVE  updates' \in Seq(Updates) /\ Len(updates') <= MaxUpdates
        <3>1. updates \in Seq(Updates) /\ Len(updates) < MaxUpdates /\ updates' = Append(updates, u)
            BY <1>0, <2>1 DEF DailyTypeOK, Send
        <3> QED BY <1>0, <3>1, AppendProperties
    <2>2. CASE Sample
        BY <1>0, <2>1, <2>2 DEF Sample, Updates, DailyTypeOK
    <2>3. CASE Disconnect
        BY <2>1, <2>3 DEF Disconnect, Updates
    <2>4. CASE updates # << >> /\ updates' = Tail(updates)
        <3>1. updates' \in Seq(Updates) /\ Len(updates') = Len(updates) - 1
              /\ Len(updates) \in Nat \ {0}
            BY <1>0, <2>4, UpdateTaken
        <3>2. Len(updates) <= MaxUpdates
            BY <1>0 DEF DailyTypeOK
        <3> QED BY <1>0, <3>1, <3>2
    <2>5. CASE updates' = << >>
        BY <1>0, <2>5
    <2>6. CASE UNCHANGED updates
        BY <1>0, <2>6 DEF DailyTypeOK
    <2> QED
        BY <2>2, <2>3, <2>4, <2>5, <2>6
        DEF DailyNext, Walk, NewRun, Connect, Midnight, Tick, Sleep, Start, ReceiveStatus,
            ReceiveDisconnected, PersistDue, MidnightDue, Wake, Reload, PersistOther,
            ContinueSave, ShutDown, Exit, SaveFails, Kill, LosePower, Gone, vars
<1>4. daemon' \in {"down", "up", "stopping"} /\ continuous' \in BOOLEAN /\ dirty' \in BOOLEAN
      /\ slept' \in BOOLEAN
    BY <1>0
    DEF DailyTypeOK, DailyNext, Walk, NewRun, Connect, Sample, Disconnect, Send, Midnight, Tick,
        Sleep, Start, ReceiveStatus, ReceiveDisconnected, PersistDue, MidnightDue, Wake, Reload,
        PersistOther, ContinueSave, ShutDown, Exit, SaveFails, Kill, LosePower, Gone, world,
        runtime, vars
<1>5. persistIn' \in 0..PersistDelay \cup {None}
    <2>1. CASE Tick
        BY <1>0, <2>1 DEF DailyTypeOK, Tick
    <2>2. CASE ReceiveStatus
        BY <1>0, <2>2 DEF DailyTypeOK, ReceiveStatus, Sooner
    <2>3. CASE persistIn' \in {None, persistIn}
        BY <1>0, <2>3 DEF DailyTypeOK
    <2> QED
        BY <2>1, <2>2, <2>3
        DEF DailyNext, Walk, NewRun, Connect, Sample, Disconnect, Send, Midnight, Sleep, Start,
            ReceiveDisconnected, PersistDue, MidnightDue, Wake, Reload, PersistOther,
            ContinueSave, ShutDown, Exit, SaveFails, Kill, LosePower, Gone, runtime, vars
<1>6. midnightOf' \in 0..(LastDay + 1)
    <2>1. midnightOf' \in {midnightOf, today + 1, 0}
        BY DEF DailyNext, Walk, NewRun, Connect, Sample, Disconnect, Send, Midnight, Tick,
               Sleep, Start, ReceiveStatus, ReceiveDisconnected, PersistDue, MidnightDue, Wake,
               Reload, PersistOther, ContinueSave, ShutDown, Exit, SaveFails, Kill, LosePower,
               Gone, runtime, vars
    <2> QED BY <1>0, <2>1 DEF DailyTypeOK, Days
<1>7. saveFailed' \in BOOLEAN
    <2>1. CASE ContinueSave
        BY <2>1, Zenon DEF ContinueSave
    <2>2. CASE ~ContinueSave
        <3>1. saveFailed' = saveFailed \/ saveFailed' = TRUE \/ saveFailed' = FALSE
            BY <2>2
            DEF DailyNext, Walk, NewRun, Connect, Sample, Disconnect, Send, Midnight, Tick,
                Sleep, Start, ReceiveStatus, ReceiveDisconnected, PersistDue, MidnightDue,
                Wake, Reload, PersistOther, ShutDown, Exit, SaveFails, Kill, LosePower, Gone,
                history, vars
        <3> QED BY <1>0, <3>1 DEF DailyTypeOK
    <2> QED BY <2>1, <2>2
<1>8. accidents' \in 0..MaxAccidents
    BY <1>0
    DEF DailyTypeOK, DailyNext, Walk, NewRun, Connect, Sample, Disconnect, Send, Midnight, Tick,
        Sleep, Start, ReceiveStatus, ReceiveDisconnected, PersistDue, MidnightDue, Wake, Reload,
        PersistOther, ContinueSave, ShutDown, Exit, SaveFails, Kill, LosePower, Accident,
        history, vars
<1> QED
    BY <1>1, <1>2, <1>3, <1>4, <1>5, <1>6, <1>7, <1>8 DEF DailyTypeOK

\* Facts about the samples on their way that every step needs.
LEMMA SampleType ==
    ASSUME DailyTypeOK, NEW i \in Int, IsSample(i)
    PROVE  i \in 1..Len(updates) /\ updates[i].day \in Days /\ updates[i].counter \in Counts
BY UpdateType, ElementOfSeq DEF DailyTypeOK, IsSample

\* A step that takes no update and sends none explains the samples as before.
QuietUpdates == UNCHANGED updates

\* What was credited and what is going to be stay, or start again.
QuietTotals ==
    \/ totals' = totals /\ (continuous' => continuous)
    \/ totals'.count = 0 /\ totals'.last = None

LEMMA QuietCover ==
    ASSUME DailyInv, QuietUpdates, QuietTotals, UNCHANGED << today, counter, link, watched >>
    PROVE  CreditIsCovered'
<1>1. PICK seen \in [1..Len(updates) -> Counts] : Explains(seen)
    BY DEF DailyInv, CreditIsCovered
<1>2. \A i \in 1..Len(updates) : seen[i] \in Nat
    BY <1>1, DailyAssumption DEF Counts
<1>3. UNCHANGED << updates, today, counter, link, watched >>
    BY DEF QuietUpdates
<1>4. \A i \in Int : IsSample(i)' <=> IsSample(i)
    BY <1>3 DEF IsSample
<1>5. CASE totals' = totals /\ (continuous' => continuous)
    <2>1. Explains(seen)'
        BY <1>1, <1>3, <1>4, <1>5 DEF Explains, Credits
    <2> QED BY <1>1, <1>3, <2>1 DEF CreditIsCovered
<1>6. CASE totals'.count = 0 /\ totals'.last = None
    <2>1. \A i \in 1..Len(updates) : totals'.count <= seen[i]
        BY <1>2, <1>6
    <2>2. \A i \in 1..Len(updates)' : IsSample(i)' =>
              /\ (updates[i].day <= today)'
              /\ seen[i] <= watched'[updates'[i].day]
              /\ totals'.date = updates'[i].day => totals'.count <= seen[i]
        BY <1>1, <1>3, <1>4, <2>1 DEF Explains
    <2>3. /\ ~(IsSample(1) /\ Credits(updates[1].day))'
          /\ ~(updates = << >> /\ Credits(today))'
        BY <1>6 DEF Credits
    <2>4. Explains(seen)'
        BY <1>1, <1>3, <1>4, <2>2, <2>3 DEF Explains
    <2> QED BY <1>1, <1>3, <2>4 DEF CreditIsCovered
<1> QED BY <1>5, <1>6 DEF QuietTotals

\* What the belt counts while it is connected is watched.
LEMMA WalkCover ==
    ASSUME DailyInv, Walk
    PROVE  CreditIsCovered'
<1>1. PICK seen \in [1..Len(updates) -> Counts] : Explains(seen)
    BY DEF DailyInv, CreditIsCovered
<1>2. /\ DailyTypeOK /\ counter \in Nat /\ today \in Days /\ watched \in [Days -> Counts]
      /\ Days \subseteq Int /\ Counts \subseteq Nat
    BY DailyAssumption DEF DailyInv, DailyTypeOK, Counts, Days
<1>3. /\ counter' = counter + 1
      /\ watched' = IF link THEN [watched EXCEPT ![today] = @ + 1] ELSE watched
      /\ UNCHANGED << today, link, updates, totals, continuous >>
    BY DEF Walk, runtime
<1>4. /\ \A d \in Days : watched[d] \in Nat /\ watched'[d] \in Nat /\ watched[d] <= watched'[d]
      /\ link => watched'[today] = watched[today] + 1
    <2>1. \A d \in Days : watched[d] \in Nat
        BY <1>2
    <2>2. CASE link
        BY <1>2, <1>3, <2>1, <2>2
    <2>3. CASE ~link
        BY <1>2, <1>3, <2>1, <2>3
    <2> QED BY <2>2, <2>3
<1>5. totals.count \in Int /\ (totals.last # None => totals.last \in Int)
    BY <1>2, DailyAssumption DEF DailyTypeOK, Totals, Counts
<1>6. \A i \in Int : IsSample(i) => seen[i] \in Nat /\ updates[i].day \in Days
                                        /\ updates[i].counter \in Nat
    BY <1>1, <1>2, SampleType
<1>7. \A i \in Int : IsSample(i)' <=> IsSample(i)
    BY <1>3 DEF IsSample
<1>8. \A i \in 1..Len(updates)' : IsSample(i)' =>
          /\ (updates[i].day <= today)'
          /\ (seen[i] <= watched'[updates'[i].day])
          /\ (totals.date = updates[i].day => totals.count <= seen[i])'
    BY <1>1, <1>2, <1>3, <1>4, <1>6, <1>7 DEF Explains
<1>9. IsSample(Len(updates))' /\ updates'[Len(updates')].day = today' =>
          link' /\ counter' - updates'[Len(updates')].counter
                      <= watched'[today'] - seen[Len(updates')]
    <2> SUFFICES ASSUME IsSample(Len(updates)), updates[Len(updates)].day = today
                 PROVE  link /\ counter' - updates[Len(updates)].counter
                                  <= watched'[today] - seen[Len(updates)]
        BY <1>3 DEF IsSample
    <2>1. link /\ counter - updates[Len(updates)].counter <= watched[today] - seen[Len(updates)]
        BY <1>1 DEF Explains
    <2>2. Len(updates) \in Int
        BY DEF IsSample
    <2> QED BY <1>2, <1>3, <1>4, <1>6, <2>1, <2>2
<1>10. updates' = << >> /\ Credits(today)' =>
          link' /\ counter' - totals'.last <= watched'[today'] - totals'.count
    BY <1>1, <1>2, <1>3, <1>4, <1>5 DEF Explains, Credits
<1>11. Explains(seen)'
    BY <1>1, <1>3, <1>7, <1>8, <1>9, <1>10 DEF Explains, Credits, IsSample
<1> QED BY <1>1, <1>3, <1>11 DEF CreditIsCovered

\* A new run counts from zero, and a new day has no sample yet.
LEMMA ClockCover ==
    ASSUME DailyInv, NewRun \/ Midnight \/ Connect
    PROVE  CreditIsCovered'
<1>1. PICK seen \in [1..Len(updates) -> Counts] : Explains(seen)
    BY DEF DailyInv, CreditIsCovered
<1>2. /\ DailyTypeOK /\ today \in Int /\ today \in Days /\ watched \in [Days -> Counts]
      /\ counter \in Nat /\ Days \subseteq Int /\ Counts \subseteq Nat
      /\ totals.date # None => totals.date <= today /\ totals.date \in Int
      /\ totals.date # None => totals.count <= watched[totals.date]
      /\ totals.count \in Nat /\ (totals.last # None => totals.last \in Nat)
      /\ watched[today] \in Nat /\ today \in Nat /\ None \notin Nat
    BY DailyAssumption
    DEF DailyInv, DaemonInv, NeverOverCounts, DailyTypeOK, Totals, Counts, Days
<1>3. UNCHANGED << watched, updates, totals, continuous >>
    BY DEF NewRun, Midnight, Connect, runtime
<1>4. \A i \in Int : IsSample(i) => /\ i \in 1..Len(updates) /\ seen[i] \in Nat
                                    /\ updates[i].day \in Int /\ updates[i].counter \in Nat
    BY <1>1, <1>2, SampleType
<1>5. \A i \in Int : IsSample(i)' <=> IsSample(i)
    BY <1>3 DEF IsSample
<1>6. /\ IsSample(Len(updates)) => Len(updates) \in Int
    BY DEF IsSample
<1>7. CASE NewRun
    <2>1. counter' = 0 /\ UNCHANGED << today, link >>
        BY <1>7 DEF NewRun
    <2>2. IsSample(Len(updates)) /\ updates[Len(updates)].day = today =>
              link /\ 0 - updates[Len(updates)].counter <= watched[today] - seen[Len(updates)]
        <3> SUFFICES ASSUME IsSample(Len(updates)), updates[Len(updates)].day = today
                     PROVE  link /\ 0 - updates[Len(updates)].counter
                                        <= watched[today] - seen[Len(updates)]
            OBVIOUS
        <3>1. link /\ seen[Len(updates)] <= watched[today]
            BY <1>1, <1>4, <1>6 DEF Explains
        <3> QED BY <1>2, <1>4, <1>6, <3>1
    <2>3. updates = << >> /\ Credits(today) =>
              link /\ 0 - totals.last <= watched[today] - totals.count
        <3> SUFFICES ASSUME updates = << >>, Credits(today)
                     PROVE  link /\ 0 - totals.last <= watched[today] - totals.count
            OBVIOUS
        <3>1. link /\ totals.last \in Nat /\ totals.count <= watched[today]
            BY <1>1, <1>2 DEF Explains, Credits
        <3> QED BY <1>2, <3>1
    <2>4. Explains(seen)'
        BY <1>1, <1>3, <1>5, <2>1, <2>2, <2>3 DEF Explains, Credits
    <2> QED BY <1>1, <1>3, <2>4 DEF CreditIsCovered
<1>8. CASE Midnight
    <2>1. today' = today + 1 /\ UNCHANGED << counter, link >>
        BY <1>8 DEF Midnight
    <2>2. \A i \in Int : IsSample(i) => updates[i].day <= today' /\ updates[i].day # today'
        BY <1>1, <1>2, <1>4, <2>1 DEF Explains
    <2>3. totals.date # today'
        BY <1>2, <2>1
    <2>4. Explains(seen)'
        BY <1>1, <1>3, <1>5, <1>6, <2>1, <2>2, <2>3 DEF Explains, Credits
    <2> QED BY <1>1, <1>3, <2>4 DEF CreditIsCovered
<1>9. CASE Connect
    <2>1. link' = TRUE /\ UNCHANGED << counter, today >>
        BY <1>9 DEF Connect
    <2>2. Explains(seen)'
        BY <1>1, <1>3, <1>5, <2>1 DEF Explains, Credits
    <2> QED BY <1>1, <1>3, <2>2 DEF CreditIsCovered
<1> QED BY <1>7, <1>8, <1>9

\* A sample has seen what was watched until now; a lost connection sees nothing.
LEMMA SendCover ==
    ASSUME DailyInv, Sample \/ Disconnect
    PROVE  CreditIsCovered'
<1>1. PICK seen \in [1..Len(updates) -> Counts] : Explains(seen)
    BY DEF DailyInv, CreditIsCovered
<1>2. /\ DailyTypeOK /\ today \in Int /\ today \in Days /\ watched \in [Days -> Counts]
      /\ counter \in Nat /\ Days \subseteq Int /\ Counts \subseteq Nat
      /\ totals.date # None => totals.count <= watched[totals.date]
      /\ totals.count \in Nat /\ (totals.last # None => totals.last \in Nat)
      /\ today # None /\ watched[today] \in Nat /\ watched[today] \in Counts
    BY DailyAssumption
    DEF DailyInv, NeverOverCounts, DailyTypeOK, Totals, Counts, Days
<1>3. PICK u \in Updates :
          /\ updates' = Append(updates, u) /\ link
          /\ UNCHANGED << today, counter, watched, totals, continuous >>
          /\ \/ u.kind = "Status" /\ u.counter = counter /\ u.day = today /\ link' = link
             \/ u.kind = "Disconnected"
    <2>1. CASE Sample
        <3>1. [kind |-> "Status", counter |-> counter, day |-> today] \in Updates
            BY DEF DailyInv, DailyTypeOK, Updates
        <3> QED BY <2>1, <3>1 DEF Sample, Send, runtime
    <2>2. CASE Disconnect
        <3>1. [kind |-> "Disconnected"] \in Updates
            BY DEF Updates
        <3> QED BY <2>2, <3>1 DEF Disconnect, Send, runtime
    <2> QED BY <2>1, <2>2
<1>0. PICK n \in Nat : n = Len(updates)
    <2>1. updates \in Seq(Updates)
        BY <1>2 DEF DailyTypeOK
    <2> QED BY <2>1, LenProperties
<1>4. /\ n = Len(updates) /\ Len(updates)' = n + 1
      /\ \A i \in 1..n : updates'[i] = updates[i] /\ updates[i] \in Updates
      /\ updates'[n + 1] = u /\ updates' # << >>
    <2>1. updates \in Seq(Updates)
        BY <1>2 DEF DailyTypeOK
    <2> QED BY <1>0, <1>3, <2>1, AppendProperties, ElementOfSeq
<1>5. PICK w \in [1..n + 1 -> Counts] :
          w = [i \in 1..n + 1 |-> IF i = n + 1 THEN watched[today] ELSE seen[i]]
    <2>1. \A i \in 1..n + 1 : i # n + 1 => seen[i] \in Counts
        BY <1>0, <1>1
    <2>2. [i \in 1..n + 1 |-> IF i = n + 1 THEN watched[today] ELSE seen[i]]
              \in [1..n + 1 -> Counts]
        BY <1>2, <2>1
    <2> QED BY <2>2
<1>6. /\ w[n + 1] = watched[today]
      /\ \A i \in 1..n : w[i] = seen[i] /\ w[i] \in Nat
      /\ w[n + 1] \in Nat
    <2>1. \A i \in 1..n + 1 : w[i] = IF i = n + 1 THEN watched[today] ELSE seen[i]
        BY <1>5
    <2>2. n + 1 \in 1..n + 1 /\ (\A i \in 1..n : i \in 1..n + 1 /\ i # n + 1)
        BY <1>0
    <2>3. \A i \in 1..n + 1 : w[i] \in Nat
        BY <1>2, <1>5
    <2> QED BY <2>1, <2>2, <2>3
<1>7. /\ \A i \in 1..n : IsSample(i)' <=> IsSample(i)
      /\ IsSample(n + 1)' <=> u.kind = "Status"
      /\ \A i \in Int : IsSample(i) => i \in 1..n
      /\ \A i \in Int : IsSample(i)' => i \in 1..n + 1
    BY <1>4 DEF IsSample
<1>8. \A i \in 1..n : IsSample(i) =>
          /\ updates[i].day \in Days /\ updates[i].counter \in Nat
          /\ updates[i].day <= today
          /\ seen[i] <= watched[updates[i].day]
          /\ totals.date = updates[i].day => totals.count <= seen[i]
    <2> SUFFICES ASSUME NEW i \in 1..n, IsSample(i)
                 PROVE  /\ updates[i].day \in Days /\ updates[i].counter \in Nat
                        /\ updates[i].day <= today
                        /\ seen[i] <= watched[updates[i].day]
                        /\ totals.date = updates[i].day => totals.count <= seen[i]
        OBVIOUS
    <2>1. updates[i].day \in Days /\ updates[i].counter \in Nat
        <3>1. i \in Int /\ DailyTypeOK
            BY <1>2
        <3>2. updates[i].day \in Days /\ updates[i].counter \in Counts
            BY <3>1, SampleType
        <3> QED BY <1>2, <3>2
    <2>2. \A k \in 1..Len(updates) : IsSample(k) =>
              /\ updates[k].day <= today
              /\ seen[k] <= watched[updates[k].day]
              /\ totals.date = updates[k].day => totals.count <= seen[k]
        BY <1>1 DEF Explains
    <2> QED BY <1>0, <2>1, <2>2
<1>9. \A i \in 1..n + 1 : IsSample(i)' =>
          /\ updates'[i].day <= today'
          /\ w[i] <= watched'[updates'[i].day]
          /\ totals'.date = updates'[i].day => totals'.count <= w[i]
    <2> SUFFICES ASSUME NEW i \in 1..n + 1, IsSample(i)'
                 PROVE  /\ updates'[i].day <= today
                        /\ w[i] <= watched[updates'[i].day]
                        /\ totals.date = updates'[i].day => totals.count <= w[i]
        BY <1>3
    <2>1. CASE i \in 1..n
        BY <1>4, <1>6, <1>7, <1>8, <2>1
    <2>2. CASE i = n + 1
        <3>1. u.day = today
            BY <1>3, <1>7, <2>2
        <3>2. today # None
            BY <1>2 DEF Days
        <3> QED BY <1>2, <1>4, <1>6, <2>2, <3>1, <3>2
    <2> QED BY <1>4, <2>1, <2>2
<1>10. \A i, j \in 1..n + 1 : i < j /\ IsSample(i)' /\ IsSample(j)' =>
          /\ updates'[i].day <= updates'[j].day
          /\ updates'[i].day = updates'[j].day => w[i] <= w[j]
    <2> SUFFICES ASSUME NEW i \in 1..n + 1, NEW j \in 1..n + 1, i < j, IsSample(i)', IsSample(j)'
                 PROVE  /\ updates'[i].day <= updates'[j].day
                        /\ updates'[i].day = updates'[j].day => w[i] <= w[j]
        OBVIOUS
    <2>1. i \in 1..n
        BY <1>4
    <2>2. CASE j \in 1..n
        BY <1>1, <1>4, <1>6, <1>7, <2>1, <2>2 DEF Explains
    <2>3. CASE j = n + 1
        <3>1. u.day = today
            BY <1>3, <1>7, <2>3
        <3> QED BY <1>4, <1>6, <1>7, <1>8, <2>1, <2>3, <3>1
    <2> QED BY <1>4, <2>2, <2>3
<1>11. \A i \in 1..n + 1 :
          IsSample(i)' /\ IsSample(i + 1)' /\ updates'[i].day = updates'[i + 1].day =>
              updates'[i + 1].counter - updates'[i].counter <= w[i + 1] - w[i]
    <2> SUFFICES ASSUME NEW i \in 1..n + 1, IsSample(i)', IsSample(i + 1)',
                        updates'[i].day = updates'[i + 1].day
                 PROVE  updates'[i + 1].counter - updates'[i].counter <= w[i + 1] - w[i]
        OBVIOUS
    <2>1. i \in 1..n
        BY <1>4, <1>7
    <2>2. CASE i + 1 \in 1..n
        BY <1>1, <1>4, <1>6, <1>7, <2>1, <2>2 DEF Explains
    <2>3. CASE i = n
        <3>1. u.day = today /\ u.counter = counter
            BY <1>3, <1>7, <2>3
        <3>2. counter - updates[n].counter <= watched[today] - seen[n]
            BY <1>1, <1>4, <1>7, <2>1, <2>3, <3>1 DEF Explains
        <3> QED BY <1>4, <1>6, <2>1, <2>3, <3>1, <3>2
    <2> QED BY <1>4, <2>1, <2>2, <2>3
<1>12. IsSample(n + 1)' /\ updates'[n + 1].day = today' =>
          link' /\ counter' - updates'[n + 1].counter <= watched'[today'] - w[n + 1]
    <2> SUFFICES ASSUME IsSample(n + 1)'
                 PROVE  link' /\ counter - updates'[n + 1].counter <= watched[today] - w[n + 1]
        BY <1>3
    <2>1. link' = link /\ u.counter = counter
        BY <1>3, <1>7
    <2> QED BY <1>2, <1>3, <1>4, <1>6, <2>1
<1>13. IsSample(1)' /\ Credits(updates[1].day)' =>
          updates'[1].counter - totals'.last <= w[1] - totals'.count
    <2>1. CASE n = 0
        <3> SUFFICES ASSUME IsSample(1)', Credits(updates[1].day)'
                     PROVE  updates'[1].counter - totals.last <= w[1] - totals.count
            BY <1>3
        <3>1. updates = << >>
            BY <1>0, <1>2, <2>1, EmptySeq DEF DailyTypeOK
        <3>2. u.counter = counter /\ u.day = today /\ updates'[1] = u /\ w[1] = watched[today]
            <4>1. n + 1 = 1
                BY <2>1
            <4>2. updates'[1] = u /\ w[1] = watched[today] /\ u.kind = "Status"
                BY <1>4, <1>6, <1>7, <4>1
            <4> QED BY <1>3, <4>2
        <3>3. Credits(today)
            BY <1>3, <3>2 DEF Credits
        <3> QED BY <1>1, <3>1, <3>2, <3>3 DEF Explains
    <2>2. CASE n # 0
        <3>1. 1 \in 1..n
            BY <1>4, <2>2
        <3>2. updates'[1] = updates[1] /\ w[1] = seen[1] /\ (IsSample(1)' <=> IsSample(1))
            BY <1>4, <1>6, <1>7, <3>1
        <3>3. Credits(updates[1].day)' <=> Credits(updates[1].day)
            BY <1>3, <3>2 DEF Credits
        <3> QED BY <1>1, <1>3, <3>2, <3>3 DEF Explains
    <2> QED BY <2>1, <2>2
<1>14. Explains(w)'
    BY <1>4, <1>9, <1>10, <1>11, <1>12, <1>13 DEF Explains
<1> QED BY <1>4, <1>5, <1>14 DEF CreditIsCovered

\* What a sample is credited with is taken from what it has seen.
LEMMA ReceiveCover ==
    ASSUME DailyInv, ReceiveStatus \/ ReceiveDisconnected
    PROVE  CreditIsCovered'
<1>1. PICK seen \in [1..Len(updates) -> Counts] : Explains(seen)
    BY DEF DailyInv, CreditIsCovered
<1>2. /\ DailyTypeOK /\ Counts \subseteq Nat /\ None \notin Nat
      /\ updates # << >> /\ updates' = Tail(updates)
      /\ UNCHANGED << today, counter, link, watched >>
    BY DailyAssumption DEF DailyInv, ReceiveStatus, ReceiveDisconnected, world, Counts
<1>3. PICK n \in Nat : n = Len(updates) - 1
    <2>1. Len(updates) \in Nat \ {0}
        BY <1>2, UpdateTaken
    <2> QED BY <2>1
<1>4. /\ Len(updates) = n + 1 /\ Len(updates') = n
      /\ \A i \in 1..n : updates'[i] = updates[i + 1]
      /\ \A i \in 1..n + 1 : updates[i] \in Updates
      /\ n = 0 => updates' = << >>
    <2>1. /\ updates' \in Seq(Updates) /\ Len(updates') = n /\ Len(updates) = n + 1
        BY <1>2, <1>3, UpdateTaken
    <2>2. n = 0 => updates' = << >>
        BY <2>1, EmptySeq
    <2> QED BY <1>2, <2>1, <2>2, UpdateTaken
<1>5. PICK w \in [1..n -> Counts] : w = [i \in 1..n |-> seen[i + 1]]
    <2>1. [i \in 1..n |-> seen[i + 1]] \in [1..n -> Counts]
        BY <1>1, <1>4
    <2> QED BY <2>1
<1>6. \A i \in 1..n : w[i] = seen[i + 1] /\ w[i] \in Nat
    BY <1>2, <1>5
<1>7. \A i \in Int : IsSample(i)' <=> i \in 1..n /\ IsSample(i + 1)
    BY <1>4 DEF IsSample
<1>8. \A i \in 1..n + 1 : IsSample(i) => updates[i].day \in Days /\ updates[i].counter \in Nat
    BY <1>2, <1>4, UpdateType DEF IsSample
\* What the runtime has of the update it took.
<1> DEFINE u == updates[1]
<1>9. \/ totals' = totals /\ continuous' = FALSE
      \/ /\ IsSample(1) /\ u.day \in Days /\ u.counter \in Nat
         /\ totals'.date = u.day /\ totals'.last = u.counter
         /\ totals'.count \in 0..seen[1]
    <2>1. CASE ReceiveStatus
        BY <1>1, <1>2, <2>1, StatusTotals
    <2>2. CASE ReceiveDisconnected
        BY <2>2 DEF ReceiveDisconnected
    <2> QED BY <1>2, <2>1, <2>2
<1>10. 1 \in 1..n + 1 /\ seen[1] \in Nat
    <2>1. 1 \in 1..n + 1
        OBVIOUS
    <2> QED BY <1>1, <1>2, <1>4, <2>1
<1>11. \A i \in 1..n : IsSample(i)' =>
          /\ updates'[i].day <= today'
          /\ w[i] <= watched'[updates'[i].day]
          /\ totals'.date = updates'[i].day => totals'.count <= w[i]
    <2> SUFFICES ASSUME NEW i \in 1..n, IsSample(i + 1)
                 PROVE  /\ updates[i + 1].day <= today
                        /\ seen[i + 1] <= watched[updates[i + 1].day]
                        /\ totals'.date = updates[i + 1].day => totals'.count <= seen[i + 1]
        BY <1>2, <1>4, <1>6, <1>7
    <2>1. i + 1 \in 1..n + 1 /\ 1 < i + 1 /\ seen[i + 1] \in Nat
        <3>1. seen[i + 1] \in Nat
            BY <1>6
        <3> QED BY <3>1
    <2>2. /\ updates[i + 1].day <= today
          /\ seen[i + 1] <= watched[updates[i + 1].day]
          /\ totals.date = updates[i + 1].day => totals.count <= seen[i + 1]
        BY <1>1, <1>4, <2>1 DEF Explains
    <2>3. IsSample(1) => (u.day = updates[i + 1].day => seen[1] <= seen[i + 1])
        BY <1>1, <1>4, <1>10, <2>1 DEF Explains
    <2> QED BY <1>9, <1>10, <2>1, <2>2, <2>3
<1>12. \A i, j \in 1..n : i < j /\ IsSample(i)' /\ IsSample(j)' =>
          /\ updates'[i].day <= updates'[j].day
          /\ updates'[i].day = updates'[j].day => w[i] <= w[j]
    <2> SUFFICES ASSUME NEW i \in 1..n, NEW j \in 1..n, i < j, IsSample(i + 1), IsSample(j + 1)
                 PROVE  /\ updates[i + 1].day <= updates[j + 1].day
                        /\ updates[i + 1].day = updates[j + 1].day => seen[i + 1] <= seen[j + 1]
        <3> SUFFICES ASSUME NEW i \in 1..n, NEW j \in 1..n, i < j, IsSample(i)', IsSample(j)'
                     PROVE  /\ updates'[i].day <= updates'[j].day
                            /\ updates'[i].day = updates'[j].day => w[i] <= w[j]
            OBVIOUS
        <3>1. IsSample(i + 1) /\ IsSample(j + 1)
            BY <1>7
        <3>2. updates'[i] = updates[i + 1] /\ updates'[j] = updates[j + 1]
              /\ w[i] = seen[i + 1] /\ w[j] = seen[j + 1]
            BY <1>4, <1>6
        <3> QED BY <3>1, <3>2
    <2>1. i + 1 \in 1..n + 1 /\ j + 1 \in 1..n + 1 /\ i + 1 < j + 1
        OBVIOUS
    <2> QED BY <1>1, <1>4, <2>1 DEF Explains
<1>13. \A i \in 1..n :
          IsSample(i)' /\ IsSample(i + 1)' /\ updates'[i].day = updates'[i + 1].day =>
              updates'[i + 1].counter - updates'[i].counter <= w[i + 1] - w[i]
    <2> SUFFICES ASSUME NEW i \in 1..n, i + 1 \in 1..n, IsSample(i + 1), IsSample(i + 1 + 1),
                        updates[i + 1].day = updates[i + 1 + 1].day
                 PROVE  updates[i + 1 + 1].counter - updates[i + 1].counter
                            <= seen[i + 1 + 1] - seen[i + 1]
        <3> SUFFICES ASSUME NEW i \in 1..n, IsSample(i)', IsSample(i + 1)',
                            updates'[i].day = updates'[i + 1].day
                     PROVE  updates'[i + 1].counter - updates'[i].counter <= w[i + 1] - w[i]
            OBVIOUS
        <3>1. i + 1 \in 1..n /\ IsSample(i + 1) /\ IsSample(i + 1 + 1)
            BY <1>7
        <3>2. updates'[i] = updates[i + 1] /\ updates'[i + 1] = updates[i + 1 + 1]
              /\ w[i] = seen[i + 1] /\ w[i + 1] = seen[i + 1 + 1]
            BY <1>4, <1>6, <3>1
        <3> QED BY <3>1, <3>2
    <2>1. i + 1 \in 1..n + 1
        OBVIOUS
    <2> QED BY <1>1, <1>4, <2>1 DEF Explains
<1>14. IsSample(n)' /\ updates'[n].day = today' =>
          link' /\ counter' - updates'[n].counter <= watched'[today'] - w[n]
    <2> SUFFICES ASSUME n \in 1..n, IsSample(n + 1), updates[n + 1].day = today
                 PROVE  link /\ counter - updates[n + 1].counter <= watched[today] - seen[n + 1]
        BY <1>2, <1>4, <1>6, <1>7
    <2> QED BY <1>1, <1>4 DEF Explains
<1>15. IsSample(1)' /\ Credits(updates[1].day)' =>
          updates'[1].counter - totals'.last <= w[1] - totals'.count
    <2> SUFFICES ASSUME 1 \in 1..n, IsSample(1 + 1), Credits(updates[1].day)'
                 PROVE  updates[1 + 1].counter - totals'.last <= seen[1 + 1] - totals'.count
        BY <1>4, <1>6, <1>7
    <2>1. /\ IsSample(1) /\ u.counter \in Nat /\ totals'.last = u.counter
          /\ u.day = updates[1 + 1].day /\ totals'.count \in 0..seen[1]
        BY <1>4, <1>9 DEF Credits
    <2>2. updates[1 + 1].counter - u.counter <= seen[1 + 1] - seen[1]
        BY <1>1, <1>4, <1>10, <2>1 DEF Explains
    <2>3. updates[1 + 1].counter \in Nat /\ seen[1 + 1] \in Nat
        BY <1>6, <1>8
    <2> QED BY <1>10, <2>1, <2>2, <2>3
<1>16. updates' = << >> /\ Credits(today)' =>
          link' /\ counter' - totals'.last <= watched'[today'] - totals'.count
    <2> SUFFICES ASSUME updates' = << >>, Credits(today)'
                 PROVE  link /\ counter - totals'.last <= watched[today] - totals'.count
        BY <1>2
    <2>1. /\ IsSample(1) /\ u.counter \in Nat /\ totals'.last = u.counter
          /\ u.day = today /\ totals'.count \in 0..seen[1]
        BY <1>2, <1>9 DEF Credits
    <2>2. n = 0
        BY <1>4
    <2>3. link /\ counter - u.counter <= watched[today] - seen[1]
        BY <1>1, <1>4, <2>1, <2>2 DEF Explains
    <2>4. counter \in Nat /\ watched[today] \in Nat
        <3>1. counter \in Counts /\ watched[today] \in Counts
            BY <1>2 DEF DailyTypeOK
        <3> QED BY <1>2, <3>1
    <2> QED BY <1>10, <2>1, <2>3, <2>4
<1>17. Explains(w)'
    BY <1>4, <1>11, <1>12, <1>13, <1>14, <1>15, <1>16 DEF Explains
<1> QED BY <1>4, <1>5, <1>17 DEF CreditIsCovered

\* Nothing is on its way to a daemon that has just started, or is gone.
LEMMA EmptyCover ==
    ASSUME updates' = << >>, ~continuous'
    PROVE  CreditIsCovered'
<1>1. Len(updates') = 0
    OBVIOUS
<1>2. [i \in 1..0 |-> 0] \in [1..0 -> Counts]
    OBVIOUS
<1>3. PICK w \in [1..0 -> Counts] : TRUE
    BY <1>2
<1>4. Explains(w)'
    BY <1>1 DEF Explains, IsSample, Credits
<1> QED BY <1>1, <1>3, <1>4 DEF CreditIsCovered

LEMMA CoverStep == DailyInv /\ [DailyNext]_vars => CreditIsCovered'
<1> SUFFICES ASSUME DailyInv, [DailyNext]_vars PROVE CreditIsCovered'
    OBVIOUS
<1>0. totals \in Totals /\ today \in Days
    BY DEF DailyInv, DailyTypeOK
<1>1. CASE Walk
    BY <1>1, WalkCover
<1>2. CASE NewRun \/ Midnight \/ Connect
    BY <1>2, ClockCover
<1>3. CASE Sample \/ Disconnect
    BY <1>3, SendCover
<1>4. CASE ReceiveStatus \/ ReceiveDisconnected
    BY <1>4, ReceiveCover
<1>5. CASE Start
    <2>1. updates' = << >> /\ ~continuous'
        BY <1>5 DEF Start, DailyInv, DaemonInv
    <2> QED BY <2>1, EmptyCover
<1>6. CASE Exit \/ Kill \/ LosePower
    <2>1. updates' = << >> /\ ~continuous'
        BY <1>6 DEF Exit, Kill, LosePower, Gone
    <2> QED BY <2>1, EmptyCover
<1>7. CASE MidnightDue
    <2>1. UNCHANGED << updates, continuous, today, counter, link, watched >>
          /\ totals' = RolledOver(totals, today)
        BY <1>7 DEF MidnightDue, world
    <2>2. QuietTotals
        <3>1. \/ totals' = totals
              \/ totals' = [date |-> today, count |-> 0, last |-> None]
            BY <1>0, <2>1, RolledOverType
        <3> QED BY <2>1, <3>1 DEF QuietTotals
    <2> QED BY <2>1, <2>2, QuietCover DEF QuietUpdates
<1>8. CASE \/ Tick \/ Sleep \/ PersistDue \/ Wake \/ Reload \/ PersistOther \/ ContinueSave
           \/ ShutDown \/ SaveFails \/ UNCHANGED vars
    <2>1. /\ UNCHANGED << updates, totals, today, counter, link, watched >>
          /\ continuous' => continuous
        BY <1>8
        DEF Tick, Sleep, PersistDue, Wake, Reload, PersistOther, ContinueSave, ShutDown,
            SaveFails, world, runtime, vars
    <2> QED BY <2>1, QuietCover DEF QuietUpdates, QuietTotals
<1> QED
    BY <1>1, <1>2, <1>3, <1>4, <1>5, <1>6, <1>7, <1>8 DEF DailyNext

LEMMA DailyInvStep == DailyInv /\ [DailyNext]_vars => DailyInv'
<1> SUFFICES ASSUME DailyInv, [DailyNext]_vars PROVE DailyInv'
    OBVIOUS
<1>1. StoreInv'
    BY StoreMoves, StoreInvStep DEF DailyInv
<1>2. DailyTypeOK' /\ DaemonInv' /\ SaveInv' /\ StoredUnlessDirty'
    BY DailyTypeStep, StoredStep
<1>3. NeverOverCounts' /\ FilesAreHonest' /\ CreditIsCovered'
    BY HonestStep, CoverStep
<1> QED BY <1>1, <1>2, <1>3 DEF DailyInv

LEMMA DailyInvHolds == DailySpec => []DailyInv
<1> QED BY DailyInvInit, DailyInvStep, PTL DEF DailySpec

-----------------------------------------------------------------------------
\* Every variable always has a value of its kind: no count passes what the belt
\* can count to, no queue its limit.
THEOREM DailyTypeCorrect == DailySpec => []DailyTypeOK
<1>1. DailyInv => DailyTypeOK
    BY DEF DailyInv
<1> QED BY <1>1, DailyInvHolds, PTL

\* No stretch is ever credited twice, to the wrong day, or for a time nobody was
\* watching: whatever the order of samples, lost connections, midnights, sleeps,
\* saves, kills and power losses.
THEOREM NeverOverCounted == DailySpec => []NeverOverCounts
<1>1. DailyInv => NeverOverCounts
    BY DEF DailyInv
<1> QED BY <1>1, DailyInvHolds, PTL

\* Nothing but a save that failed ever leaves the file behind totals that are
\* not marked dirty.
THEOREM AlwaysStoredUnlessDirty == DailySpec => []StoredUnlessDirty
<1>1. DailyInv => StoredUnlessDirty
    BY DEF DailyInv
<1> QED BY <1>1, DailyInvHolds, PTL

\* The daemon, which saves when it starts, at midnight, on its deadlines, when it
\* wakes, for the timer and when it shuts down, keeps a durable state file.
THEOREM DaemonStateIsDurable == DailySpec => ImplementsDurable
<1>1. DailyInit => Durable!DurableInit
    BY DurableStart DEF DailyInit
<1>2. DailyInv /\ [DailyNext]_vars => [Durable!DurableNext]_(Durable!durableVars)
    BY StoreMoves, DurableStep DEF DailyInv
<1> QED BY <1>1, <1>2, DailyInvHolds, PTL
    DEF DailySpec, ImplementsDurable, Durable!DurableSpec

=============================================================================
