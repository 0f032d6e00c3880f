----------------------------- MODULE DaemonsProofs ----------------------------
(***************************************************************************)
(* Proofs about the daemon among others: whoever serves is alone, and what *)
(* streamdeckctl is told holds, for any number of processes and clients,   *)
(* any edits, and any crash.                                               *)
(***************************************************************************)
EXTENDS Daemons, SequenceTheorems, TLAPS

Names == Clients \cup {"config"}

\* The steps at which a process has bound its socket and not removed the path.
Holding == {"restrict", "device", "spawn", "start", "serving", "ending", "abort", "unlink"}

\* The steps at which it has read the state and may still save it.
Reading == {"exists", "connect", "remove", "bind"}
Saving == {"restrict", "device", "spawn", "start", "serving", "ending"}

\* What the path named when a start looked at it was not a daemon.
LookedInv == \A p \in Processes : proc[p].looked \notin Processes

\* Without a race a process that has bound its socket owns the path.
PathInv == \A p \in Processes : proc[p].at \in Holding => raced \/ socketFile = p

\* A request c waits with the process d: in its socket, its queue or with a task.
Queued(d, c) == \E i \in 1..Len(d.queue) : d.queue[i] = c
Owes(d, c) == c \in d.backlog \/ Queued(d, c) \/ c \in d.tasks

\* It waits in one of them only, and once.
Tidy(d) ==
    /\ d.backlog \cap d.tasks = {}
    /\ \A c \in Clients : Queued(d, c) => c \notin d.backlog /\ c \notin d.tasks
    /\ \A i, j \in 1..Len(d.queue) :
          d.queue[i] \in Clients /\ d.queue[i] = d.queue[j] => i = j

TidyInv == \A p \in Processes : Tidy(proc[p])

\* It waits with one process only, the one it was sent to, and nothing was done
\* and said about it yet.
Waits(p, call) ==
    /\ call.carried = 0
    /\ call.outcome \in {None, "timeout"}
    /\ call.phase # "idle"
    /\ call.phase = "waiting" => call.to = p /\ call.outcome = None

OwesInv ==
    /\ \A c \in Clients : \A p, q \in Processes :
          Owes(proc[p], c) /\ Owes(proc[q], c) => p = q
    /\ \A p \in Processes, c \in Clients : Owes(proc[p], c) => Waits(p, client[c])

\* Only a request that changes nothing is handed to a task.
TasksInv == \A p \in Processes : \A c \in proc[p].tasks : client[c].asks = "devices"

\* What a call was told is so.
Truthful(call) ==
    /\ call.carried <= 1
    /\ call.outcome = "ok" => call.carried = 1
    /\ call.outcome \in {"refused", "unreachable", "unanswered"} => call.carried = 0

TruthInv == \A c \in Clients : Truthful(client[c])

\* A process that may save its state holds what is saved, unless it is known
\* not to have read all of it or to have raced.
SavedInv ==
    \A p \in Processes :
        proc[p].at \in Reading \cup Saving => proc[p].behind \/ raced \/ disk \subseteq proc[p].state

\* The steps at which it may hold what it could not save.
Failing == {"serving", "ending", "abort"}
FailedInv == \A p \in Processes : proc[p].failed => proc[p].at \in Failing

DaemonsInv ==
    /\ DaemonsTypeOK
    /\ LookedInv
    /\ PathInv
    /\ TidyInv
    /\ OwesInv
    /\ TasksInv
    /\ TruthInv
    /\ SavedInv
    /\ FailedInv
    /\ AnswersAreKept

-----------------------------------------------------------------------------
(* The requests that wait with a process.                                  *)

LEMMA Distinct ==
    /\ None \notin Outcomes /\ None \notin Processes /\ None \notin Clients
    /\ Stale \notin Processes /\ Stale # None /\ "config" \notin Clients
    /\ MaxEdits \in Nat /\ Kinds \subseteq RequestKinds
BY DaemonsAssumption, OutcomeAssumption

LEMMA Appended ==
    ASSUME NEW q \in Seq(Names), NEW e \in Names
    PROVE  /\ Append(q, e) \in Seq(Names)
           /\ Len(q) \in Nat /\ Len(Append(q, e)) = Len(q) + 1
           /\ \A i \in 1..Len(q) : Append(q, e)[i] = q[i]
           /\ Append(q, e)[Len(q) + 1] = e
BY AppendProperties, LenProperties

LEMMA Taken ==
    ASSUME NEW q \in Seq(Names), q # << >>
    PROVE  /\ Tail(q) \in Seq(Names) /\ Head(q) = q[1] /\ q[1] \in Names
           /\ Len(q) \in Nat \ {0} /\ Len(Tail(q)) = Len(q) - 1
           /\ \A i \in 1..Len(Tail(q)) : Tail(q)[i] = q[i + 1]
<1>1. Len(q) \in Nat \ {0}
    BY EmptySeq, LenProperties
<1>2. /\ Tail(q) \in Seq(Names) /\ Head(q) = q[1] /\ Len(Tail(q)) = Len(q) - 1
      /\ \A i \in 1..Len(Tail(q)) : Tail(q)[i] = q[i + 1]
    BY <1>1, HeadTailProperties
<1>3. q[1] \in Names
    BY <1>1, ElementOfSeq
<1> QED BY <1>1, <1>2, <1>3

\* A process takes an event from its queue.
LEMMA RestTidy ==
    ASSUME NEW d \in Daemon, NEW e \in Daemon, Tidy(d), d.queue # << >>,
           e.queue = Tail(d.queue), e.backlog = d.backlog, e.tasks = d.tasks
    PROVE  /\ Tidy(e)
           /\ \A c : Owes(e, c) => Owes(d, c)
           /\ Head(d.queue) \in Clients =>
                 Owes(d, Head(d.queue)) /\ ~Owes(e, Head(d.queue))
<1> DEFINE q == d.queue
           r == e.queue
<1>1. q \in Seq(Names)
    BY DEF Daemon, Names
<1>2. /\ Head(q) = q[1] /\ Len(q) \in Nat \ {0} /\ Len(r) = Len(q) - 1
      /\ \A i \in 1..Len(r) : r[i] = q[i + 1] /\ i + 1 \in 1..Len(q)
      /\ 1 \in 1..Len(q)
    BY <1>1, Taken
<1> HIDE DEF q, r
<1>3. \A c : Queued(e, c) => Queued(d, c)
    BY <1>2 DEF Queued, q, r
<1>4. \A c : Owes(e, c) => Owes(d, c)
    BY <1>3 DEF Owes
<1>5. \A i, j \in 1..Len(q) : q[i] \in Clients /\ q[i] = q[j] => i = j
    BY DEF Tidy, q
<1>6. \A i, j \in 1..Len(r) : r[i] \in Clients /\ r[i] = r[j] => i = j
    <2> SUFFICES ASSUME NEW i \in 1..Len(r), NEW j \in 1..Len(r), r[i] \in Clients, r[i] = r[j]
                 PROVE  i = j
        OBVIOUS
    <2>1. i + 1 = j + 1
        BY <1>2, <1>5
    <2> QED BY <1>2, <2>1
<1>7. Tidy(e)
    BY <1>3, <1>6 DEF Tidy, r
<1>8. ASSUME q[1] \in Clients
      PROVE  Owes(d, q[1]) /\ ~Owes(e, q[1])
    <2>1. Queued(d, q[1])
        BY <1>2 DEF Queued, q
    <2>2. q[1] \notin d.backlog /\ q[1] \notin d.tasks
        BY <1>8, <2>1 DEF Tidy
    <2>3. ASSUME NEW i \in 1..Len(r), r[i] = q[1]
          PROVE  FALSE
        <3>1. i + 1 \in 1..Len(q) /\ q[i + 1] = q[1] /\ i + 1 # 1
            BY <1>2, <2>3
        <3> QED BY <1>2, <1>5, <1>8, <3>1
    <2> QED BY <2>1, <2>2, <2>3 DEF Owes, Queued, r
<1> QED BY <1>2, <1>4, <1>7, <1>8 DEF q

\* An event that is none of its requests that wait in its queue is queued.
LEMMA AppendTidy ==
    ASSUME NEW d \in Daemon, NEW e \in Daemon, Tidy(d), NEW x \in Names, ~Queued(d, x) \/ x = "config",
           e.queue = Append(d.queue, x), e.backlog = d.backlog \ {x}, e.tasks = d.tasks,
           x \notin d.tasks
    PROVE  Tidy(e) /\ \A c \in Clients : Owes(e, c) => Owes(d, c) \/ c = x
<1> DEFINE q == d.queue
           r == e.queue
<1>1. q \in Seq(Names)
    BY DEF Daemon, Names
<1>2. /\ Len(q) \in Nat /\ Len(r) = Len(q) + 1 /\ r[Len(q) + 1] = x
      /\ \A i \in 1..Len(q) : r[i] = q[i]
    BY <1>1, Appended
<1> HIDE DEF q, r
<1>3. \A i \in 1..Len(r) : i \in 1..Len(q) \/ i = Len(q) + 1
    BY <1>2
<1>4. \A c : Queued(e, c) => Queued(d, c) \/ c = x
    BY <1>2, <1>3 DEF Queued, q, r
<1>5. \A i, j \in 1..Len(q) : q[i] \in Clients /\ q[i] = q[j] => i = j
    BY DEF Tidy, q
<1>6. \A i \in 1..Len(q) : q[i] \in Clients => q[i] # x
    BY Distinct DEF Queued, q
<1>7. \A i, j \in 1..Len(r) : r[i] \in Clients /\ r[i] = r[j] => i = j
    <2> SUFFICES ASSUME NEW i \in 1..Len(r), NEW j \in 1..Len(r), r[i] \in Clients, r[i] = r[j]
                 PROVE  i = j
        OBVIOUS
    <2>1. CASE i \in 1..Len(q) /\ j \in 1..Len(q)
        BY <1>2, <1>5, <2>1
    <2>2. CASE i \in 1..Len(q) /\ j = Len(q) + 1
        BY <1>2, <1>6, <2>2
    <2>3. CASE i = Len(q) + 1 /\ j \in 1..Len(q)
        BY <1>2, <1>6, <2>3
    <2> QED BY <1>3, <2>1, <2>2, <2>3
<1>8. Tidy(e)
    BY <1>4, <1>7 DEF Tidy, r
<1> QED BY <1>4, <1>8 DEF Owes

\* Less waits, in the same order.
LEMMA LessTidy ==
    ASSUME NEW d, NEW e, Tidy(d), e.queue = d.queue,
           e.backlog \subseteq d.backlog, e.tasks \subseteq d.tasks
    PROVE  Tidy(e) /\ \A c : Owes(e, c) => Owes(d, c)
BY DEF Tidy, Owes, Queued

LEMMA OffTidy == Off \in Daemon /\ Tidy(Off) /\ \A c : ~Owes(Off, c)
<1>1. Off \in Daemon
    BY Distinct DEF Off, Daemon, Steps, Defaults
<1>2. Off.queue = << >> /\ Len(Off.queue) = 0 /\ Off.backlog = {} /\ Off.tasks = {}
    BY DEF Off
<1> QED BY <1>1, <1>2 DEF Tidy, Owes, Queued

-----------------------------------------------------------------------------
(* Types.                                                                  *)

LEMMA Typed ==
    ASSUME DaemonsTypeOK
    PROVE  /\ proc \in [Processes -> Daemon]
           /\ client \in [Clients -> Call]
           /\ \A p \in Processes : proc[p] \in Daemon
           /\ \A c \in Clients : client[c] \in Call
           /\ \A p \in Processes : \A d \in Daemon :
                 [proc EXCEPT ![p] = d] \in [Processes -> Daemon]
BY DEF DaemonsTypeOK

\* What a process may become.
LEMMA DaemonTypes ==
    ASSUME NEW d \in Daemon
    PROVE  /\ \A a \in Steps : [d EXCEPT !.at = a] \in Daemon
           /\ Dropping(d) \in Daemon
           /\ [d EXCEPT !.behind = TRUE] \in Daemon
           /\ [d EXCEPT !.behind = FALSE, !.failed = FALSE] \in Daemon
           /\ \A x \in BOOLEAN : [d EXCEPT !.failed = x] \in Daemon
           /\ d.queue # << >> => [d EXCEPT !.queue = Tail(@)] \in Daemon
           /\ \A e \in Names : [d EXCEPT !.queue = Append(@, e)] \in Daemon
           /\ \A c \in Clients : /\ [d EXCEPT !.tasks = @ \cup {c}] \in Daemon
                                 /\ [d EXCEPT !.tasks = @ \ {c}] \in Daemon
                                 /\ [d EXCEPT !.backlog = @ \cup {c}] \in Daemon
                                 /\ [d EXCEPT !.backlog = @ \ {c}] \in Daemon
                                 /\ [d EXCEPT !.state = @ \cup {c}] \in Daemon
<1>1. \A a \in Steps : [d EXCEPT !.at = a] \in Daemon
    BY DEF Daemon
<1>2. Dropping(d) \in Daemon
    <2>1. "unlink" \in Steps
        BY DEF Steps, Ending
    <2> QED BY <2>1, OffTidy DEF Dropping, Daemon
<1>3. /\ [d EXCEPT !.behind = TRUE] \in Daemon
      /\ [d EXCEPT !.behind = FALSE, !.failed = FALSE] \in Daemon
      /\ \A x \in BOOLEAN : [d EXCEPT !.failed = x] \in Daemon
    BY DEF Daemon
<1>4. d.queue \in Seq(Names)
    BY DEF Daemon, Names
<1>5. d.queue # << >> => [d EXCEPT !.queue = Tail(@)] \in Daemon
    BY <1>4, Taken DEF Daemon, Names
<1>6. \A e \in Names : [d EXCEPT !.queue = Append(@, e)] \in Daemon
    BY <1>4, Appended DEF Daemon, Names
<1>7. \A c \in Clients : /\ [d EXCEPT !.tasks = @ \cup {c}] \in Daemon
                         /\ [d EXCEPT !.tasks = @ \ {c}] \in Daemon
                         /\ [d EXCEPT !.backlog = @ \cup {c}] \in Daemon
                         /\ [d EXCEPT !.backlog = @ \ {c}] \in Daemon
                         /\ [d EXCEPT !.state = @ \cup {c}] \in Daemon
    BY DEF Daemon
<1> QED BY <1>1, <1>2, <1>3, <1>5, <1>6, <1>7

LEMMA CallTypes ==
    ASSUME NEW c \in Clients, client[c] \in Call
    PROVE  /\ Done(c) \in Call
           /\ Done(c).phase = "done" /\ Done(c).carried = client[c].carried
           /\ Done(c).outcome = client[c].outcome
           /\ Done(c).asks = IF client[c].asks = "change" THEN "change" ELSE None
           /\ \A o \in Outcomes :
                 LET k == [Done(c) EXCEPT !.outcome = o]
                 IN  k \in Call /\ k.phase = "done" /\ k.carried = client[c].carried
                     /\ k.outcome = o
<1> DEFINE asked == IF client[c].asks = "change" THEN client[c].asks ELSE None
           done == [client[c] EXCEPT !.phase = "done", !.to = None, !.asks = asked]
<1>1. asked \in Kinds \cup {None} /\ asked = IF client[c].asks = "change" THEN "change" ELSE None
    BY DEF Call
<1>2. Done(c) = done
    BY DEF Done, Call
<1> HIDE DEF asked
<1>3. /\ done \in Call /\ done.phase = "done" /\ done.carried = client[c].carried
      /\ done.outcome = client[c].outcome /\ done.asks = asked
    BY <1>1 DEF Call
<1> HIDE DEF done
<1>4. \A o \in Outcomes :
          LET k == [done EXCEPT !.outcome = o]
          IN  k \in Call /\ k.phase = "done" /\ k.carried = client[c].carried /\ k.outcome = o
    BY <1>3 DEF Call
<1> QED BY <1>1, <1>2, <1>3, <1>4

LEMMA ReplyStep ==
    ASSUME DaemonsTypeOK, NEW c \in Clients, client[c].carried = 0, NEW o \in Outcomes, NEW n \in {0, 1},
           Replied(c, o, n)
    PROVE  /\ client' \in [Clients -> Call]
           /\ \A x \in Clients : x # c => client'[x] = client[x]
           /\ client'[c].carried = n /\ client'[c].asks = client[c].asks
           /\ client'[c].outcome = IF client[c].phase = "waiting" THEN o ELSE client[c].outcome
<1> DEFINE said == IF client[c].phase = "waiting" THEN o ELSE client[c].outcome
           k == [client[c] EXCEPT !.outcome = said, !.carried = n]
<1>1. said \in Outcomes \cup {None} /\ n \in 0..2 /\ client[c].carried + n = n
    BY Typed DEF Call
<1>2. client' = [client EXCEPT ![c] = k]
    BY <1>1, Typed DEF Replied, Call
<1> HIDE DEF said
<1>3. k \in Call /\ k.carried = n /\ k.asks = client[c].asks /\ k.outcome = said
    BY <1>1, Typed DEF Call
<1> HIDE DEF k
<1> QED BY <1>2, <1>3, Typed DEF said

\* A process is gone, and with it every call to it.
LEMMA GoneStep ==
    ASSUME DaemonsTypeOK, NEW p \in Processes,
           NEW how \in [Clients -> {"closed", "unanswered"}], Gone(p, how)
    PROVE  /\ proc' = [proc EXCEPT ![p] = Off] /\ proc' \in [Processes -> Daemon]
           /\ client' \in [Clients -> Call]
           /\ \A c \in Clients :
                 \/ client'[c] = client[c]
                 \/ /\ client[c].phase = "waiting" /\ client[c].to = p
                    /\ client'[c].phase = "done" /\ client'[c].carried = client[c].carried
                    /\ client'[c].outcome = how[c]
           /\ socketFile' = IF socketFile = p THEN Stale ELSE socketFile
           /\ raced' = (raced /\ \E q \in Processes \ {p} : proc[q].at # "off")
           /\ raced' \in BOOLEAN
           /\ lost' = lost \cup UnsavedBy(p)
           /\ UNCHANGED << configFile, disk >>
<1>1. proc' = [proc EXCEPT ![p] = Off] /\ proc' \in [Processes -> Daemon]
    BY Typed, OffTidy DEF Gone, Become
<1>2. /\ socketFile' = IF socketFile = p THEN Stale ELSE socketFile
      /\ lost' = lost \cup UnsavedBy(p)
      /\ UNCHANGED << configFile, disk >>
    BY DEF Gone
<1>3. /\ raced' = (raced /\ \E q \in Processes \ {p} : proc[q].at # "off")
    BY DEF Gone, Running
<1>4. raced' \in BOOLEAN
    BY <1>3
<1>5. \A c \in Clients :
          client'[c] = IF client[c].phase = "waiting" /\ client[c].to = p
                         THEN [Done(c) EXCEPT !.outcome = how[c]]
                         ELSE client[c]
    BY DEF Gone
<1>6. \A c \in Clients : how[c] \in Outcomes
    BY DEF Outcomes
<1>7. \A c \in Clients :
          /\ [Done(c) EXCEPT !.outcome = how[c]] \in Call
          /\ [Done(c) EXCEPT !.outcome = how[c]].phase = "done"
          /\ [Done(c) EXCEPT !.outcome = how[c]].carried = client[c].carried
          /\ [Done(c) EXCEPT !.outcome = how[c]].outcome = how[c]
    <2> SUFFICES ASSUME NEW c \in Clients
                 PROVE  /\ [Done(c) EXCEPT !.outcome = how[c]] \in Call
                        /\ [Done(c) EXCEPT !.outcome = how[c]].phase = "done"
                        /\ [Done(c) EXCEPT !.outcome = how[c]].carried = client[c].carried
                        /\ [Done(c) EXCEPT !.outcome = how[c]].outcome = how[c]
        OBVIOUS
    <2> QED BY <1>6, Typed, CallTypes
<1>8. client' \in [Clients -> Call]
    <2>1. \A c \in Clients :
              (IF client[c].phase = "waiting" /\ client[c].to = p
                 THEN [Done(c) EXCEPT !.outcome = how[c]] ELSE client[c]) \in Call
        BY <1>7, Typed
    <2>2. client' = [c \in Clients |->
                        IF client[c].phase = "waiting" /\ client[c].to = p
                          THEN [Done(c) EXCEPT !.outcome = how[c]] ELSE client[c]]
        BY DEF Gone
    <2> HIDE DEF Done
    <2> QED BY <2>1, <2>2
<1>9. \A c \in Clients :
          \/ client'[c] = client[c]
          \/ /\ client[c].phase = "waiting" /\ client[c].to = p
             /\ client'[c].phase = "done" /\ client'[c].carried = client[c].carried
             /\ client'[c].outcome = how[c]
    BY <1>5, <1>7
<1> QED BY <1>1, <1>2, <1>3, <1>4, <1>8, <1>9

-----------------------------------------------------------------------------
(* Requests and their answers.                                             *)

CallsInv == TidyInv /\ OwesInv /\ TasksInv /\ TruthInv

LEMMA CallsNow == DaemonsInv => CallsInv /\ DaemonsTypeOK
BY DEF DaemonsInv, CallsInv

\* No request waits that did not wait there, and the calls of those that do are
\* as they were, but for one that was given up.
LEMMA CallsKept ==
    ASSUME DaemonsInv,
           \A p \in Processes : Tidy(proc'[p]),
           \A p \in Processes, c \in Clients : Owes(proc'[p], c) =>
               /\ Owes(proc[p], c)
               /\ \/ client'[c] = client[c]
                  \/ Waits(p, client'[c]) /\ client'[c].asks = client[c].asks,
           \A p \in Processes : \A c \in proc'[p].tasks :
               c \in proc[p].tasks \/ client[c].asks = "devices",
           \A p \in Processes : proc'[p].tasks \subseteq Clients,
           \A c \in Clients : client'[c] = client[c] \/ Truthful(client'[c])
    PROVE  CallsInv'
<1>1. TidyInv'
    BY DEF TidyInv
<1>2. OwesInv'
    BY DEF DaemonsInv, OwesInv
<1>3. TasksInv'
    <2> SUFFICES ASSUME NEW p \in Processes, NEW c \in proc'[p].tasks
                 PROVE  client'[c].asks = "devices"
        BY DEF TasksInv
    <2>1. c \in Clients /\ Owes(proc'[p], c)
        BY DEF Owes
    <2>2. client[c].asks = "devices"
        BY DEF DaemonsInv, TasksInv
    <2> QED BY <2>1, <2>2
<1>4. TruthInv'
    BY DEF DaemonsInv, TruthInv
<1> QED BY <1>1, <1>2, <1>3, <1>4 DEF CallsInv

\* The same requests wait.
SameWait(p) ==
    /\ proc'[p].backlog = proc[p].backlog
    /\ proc'[p].queue = proc[p].queue
    /\ proc'[p].tasks = proc[p].tasks

LEMMA WaitKept ==
    ASSUME DaemonsInv, \A p \in Processes : SameWait(p), client' = client
    PROVE  CallsInv'
<1>1. \A p \in Processes : Tidy(proc[p]) /\ proc[p].tasks \subseteq Clients
    BY Typed DEF DaemonsInv, TidyInv, Daemon
<1>2. \A p \in Processes : Tidy(proc'[p]) /\ \A c : Owes(proc'[p], c) => Owes(proc[p], c)
    BY <1>1, LessTidy DEF SameWait
<1>3. \A p \in Processes : \A c \in proc'[p].tasks : c \in proc[p].tasks
    BY DEF SameWait
<1>4. \A p \in Processes : proc'[p].tasks \subseteq Clients
    BY <1>1 DEF SameWait
<1> QED BY <1>2, <1>3, <1>4, CallsKept

\* A process goes on as d, and its state is saved or is not.
LEMMA SavedStep ==
    ASSUME DaemonsInv, NEW p \in Processes, NEW d \in Daemon, Saved(p, d)
    PROVE  /\ proc'[p] \in Daemon
           /\ proc'[p].backlog = d.backlog /\ proc'[p].queue = d.queue /\ proc'[p].tasks = d.tasks
           /\ \A q \in Processes : q # p => SameWait(q)
<1>1. proc \in [Processes -> Daemon]
    BY Typed DEF DaemonsInv
<1>2. \A x \in BOOLEAN :
          LET e == [d EXCEPT !.failed = x]
          IN  e \in Daemon /\ e.backlog = d.backlog /\ e.queue = d.queue /\ e.tasks = d.tasks
    BY DEF Daemon
<1>3. LET e == [d EXCEPT !.behind = FALSE, !.failed = FALSE]
      IN  e \in Daemon /\ e.backlog = d.backlog /\ e.queue = d.queue /\ e.tasks = d.tasks
    BY DEF Daemon
<1>4. \A q \in Processes :
          LET e == [proc[q] EXCEPT !.behind = TRUE]
          IN  e.backlog = proc[q].backlog /\ e.queue = proc[q].queue /\ e.tasks = proc[q].tasks
    BY <1>1 DEF Daemon
<1>5. CASE Stores(p, d)
    <2>1. proc'[p] = [d EXCEPT !.behind = FALSE, !.failed = FALSE]
        BY <1>5 DEF Stores
    <2>2. \A q \in Processes : q # p => proc'[q] \in {proc[q], [proc[q] EXCEPT !.behind = TRUE]}
        BY <1>5 DEF Stores
    <2> QED BY <1>3, <1>4, <2>1, <2>2 DEF SameWait
<1>6. CASE Become(p, [d EXCEPT !.failed = ~(d.state \subseteq disk)])
    <2> DEFINE x == ~(d.state \subseteq disk)
    <2>1. x \in BOOLEAN
        OBVIOUS
    <2>2. /\ proc'[p] = [d EXCEPT !.failed = x]
          /\ \A q \in Processes : q # p => proc'[q] = proc[q]
        BY <1>1, <1>6 DEF Become
    <2> HIDE DEF x
    <2> QED BY <1>2, <2>1, <2>2 DEF SameWait
<1> QED BY <1>5, <1>6 DEF Saved

\* The steps at which nothing is received or answered.
LEMMA QuietStep ==
    ASSUME DaemonsInv, NEW p \in Processes, NEW d \in Daemon,
           d.backlog = proc[p].backlog, d.queue = proc[p].queue, d.tasks = proc[p].tasks,
           Become(p, d) \/ Saved(p, d), client' = client
    PROVE  CallsInv'
<1>1. proc \in [Processes -> Daemon]
    BY Typed DEF DaemonsInv
<1>2. ASSUME NEW q \in Processes PROVE SameWait(q)
    <2>1. CASE Become(p, d)
        BY <1>1, <2>1 DEF Become, SameWait
    <2>2. CASE Saved(p, d)
        BY <2>2, SavedStep DEF SameWait
    <2> QED BY <2>1, <2>2
<1> QED BY <1>2, WaitKept

LEMMA GoneCalls ==
    ASSUME DaemonsInv, NEW p \in Processes,
           NEW how \in [Clients -> {"closed", "unanswered"}], Gone(p, how),
           \A c \in Clients : how[c] = "unanswered" => Owes(proc[p], c)
    PROVE  CallsInv'
<1>1. /\ DaemonsTypeOK /\ proc \in [Processes -> Daemon]
      /\ \A q \in Processes : proc[q] \in Daemon
    BY Typed DEF DaemonsInv
<1>2. /\ proc' = [proc EXCEPT ![p] = Off]
      /\ \A c \in Clients :
            \/ client'[c] = client[c]
            \/ /\ client[c].phase = "waiting" /\ client[c].to = p
               /\ client'[c].carried = client[c].carried /\ client'[c].outcome = how[c]
    BY <1>1, GoneStep
<1>3. /\ Tidy(Off) /\ \A c : ~Owes(Off, c) /\ Off.tasks = {}
    BY OffTidy DEF Owes
<1>4. /\ proc'[p] = Off
      /\ \A q \in Processes : q # p => proc'[q] = proc[q]
    BY <1>1, <1>2
<1>5. \A q \in Processes, c \in Clients : Owes(proc'[q], c) =>
          Owes(proc[q], c) /\ client'[c] = client[c]
    <2> SUFFICES ASSUME NEW q \in Processes, NEW c \in Clients, Owes(proc'[q], c)
                 PROVE  Owes(proc[q], c) /\ client'[c] = client[c]
        OBVIOUS
    <2>1. q # p /\ Owes(proc[q], c)
        BY <1>3, <1>4
    <2>2. client[c].phase = "waiting" => client[c].to = q
        BY <2>1 DEF DaemonsInv, OwesInv, Waits
    <2> QED BY <1>2, <2>1, <2>2
<1>6. \A c \in Clients : client'[c] = client[c] \/ Truthful(client'[c])
    <2> SUFFICES ASSUME NEW c \in Clients, client'[c] # client[c]
                 PROVE  Truthful(client'[c])
        OBVIOUS
    <2>1. client'[c].carried = client[c].carried /\ client'[c].outcome = how[c]
        BY <1>2
    <2>2. client[c].carried <= 1
        BY DEF DaemonsInv, TruthInv, Truthful
    <2>3. how[c] \in {"closed", "unanswered"}
        OBVIOUS
    <2>4. how[c] = "unanswered" => client[c].carried = 0
        BY DEF DaemonsInv, OwesInv, Waits
    <2> QED BY <2>1, <2>2, <2>3, <2>4 DEF Truthful
<1>7. \A q \in Processes : Tidy(proc'[q])
    BY <1>3, <1>4 DEF DaemonsInv, TidyInv
<1>8. \A q \in Processes : /\ proc'[q].tasks \subseteq Clients
                           /\ \A c \in proc'[q].tasks : c \in proc[q].tasks
    BY <1>1, <1>3, <1>4 DEF Daemon
<1> QED BY <1>5, <1>6, <1>7, <1>8, CallsKept

\* A process goes on as d, and a request that waited with it may be answered.
LEMMA ServedStep ==
    ASSUME DaemonsInv, NEW p \in Processes, NEW d \in Daemon, proc'[p] = d,
           \A q \in Processes : q # p => SameWait(q),
           Tidy(d), \A c \in Clients : Owes(d, c) => Owes(proc[p], c),
           \A c \in d.tasks : c \in proc[p].tasks \/ client[c].asks = "devices",
           \/ client' = client
           \/ \E c \in Clients, o \in {"ok", "refused"}, n \in {0, 1} :
                 /\ Replied(c, o, n)
                 /\ o = "ok" <=> n = 1
                 /\ Owes(proc[p], c) /\ ~Owes(d, c)
    PROVE  CallsInv'
<1>1. DaemonsTypeOK /\ \A q \in Processes : proc[q] \in Daemon
    BY Typed DEF DaemonsInv
<1>2. \A q \in Processes : Tidy(proc'[q]) /\ \A c \in Clients : Owes(proc'[q], c) => Owes(proc[q], c)
    <2> SUFFICES ASSUME NEW q \in Processes, q # p
                 PROVE  Tidy(proc'[q]) /\ \A c \in Clients : Owes(proc'[q], c) => Owes(proc[q], c)
        OBVIOUS
    <2> QED BY LessTidy DEF DaemonsInv, TidyInv, SameWait
<1>3. \A q \in Processes : /\ proc'[q].tasks \subseteq Clients
                           /\ \A c \in proc'[q].tasks : c \in proc[q].tasks \/ client[c].asks = "devices"
    BY <1>1 DEF SameWait, Daemon
<1>4. CASE client' = client
    BY <1>2, <1>3, <1>4, CallsKept
<1>5. ASSUME NEW c \in Clients, NEW o \in {"ok", "refused"}, NEW n \in {0, 1}, Replied(c, o, n),
             o = "ok" <=> n = 1, Owes(proc[p], c), ~Owes(d, c)
      PROVE  CallsInv'
    <2>1. Waits(p, client[c]) /\ \A q \in Processes : Owes(proc[q], c) => q = p
        BY <1>5 DEF DaemonsInv, OwesInv
    <2>2. client[c].carried = 0 /\ client[c].outcome \in {None, "timeout"} /\ o \in Outcomes
        BY <2>1 DEF Waits, Outcomes
    <2>3. /\ \A x \in Clients : x # c => client'[x] = client[x]
          /\ client'[c].carried = n
          /\ client'[c].outcome \in {o, None, "timeout"}
        BY <1>1, <1>5, <2>2, ReplyStep
    <2>4. \A q \in Processes : ~Owes(proc'[q], c)
        BY <1>2, <1>5, <2>1
    <2>5. Truthful(client'[c])
        BY <1>5, <2>3, Distinct DEF Truthful, Outcomes
    <2>6. \A x \in Clients : client'[x] = client[x] \/ Truthful(client'[x])
        BY <2>3, <2>5
    <2>7. \A q \in Processes, x \in Clients : Owes(proc'[q], x) =>
              Owes(proc[q], x) /\ client'[x] = client[x]
        BY <1>2, <2>3, <2>4
    <2> QED BY <1>2, <1>3, <2>6, <2>7, CallsKept
<1> QED BY <1>4, <1>5

\* A start, a run or an end goes on, or fails.
LEMMA AdvanceCalls ==
    ASSUME DaemonsInv, NEW p \in Processes, Start(p) \/ Advance(p) \/ TakeShutdown(p) \/ Crash(p)
    PROVE  CallsInv'
<1> DEFINE d == proc[p]
<1>1. DaemonsTypeOK /\ d \in Daemon
    BY Typed DEF DaemonsInv
<1>2. Closed \in [Clients -> {"closed", "unanswered"}] /\ \A c \in Clients : Closed[c] # "unanswered"
    BY DEF Closed
<1>3. ASSUME Gone(p, Closed) PROVE CallsInv'
    BY <1>2, <1>3, GoneCalls
<1>4. ASSUME NEW a \in Steps, Become(p, [d EXCEPT !.at = a]) \/ Saved(p, [d EXCEPT !.at = a]),
             client' = client
      PROVE  CallsInv'
    <2>1. /\ [d EXCEPT !.at = a] \in Daemon
          /\ [d EXCEPT !.at = a].backlog = d.backlog /\ [d EXCEPT !.at = a].queue = d.queue
          /\ [d EXCEPT !.at = a].tasks = d.tasks
        BY <1>1, DaemonTypes DEF Daemon
    <2> QED BY <1>4, <2>1, QuietStep
<1>5. ASSUME Become(p, Dropping(d)), client' = client PROVE CallsInv'
    <2>1. /\ Dropping(d) \in Daemon
          /\ Dropping(d).backlog = d.backlog /\ Dropping(d).queue = d.queue
          /\ Dropping(d).tasks = d.tasks
        BY <1>1, DaemonTypes DEF Dropping, Off
    <2> QED BY <1>5, <2>1, QuietStep
<1>6. {"config", "exists", "bind", "connect", "remove", "restrict", "device", "spawn", "start",
       "ending", "abort", "close", "serving", "state"} \subseteq Steps
    BY DEF Steps, Starting, Ending
<1> HIDE DEF d
<1>7. CASE Start(p) \/ TakeShutdown(p) \/ Unlink(p) \/ Shutdown(p) \/ Exists(p)
    BY <1>4, <1>6, <1>7 DEF d, Start, TakeShutdown, Unlink, Shutdown, Exists, Goes, calls
<1>8. CASE StartRuntime(p)
    BY <1>4, <1>6, <1>8 DEF d, StartRuntime
<1>9. CASE OpenDevice(p) \/ AbortTasks(p)
    BY <1>4, <1>5, <1>6, <1>9 DEF d, OpenDevice, AbortTasks, Goes, calls
<1>10. CASE RestrictPath(p) \/ Bind(p) \/ Crash(p)
    BY <1>3, <1>4, <1>6, <1>10 DEF d, RestrictPath, Bind, Crash, Goes, calls
<1>11. CASE LoadConfig(p)
    <2> DEFINE v == IF configFile.valid THEN configFile.version ELSE Defaults
               e == [d EXCEPT !.at = "state", !.config = v]
    <2>1. Become(p, e) /\ client' = client
        BY <1>11 DEF d, LoadConfig, calls
    <2>3. v \in 0..MaxEdits + 1
        BY <1>1, Distinct DEF DaemonsTypeOK, Defaults
    <2> HIDE DEF v
    <2>2. e \in Daemon /\ e.backlog = d.backlog /\ e.queue = d.queue /\ e.tasks = d.tasks
        BY <1>1, <1>6, <2>3 DEF Daemon
    <2> QED BY <2>1, <2>2, QuietStep DEF d
<1>12. CASE LoadState(p)
    <2> DEFINE read == [d EXCEPT !.at = "exists", !.state = disk]
               defaults == [d EXCEPT !.at = "exists", !.state = {}, !.behind = (disk # {})]
    <2>1. (Become(p, read) \/ Become(p, defaults)) /\ client' = client
        BY <1>12 DEF d, LoadState, calls
    <2>2. /\ read \in Daemon /\ read.backlog = d.backlog /\ read.queue = d.queue
          /\ read.tasks = d.tasks
        BY <1>1, <1>6 DEF Daemon, DaemonsTypeOK
    <2>3. /\ defaults \in Daemon /\ defaults.backlog = d.backlog /\ defaults.queue = d.queue
          /\ defaults.tasks = d.tasks
        BY <1>1, <1>6 DEF Daemon
    <2> HIDE DEF read, defaults
    <2> QED BY <2>1, <2>2, <2>3, QuietStep DEF d
<1>13. CASE TakenForStale(p)
    <2> DEFINE e == [d EXCEPT !.at = "remove", !.looked = socketFile]
    <2>1. Become(p, e) /\ client' = client
        BY <1>13 DEF d, TakenForStale, calls
    <2>2. e \in Daemon /\ e.backlog = d.backlog /\ e.queue = d.queue /\ e.tasks = d.tasks
        BY <1>1, <1>6 DEF Daemon, DaemonsTypeOK, d
    <2> QED BY <2>1, <2>2, QuietStep DEF d
<1>14. CASE RemovePath(p)
    <2> DEFINE e == [d EXCEPT !.at = "bind", !.looked = None]
    <2>1. CASE Become(p, e) /\ client' = client
        <3>1. e \in Daemon /\ e.backlog = d.backlog /\ e.queue = d.queue /\ e.tasks = d.tasks
            BY <1>1, <1>6 DEF Daemon, d
        <3> QED BY <2>1, <3>1, QuietStep DEF d
    <2> QED BY <1>3, <1>14, <2>1 DEF d, RemovePath, calls
<1>15. CASE SpawnTasks(p)
    <2>1. PICK works \in BOOLEAN :
              Become(p, [d EXCEPT !.at = "start", !.accepting = TRUE, !.watching = works])
        BY <1>15 DEF d, SpawnTasks
    <2> DEFINE e == [d EXCEPT !.at = "start", !.accepting = TRUE, !.watching = works]
    <2>2. e \in Daemon /\ e.backlog = d.backlog /\ e.queue = d.queue /\ e.tasks = d.tasks
        BY <1>1, <1>6 DEF Daemon, d
    <2>3. client' = client
        BY <1>15 DEF SpawnTasks, calls
    <2> QED BY <2>1, <2>2, <2>3, QuietStep DEF d
<1>16. CASE Close(p)
    <2>1. PICK how \in [Clients -> {"closed", "unanswered"}] :
              /\ \A c \in Clients : how[c] = "unanswered" => c \in d.backlog \cup ToSet(d.queue)
              /\ Gone(p, how)
        BY <1>16 DEF d, Close
    <2>2. ToSet(d.queue) = {d.queue[i] : i \in 1..Len(d.queue)}
        BY <1>1 DEF d, Daemon, ToSet
    <2>3. \A c \in Clients : how[c] = "unanswered" => Owes(d, c)
        BY <2>1, <2>2 DEF Owes, Queued
    <2> QED BY <2>1, <2>3, GoneCalls DEF d
<1> QED BY <1>3, <1>7, <1>8, <1>9, <1>10, <1>11, <1>12, <1>13, <1>14, <1>15, <1>16
        DEF Advance, Connect

\* The runtime takes an event from its queue.
LEMMA TakeCalls ==
    ASSUME DaemonsInv, NEW p \in Processes, Take(p)
    PROVE  CallsInv'
<1> DEFINE d == proc[p]
           e == Rest(p)
           h == Head(d.queue)
<1>1. /\ DaemonsTypeOK /\ proc \in [Processes -> Daemon] /\ d \in Daemon /\ Tidy(d)
      /\ configFile.version \in 0..MaxEdits + 1
    BY Typed, Distinct DEF DaemonsInv, TidyInv, DaemonsTypeOK
<1>2. d.queue # << >> /\ h \in Names
    <2>1. d.queue # << >>
        BY DEF Take, TakeConfigChanged, TakeRequest, TakeReload, TakeStop, TakeChange, TakeDevices,
               Takes
    <2>2. d.queue \in Seq(Names)
        BY <1>1 DEF Daemon, Names
    <2> QED BY <2>1, <2>2, Taken
<1>3. e = [d EXCEPT !.queue = Tail(d.queue)]
    BY <1>1 DEF Rest, Daemon
<1>4. e \in Daemon
    BY <1>1, <1>2, DaemonTypes DEF Rest
<1>5. e.queue = Tail(d.queue) /\ e.backlog = d.backlog /\ e.tasks = d.tasks
    BY <1>1, <1>3 DEF Daemon
<1> HIDE DEF d, e, h
<1>6. \* Whatever becomes of it, with the rest of the queue.
      ASSUME NEW f \in Daemon, f.queue = e.queue, f.backlog = e.backlog, f.tasks = e.tasks
      PROVE  /\ Tidy(f) /\ \A c : Owes(f, c) => Owes(d, c)
             /\ h \in Clients => Owes(d, h) /\ ~Owes(f, h)
    <2> QED BY <1>1, <1>2, <1>5, <1>6, RestTidy DEF d, h
<1>7. /\ Reload(e) \in Daemon /\ Reload(e).queue = e.queue /\ Reload(e).backlog = e.backlog
      /\ Reload(e).tasks = e.tasks
    BY <1>1, <1>4 DEF Reload, Daemon
<1>8. ASSUME NEW f, Become(p, f)
      PROVE  proc'[p] = f /\ \A q \in Processes : q # p => SameWait(q)
    BY <1>1, <1>8 DEF Become, SameWait
<1>9. CASE TakeConfigChanged(p)
    <2>1. Become(p, Reload(e)) /\ client' = client
        BY <1>9 DEF TakeConfigChanged, e, calls
    <2>2. Tidy(Reload(e)) /\ \A c : Owes(Reload(e), c) => Owes(d, c)
        BY <1>6, <1>7
    <2>3. \A c \in Reload(e).tasks : c \in d.tasks
        BY <1>5, <1>7
    <2> QED BY <1>7, <1>8, <2>1, <2>2, <2>3, ServedStep DEF d
<1>10. ASSUME NEW c \in Clients, TakeReload(p, c) PROVE CallsInv'
    <2>1. /\ Become(p, Reload(e)) /\ c = h
          /\ \E o \in {"ok", "refused"}, n \in {0, 1} : Replied(c, o, n) /\ (o = "ok" <=> n = 1)
        <3>1. Become(p, Reload(e)) /\ c = h /\ (Replied(c, "ok", 1) \/ Replied(c, "refused", 0))
            BY <1>10 DEF TakeReload, e, Takes, h, d
        <3>2. "ok" # "refused"
            OBVIOUS
        <3> QED BY <3>1, <3>2
    <2>2. /\ Tidy(Reload(e)) /\ \A x : Owes(Reload(e), x) => Owes(d, x)
          /\ Owes(d, c) /\ ~Owes(Reload(e), c)
        BY <1>6, <1>7, <2>1
    <2>3. \A x \in Reload(e).tasks : x \in d.tasks
        BY <1>5, <1>7
    <2> QED BY <1>7, <1>8, <2>1, <2>2, <2>3, ServedStep DEF d
<1>11. ASSUME NEW c \in Clients, TakeStop(p, c) PROVE CallsInv'
    <2> DEFINE f == [e EXCEPT !.at = "ending"]
    <2>1. Become(p, f) /\ c = h /\ Replied(c, "ok", 1)
        BY <1>11 DEF TakeStop, e, Takes, h, d
    <2>2. f \in Daemon /\ f.queue = e.queue /\ f.backlog = e.backlog /\ f.tasks = e.tasks
        BY <1>4 DEF Daemon, Steps, Ending
    <2> HIDE DEF f
    <2>3. /\ Tidy(f) /\ (\A x : Owes(f, x) => Owes(d, x)) /\ Owes(d, c) /\ ~Owes(f, c)
        BY <1>6, <2>1, <2>2
    <2>4. \A x \in f.tasks : x \in d.tasks
        BY <1>5, <2>2
    <2> QED BY <1>8, <2>1, <2>2, <2>3, <2>4, ServedStep DEF d
<1>12. ASSUME NEW c \in Clients, TakeChange(p, c) PROVE CallsInv'
    <2> DEFINE f == [e EXCEPT !.state = @ \cup {c}]
    <2>1. Saved(p, f) /\ c = h /\ Replied(c, "ok", 1)
        BY <1>12 DEF TakeChange, e, Takes, h, d
    <2>2. f \in Daemon /\ f.queue = e.queue /\ f.backlog = e.backlog /\ f.tasks = e.tasks
        BY <1>4 DEF Daemon
    <2> HIDE DEF f
    <2> DEFINE g == proc'[p]
    <2>3. /\ g \in Daemon /\ g.queue = e.queue /\ g.backlog = e.backlog /\ g.tasks = e.tasks
          /\ \A q \in Processes : q # p => SameWait(q)
        BY <2>1, <2>2, SavedStep
    <2> HIDE DEF g
    <2>4. /\ Tidy(g) /\ (\A x : Owes(g, x) => Owes(d, x)) /\ Owes(d, c) /\ ~Owes(g, c)
        BY <1>6, <2>1, <2>3
    <2>5. \A x \in g.tasks : x \in d.tasks
        BY <1>5, <2>3
    <2>6. proc'[p] = g
        BY DEF g
    <2> QED BY <2>1, <2>3, <2>4, <2>5, <2>6, ServedStep DEF d
<1>13. ASSUME NEW c \in Clients, TakeDevices(p, c) PROVE CallsInv'
    <2> DEFINE f == [e EXCEPT !.tasks = @ \cup {c}]
    <2>1. Become(p, f) /\ c = h /\ client' = client /\ client[c].asks = "devices"
        BY <1>13 DEF TakeDevices, e, Takes, h, d, calls
    <2>2. /\ f \in Daemon /\ f.queue = e.queue /\ f.backlog = e.backlog
          /\ f.tasks = e.tasks \cup {c}
        BY <1>4 DEF Daemon
    <2>3. /\ Tidy(e) /\ (\A x : Owes(e, x) => Owes(d, x)) /\ Owes(d, c) /\ ~Owes(e, c)
        BY <1>4, <1>6, <2>1
    <2> HIDE DEF f
    <2>4. Tidy(f) /\ \A x \in Clients : Owes(f, x) => Owes(d, x)
        BY <2>2, <2>3 DEF Tidy, Owes, Queued
    <2>5. \A x \in f.tasks : x \in d.tasks \/ client[x].asks = "devices"
        BY <1>5, <2>1, <2>2
    <2> QED BY <1>8, <2>1, <2>2, <2>4, <2>5, ServedStep DEF d
<1> QED BY <1>9, <1>10, <1>11, <1>12, <1>13 DEF Take, TakeRequest

LEMMA HandleCalls ==
    ASSUME DaemonsInv, NEW p \in Processes, NEW c \in Clients, Handle(p, c) \/ TaskReplies(p, c)
    PROVE  CallsInv'
<1> DEFINE d == proc[p]
           less == [d EXCEPT !.backlog = @ \ {c}]
           queued == [less EXCEPT !.queue = Append(@, c)]
           told == [d EXCEPT !.tasks = @ \ {c}]
<1>1. /\ DaemonsTypeOK /\ proc \in [Processes -> Daemon] /\ d \in Daemon /\ Tidy(d)
      /\ d.queue \in Seq(Names) /\ c \in Names
    BY Typed DEF DaemonsInv, TidyInv, Daemon, Names
<1>2. /\ less \in Daemon /\ less.backlog = d.backlog \ {c} /\ less.queue = d.queue
      /\ less.tasks = d.tasks
    BY <1>1, DaemonTypes DEF Daemon
<1>3. /\ told \in Daemon /\ told.backlog = d.backlog /\ told.queue = d.queue
      /\ told.tasks = d.tasks \ {c}
    BY <1>1, DaemonTypes DEF Daemon
<1> HIDE DEF less, told
<1>4. /\ queued \in Daemon /\ queued.backlog = d.backlog \ {c} /\ queued.tasks = d.tasks
      /\ queued.queue = Append(d.queue, c)
    <2>1. queued \in Daemon
        BY <1>1, <1>2, DaemonTypes
    <2> QED BY <1>2, <2>1 DEF Daemon
<1> HIDE DEF d, queued
<1>5. ASSUME NEW f, Become(p, f)
      PROVE  proc'[p] = f /\ \A q \in Processes : q # p => SameWait(q)
    BY <1>1, <1>5 DEF Become, SameWait
<1>6. CASE TaskReplies(p, c)
    <2>1. c \in d.tasks /\ Become(p, told) /\ Replied(c, "ok", 1)
        BY <1>6 DEF TaskReplies, d, told
    <2>2. /\ Tidy(told) /\ \A x : Owes(told, x) => Owes(d, x)
          /\ \A x \in told.tasks : x \in d.tasks
        BY <1>1, <1>3, LessTidy
    <2>3. Owes(d, c) /\ ~Owes(told, c)
        BY <1>1, <1>3, <2>1 DEF Tidy, Owes, Queued
    <2> QED BY <1>3, <1>5, <2>1, <2>2, <2>3, ServedStep DEF d
<1>7. CASE Handle(p, c)
    <2>1. c \in d.backlog
        BY <1>7 DEF Handle, d
    <2>2. Owes(d, c) /\ ~Queued(d, c) /\ c \notin d.tasks
        BY <1>1, <2>1 DEF Owes, Tidy
    <2>3. CASE Become(p, less) /\ Replied(c, "refused", 0)
        <3>1. /\ Tidy(less) /\ \A x : Owes(less, x) => Owes(d, x)
              /\ \A x \in less.tasks : x \in d.tasks
            BY <1>1, <1>2, LessTidy
        <3>2. ~Owes(less, c)
            BY <1>2, <2>2 DEF Owes, Queued
        <3>3. "refused" # "ok" /\ 0 # 1
            OBVIOUS
        <3> QED BY <1>2, <1>5, <2>2, <2>3, <3>1, <3>2, <3>3, ServedStep DEF d
    <2>4. CASE Become(p, queued) /\ client' = client
        <3>1. Tidy(queued) /\ \A x \in Clients : Owes(queued, x) => Owes(d, x) \/ x = c
            BY <1>1, <1>4, <2>2, AppendTidy
        <3>2. \A x \in queued.tasks : x \in d.tasks
            BY <1>4
        <3> QED BY <1>4, <1>5, <2>2, <2>4, <3>1, <3>2, ServedStep DEF d
    <2> QED BY <1>7, <2>3, <2>4 DEF Handle, d, less, queued
<1> QED BY <1>6, <1>7

\* Nobody waits for a request that was not sent yet.
LEMMA SendCalls ==
    ASSUME DaemonsInv, NEW c \in Clients, NEW kind \in Kinds, Send(c, kind)
    PROVE  CallsInv'
<1>1. /\ DaemonsTypeOK /\ proc \in [Processes -> Daemon] /\ client \in [Clients -> Call]
      /\ \A p \in Processes : proc[p] \in Daemon /\ Tidy(proc[p])
    BY Typed DEF DaemonsInv, TidyInv
<1>2. \A p \in Processes : ~Owes(proc[p], c)
    BY DEF Send, DaemonsInv, OwesInv, Waits
<1>3. /\ \A x \in Clients : x # c => client'[x] = client[x]
      /\ client'[c].carried = 0
      /\ client'[c].outcome \in {None, "unreachable"}
    BY <1>1 DEF Send, NoCall
<1>4. Truthful(client'[c])
    BY <1>3, Distinct DEF Truthful, Outcomes
<1>5. CASE ~Live
    <2>1. proc' = proc
        BY <1>5 DEF Send
    <2>2. \A p \in Processes, x \in Clients : Owes(proc'[p], x) =>
              Owes(proc[p], x) /\ client'[x] = client[x]
        BY <1>2, <1>3, <2>1
    <2>3. \A p \in Processes : Tidy(proc'[p]) /\ proc'[p].tasks \subseteq Clients
        BY <1>1, <2>1 DEF Daemon
    <2>4. \A x \in Clients : client'[x] = client[x] \/ Truthful(client'[x])
        BY <1>3, <1>4
    <2>5. \A p \in Processes : \A x \in proc'[p].tasks : x \in proc[p].tasks
        BY <2>1
    <2> QED BY <2>2, <2>3, <2>4, <2>5, CallsKept
<1>6. CASE Live
    <2> DEFINE s == socketFile
               d == proc[s]
               e == [d EXCEPT !.backlog = @ \cup {c}]
    <2>1. /\ s \in Processes /\ Become(s, e)
          /\ client'[c].to = s /\ client'[c].phase = "waiting" /\ client'[c].outcome = None
        BY <1>1, <1>6 DEF Send, NoCall, Live
    <2>2. /\ e.backlog = d.backlog \cup {c} /\ e.queue = d.queue /\ e.tasks = d.tasks
        BY <1>1, <2>1 DEF Daemon
    <2> HIDE DEF d, e, s
    <2>3. proc'[s] = e /\ \A q \in Processes : q # s => proc'[q] = proc[q]
        BY <1>1, <2>1 DEF Become
    <2>4. Tidy(d) /\ ~Owes(d, c) /\ d.tasks \subseteq Clients
        BY <1>1, <1>2, <2>1 DEF d, Daemon
    <2>5. Tidy(e) /\ \A x \in Clients : Owes(e, x) => Owes(d, x) \/ x = c
        BY <2>2, <2>4 DEF Tidy, Owes, Queued
    <2>6. ASSUME NEW q \in Processes, NEW x \in Clients, Owes(proc'[q], x)
          PROVE  \/ q = s /\ x = c
                 \/ Owes(proc[q], x) /\ x # c
        BY <1>2, <2>3, <2>5, <2>6 DEF d
    <2>7. TidyInv'
        BY <1>1, <2>3, <2>5 DEF TidyInv
    <2>8. OwesInv'
        <3>1. Waits(s, client'[c])
            BY <1>3, <2>1 DEF Waits
        <3>2. \A q \in Processes, x \in Clients : Owes(proc'[q], x) => Waits(q, client'[x])
            BY <1>3, <2>6, <3>1 DEF DaemonsInv, OwesInv
        <3>3. \A x \in Clients : \A p, q \in Processes :
                  Owes(proc'[p], x) /\ Owes(proc'[q], x) => p = q
            BY <2>6 DEF DaemonsInv, OwesInv
        <3> QED BY <3>2, <3>3 DEF OwesInv
    <2>9. TasksInv'
        <3> SUFFICES ASSUME NEW q \in Processes, NEW x \in proc'[q].tasks
                     PROVE  client'[x].asks = "devices"
            BY DEF TasksInv
        <3>1. x \in proc[q].tasks /\ x \in Clients
            BY <1>1, <2>2, <2>3 DEF d, Daemon
        <3>2. x # c
            BY <1>2, <3>1 DEF Owes
        <3> QED BY <1>3, <3>1, <3>2 DEF DaemonsInv, TasksInv
    <2>10. TruthInv'
        BY <1>3, <1>4 DEF DaemonsInv, TruthInv
    <2> QED BY <2>7, <2>8, <2>9, <2>10 DEF CallsInv
<1> QED BY <1>5, <1>6

LEMMA ClientCalls ==
    ASSUME DaemonsInv, NEW c \in Clients, Answered(c) \/ GivesUp(c)
    PROVE  CallsInv'
<1>1. /\ DaemonsTypeOK /\ client \in [Clients -> Call] /\ client[c] \in Call
      /\ \A p \in Processes : Tidy(proc[p]) /\ proc[p].tasks \subseteq Clients
    BY Typed DEF DaemonsInv, TidyInv, Daemon
<1>2. proc' = proc /\ \A x \in Clients : x # c => client'[x] = client[x]
    BY <1>1 DEF Answered, GivesUp
<1>3. Truthful(client[c])
    BY DEF DaemonsInv, TruthInv
<1>4. CASE Answered(c)
    <2>1. client'[c] = Done(c) /\ client[c].phase = "waiting" /\ client[c].outcome # None
        BY <1>1, <1>4 DEF Answered
    <2>2. Truthful(Done(c))
        BY <1>1, <1>3, CallTypes DEF Truthful
    <2>3. \A p \in Processes : ~Owes(proc[p], c)
        BY <2>1 DEF DaemonsInv, OwesInv, Waits
    <2> QED BY <1>1, <1>2, <2>1, <2>2, <2>3, CallsKept
<1>5. CASE GivesUp(c)
    <2>1. /\ client'[c].phase = "done" /\ client'[c].outcome = "timeout"
          /\ client'[c].carried = client[c].carried /\ client'[c].asks = client[c].asks
        BY <1>1, <1>5 DEF GivesUp, Call
    <2>2. Truthful(client'[c])
        BY <1>3, <2>1 DEF Truthful
    <2>3. \A p \in Processes : Owes(proc[p], c) => Waits(p, client'[c])
        BY <2>1 DEF DaemonsInv, OwesInv, Waits
    <2>4. \A p \in Processes, x \in Clients : Owes(proc'[p], x) =>
              /\ Owes(proc[p], x)
              /\ client'[x] = client[x] \/ (Waits(p, client'[x]) /\ client'[x].asks = client[x].asks)
        BY <1>2, <2>1, <2>3
    <2>5. \A x \in Clients : client'[x] = client[x] \/ Truthful(client'[x])
        BY <1>2, <2>2
    <2> QED BY <1>1, <1>2, <2>4, <2>5, CallsKept
<1> QED BY <1>4, <1>5

LEMMA EditCalls ==
    ASSUME DaemonsInv, Edit
    PROVE  CallsInv'
<1>1. /\ DaemonsTypeOK /\ proc \in [Processes -> Daemon]
      /\ \A p \in Processes : proc[p] \in Daemon /\ Tidy(proc[p])
    BY Typed DEF DaemonsInv, TidyInv
<1>2. ASSUME NEW p \in Processes
      PROVE  /\ Tidy(proc'[p]) /\ proc'[p].tasks = proc[p].tasks
             /\ \A c \in Clients : Owes(proc'[p], c) => Owes(proc[p], c)
    <2> DEFINE d == proc[p]
               told == [d EXCEPT !.queue = Append(@, "config"), !.missed = FALSE]
               not == [d EXCEPT !.missed = (@ \/ d.at \in Starting \ {"config"})]
    <2>1. d \in Daemon /\ Tidy(d) /\ proc'[p] = IF d.watching THEN told ELSE not
        BY <1>1 DEF Edit
    <2>2. CASE d.watching
        <3>1. d.queue \in Seq(Names) /\ "config" \in Names
            BY <2>1 DEF Daemon, Names
        <3>2. Append(d.queue, "config") \in Seq(Names)
            BY <3>1, Appended
        <3>3. /\ told \in Daemon /\ told.queue = Append(d.queue, "config")
              /\ told.backlog = d.backlog /\ told.tasks = d.tasks
            BY <2>1, <3>2 DEF Daemon, Names
        <3>4. "config" \notin d.backlog /\ "config" \notin d.tasks /\ d.backlog = d.backlog \ {"config"}
            BY <2>1, Distinct DEF Daemon
        <3> HIDE DEF told
        <3>5. Tidy(told) /\ \A c \in Clients : Owes(told, c) => Owes(d, c) \/ c = "config"
            BY <2>1, <3>1, <3>3, <3>4, AppendTidy
        <3> QED BY <2>1, <2>2, <3>3, <3>5, Distinct
    <2>3. CASE ~d.watching
        <3>1. not.queue = d.queue /\ not.backlog = d.backlog /\ not.tasks = d.tasks
            BY <2>1 DEF Daemon
        <3> HIDE DEF not
        <3> QED BY <2>1, <2>3, <3>1, LessTidy
    <2> QED BY <2>2, <2>3
<1>3. client' = client
    BY DEF Edit, calls
<1>4. \A p \in Processes : proc'[p].tasks \subseteq Clients
    BY <1>1, <1>2 DEF Daemon
<1> QED BY <1>2, <1>3, <1>4, CallsKept

LEMMA CallsStep == DaemonsInv /\ [DaemonsNext]_vars => CallsInv'
<1> SUFFICES ASSUME DaemonsInv, [DaemonsNext]_vars PROVE CallsInv'
    OBVIOUS
<1>1. CASE UNCHANGED vars
    BY <1>1, CallsNow, WaitKept DEF vars, SameWait
<1>2. ASSUME NEW p \in Processes, SavesAgain(p) PROVE CallsInv'
    BY <1>2, QuietStep, Typed DEF SavesAgain, DaemonsInv
<1> QED BY <1>1, <1>2, AdvanceCalls, TakeCalls, HandleCalls, SendCalls, ClientCalls, EditCalls
        DEF DaemonsNext

-----------------------------------------------------------------------------
(* Processes and the files they share.                                     *)

FilesInv ==
    /\ proc \in [Processes -> Daemon]
    /\ socketFile \in Processes \cup {Stale, None}
    /\ disk \subseteq Clients
    /\ raced \in BOOLEAN
    /\ lost \subseteq Clients
    /\ LookedInv
    /\ PathInv
    /\ SavedInv
    /\ FailedInv

LEMMA FilesNow == DaemonsInv => FilesInv
BY DEF DaemonsInv, DaemonsTypeOK, FilesInv

\* What is saved, or with a process that could not save it, stays so, or counts as lost.
NothingForgotten == disk \cup lost \cup HeldUnsaved \subseteq disk' \cup lost' \cup HeldUnsaved'

FilesHold == FilesInv' /\ NothingForgotten

\* The same of the state is held.
SameState(e, d) == e.behind = d.behind /\ e.failed = d.failed /\ e.state = d.state

LEMMA Remembered ==
    ASSUME disk \cup lost \subseteq disk' \cup lost',
           \A q \in Processes : proc[q].failed =>
               \/ proc[q].state \subseteq disk' \cup lost'
               \/ proc'[q].failed /\ proc[q].state \subseteq proc'[q].state
    PROVE  NothingForgotten
BY DEF NothingForgotten, HeldUnsaved

\* A process goes on, and the files stay; what it drops without having saved it is lost.
LEMMA MoveFiles ==
    ASSUME FilesInv, NEW p \in Processes, NEW e \in Daemon, Become(p, e),
           UNCHANGED << socketFile, disk, raced >>,
           lost' = lost \/ lost' = lost \cup UnsavedBy(p),
           e.looked \notin Processes,
           e.at \in Holding => proc[p].at \in Holding,
           e.at \in Reading \cup Saving =>
               \/ e.behind \/ disk \subseteq e.state
               \/ /\ proc[p].at \in Reading \cup Saving
                  /\ e.behind = proc[p].behind /\ proc[p].state \subseteq e.state,
           e.failed => e.at \in Failing,
           proc[p].failed =>
               \/ e.failed /\ proc[p].state \subseteq e.state
               \/ proc[p].state \subseteq disk \cup lost'
    PROVE  FilesHold
<1>1. /\ proc' \in [Processes -> Daemon] /\ proc'[p] = e
      /\ \A q \in Processes : q # p => proc'[q] = proc[q]
    BY DEF FilesInv, Become
<1>2. LookedInv'
    BY <1>1 DEF FilesInv, LookedInv
<1>3. PathInv'
    BY <1>1 DEF FilesInv, PathInv
<1>4. SavedInv'
    BY <1>1 DEF FilesInv, SavedInv
<1>5. FailedInv'
    BY <1>1 DEF FilesInv, FailedInv
<1>6. lost' \subseteq Clients /\ lost \subseteq lost'
    <2>1. UnsavedBy(p) \subseteq Clients
        BY DEF FilesInv, UnsavedBy, Daemon
    <2> QED BY <2>1 DEF FilesInv
<1>7. NothingForgotten
    BY <1>1, <1>6, Remembered
<1> QED BY <1>1, <1>2, <1>3, <1>4, <1>5, <1>6, <1>7 DEF FilesInv, FilesHold

\* A process stores what it holds.
LEMMA StoreFiles ==
    ASSUME FilesInv, NEW p \in Processes, NEW d \in Daemon, Stores(p, d),
           UNCHANGED << socketFile, raced >>,
           proc[p].at \in Saving, d.at \in Holding,
           d.looked = proc[p].looked, proc[p].state \subseteq d.state
    PROVE  FilesHold /\ disk' = d.state
<1> DEFINE e == [d EXCEPT !.behind = FALSE, !.failed = FALSE]
<1>1. /\ proc \in [Processes -> Daemon] /\ disk' = d.state
      /\ lost' = lost \cup (IF proc[p].behind \/ raced THEN disk \ disk' ELSE {})
    BY DEF FilesInv, Stores
<1>2. /\ e \in Daemon /\ e.at = d.at /\ e.looked = d.looked /\ e.state = d.state
      /\ ~e.behind /\ ~e.failed
    BY DEF Daemon
<1>3. \A q \in Processes : proc'[q] =
          IF q = p THEN e
          ELSE IF proc[q].at \in Reading /\ ~(d.state \subseteq proc[q].state)
                 THEN [proc[q] EXCEPT !.behind = TRUE]
                 ELSE proc[q]
    BY DEF Stores, Reading
<1> HIDE DEF e
<1>4. \A q \in Processes : [proc[q] EXCEPT !.behind = TRUE] \in Daemon
    BY <1>1, DaemonTypes
<1>5. proc' \in [Processes -> Daemon]
    <2>1. \A q \in Processes : proc'[q] \in Daemon
        BY <1>1, <1>2, <1>3, <1>4
    <2>2. proc' = [q \in Processes |-> proc'[q]]
        BY DEF Stores
    <2> QED BY <2>1, <2>2
<1>6. \A q \in Processes :
          LET f == [proc[q] EXCEPT !.behind = TRUE]
          IN  /\ f.at = proc[q].at /\ f.looked = proc[q].looked /\ f.behind
              /\ f.state = proc[q].state /\ f.failed = proc[q].failed
    BY <1>1 DEF Daemon
<1>7. \A q \in Processes : q # p =>
          /\ proc'[q].at = proc[q].at /\ proc'[q].looked = proc[q].looked
          /\ proc'[q].state = proc[q].state /\ proc'[q].failed = proc[q].failed
          /\ proc[q].at \in Reading => proc'[q].behind \/ disk' \subseteq proc'[q].state
    BY <1>1, <1>3, <1>6
<1>8. proc'[p] = e /\ proc[p].at \in Holding
    BY <1>3 DEF Saving, Holding
<1>9. LookedInv'
    BY <1>2, <1>7, <1>8 DEF FilesInv, LookedInv
<1>10. PathInv'
    BY <1>2, <1>7, <1>8 DEF FilesInv, PathInv
<1>11. SavedInv'
    <2> SUFFICES ASSUME NEW q \in Processes, proc'[q].at \in Reading \cup Saving, ~raced
                 PROVE  proc'[q].behind \/ disk' \subseteq proc'[q].state
        BY DEF SavedInv
    <2>1. CASE q = p
        BY <1>1, <1>2, <1>8, <2>1
    <2>2. CASE q # p /\ proc[q].at \in Reading
        BY <1>7, <2>2
    <2>3. CASE q # p /\ proc[q].at \notin Reading
        \* Another that has bound the socket: there is none.
        <3>1. proc[q].at \in Holding
            BY <1>7, <2>3 DEF Saving, Holding
        <3> QED BY <1>8, <2>3, <3>1 DEF FilesInv, PathInv
    <2> QED BY <2>1, <2>2, <2>3
<1>12. FailedInv'
    BY <1>2, <1>7, <1>8 DEF FilesInv, FailedInv
<1>13. disk \cup lost \subseteq disk' \cup lost'
    <2>1. proc[p].behind \/ raced \/ disk \subseteq proc[p].state
        BY DEF FilesInv, SavedInv
    <2> QED BY <1>1, <2>1
<1>14. NothingForgotten
    <2>1. proc[p].state \subseteq disk'
        BY <1>1
    <2> QED BY <1>7, <1>13, <2>1, Remembered
<1>15. disk' \subseteq Clients /\ lost' \subseteq Clients
    BY <1>1 DEF FilesInv, Daemon
<1> QED BY <1>1, <1>5, <1>9, <1>10, <1>11, <1>12, <1>14, <1>15 DEF FilesInv, FilesHold

\* A process saves what it holds, or fails to, and holds it.
LEMMA SaveFiles ==
    ASSUME FilesInv, NEW p \in Processes, NEW d \in Daemon, Saved(p, d),
           UNCHANGED << socketFile, raced >>,
           proc[p].at \in Saving, d.at \in Failing,
           d.looked = proc[p].looked, d.behind = proc[p].behind, proc[p].state \subseteq d.state
    PROVE  FilesHold /\ d.state \subseteq disk' \cup HeldUnsaved'
<1>1. Failing \subseteq Holding /\ Saving \subseteq Holding
    BY DEF Failing, Holding, Saving
<1>2. CASE Stores(p, d)
    BY <1>1, <1>2, StoreFiles
<1>3. CASE /\ Become(p, [d EXCEPT !.failed = ~(d.state \subseteq disk)])
           /\ UNCHANGED << disk, lost >>
    <2> DEFINE x == ~(d.state \subseteq disk)
               e == [d EXCEPT !.failed = x]
    <2>1. x \in BOOLEAN /\ Become(p, e)
        BY <1>3
    <2>2. x <=> ~(d.state \subseteq disk)
        OBVIOUS
    <2> HIDE DEF x
    <2>3. /\ e \in Daemon /\ e.at = d.at /\ e.looked = d.looked /\ e.behind = d.behind
          /\ e.failed = x /\ e.state = d.state
        BY <2>1, DaemonTypes DEF Daemon
    <2> HIDE DEF e
    <2>4. e.looked \notin Processes
        BY <2>3 DEF FilesInv, LookedInv
    <2>5. FilesHold
        BY <1>1, <1>3, <2>1, <2>2, <2>3, <2>4, MoveFiles
    <2>6. proc'[p] = e
        BY <2>1 DEF FilesInv, Become
    <2>7. d.state \subseteq disk' \cup HeldUnsaved'
        BY <1>3, <2>2, <2>3, <2>6 DEF HeldUnsaved
    <2> QED BY <2>5, <2>7
<1> QED BY <1>2, <1>3 DEF Saved

LEMMA GoneFiles ==
    ASSUME DaemonsInv, NEW p \in Processes,
           NEW how \in [Clients -> {"closed", "unanswered"}], Gone(p, how)
    PROVE  FilesHold
<1>1. FilesInv /\ DaemonsTypeOK
    BY FilesNow DEF DaemonsInv
<1>2. /\ proc' = [proc EXCEPT ![p] = Off] /\ proc' \in [Processes -> Daemon]
      /\ socketFile' = IF socketFile = p THEN Stale ELSE socketFile
      /\ raced' = (raced /\ \E q \in Processes \ {p} : proc[q].at # "off")
      /\ raced' \in BOOLEAN /\ lost' = lost \cup UnsavedBy(p) /\ disk' = disk
    BY <1>1, GoneStep
<1>3. /\ proc'[p] = Off /\ Off.at = "off" /\ Off.looked = None /\ ~Off.failed
      /\ \A q \in Processes : q # p => proc'[q] = proc[q]
    BY <1>1, <1>2 DEF FilesInv, Off
<1>4. "off" \notin Holding /\ "off" \notin Reading \cup Saving
    BY DEF Holding, Reading, Saving
<1>5. ASSUME NEW q \in Processes, q # p, proc[q].at # "off"
      PROVE  raced' = raced
    <2>1. \E r \in Processes \ {p} : proc[r].at # "off"
        BY <1>5
    <2> QED BY <1>1, <1>2, <2>1 DEF FilesInv
<1>6. LookedInv'
    BY <1>1, <1>3, Distinct DEF FilesInv, LookedInv
<1>7. PathInv'
    <2> SUFFICES ASSUME NEW q \in Processes, proc'[q].at \in Holding
                 PROVE  raced' \/ socketFile' = q
        BY DEF PathInv
    <2>1. q # p /\ proc[q].at \in Holding /\ proc[q].at # "off"
        BY <1>3, <1>4
    <2>2. raced \/ socketFile = q
        BY <1>1, <2>1 DEF FilesInv, PathInv
    <2> QED BY <1>2, <1>5, <2>1, <2>2
<1>8. SavedInv'
    <2> SUFFICES ASSUME NEW q \in Processes, proc'[q].at \in Reading \cup Saving
                 PROVE  proc'[q].behind \/ raced' \/ disk' \subseteq proc'[q].state
        BY DEF SavedInv
    <2>1. q # p /\ proc[q].at \in Reading \cup Saving /\ proc[q].at # "off" /\ proc'[q] = proc[q]
        BY <1>3, <1>4
    <2>2. proc[q].behind \/ raced \/ disk \subseteq proc[q].state
        BY <1>1, <2>1 DEF FilesInv, SavedInv
    <2> QED BY <1>2, <1>5, <2>1, <2>2
<1>9. socketFile' \in Processes \cup {Stale, None}
    BY <1>1, <1>2 DEF FilesInv
<1>10. FailedInv'
    BY <1>1, <1>3 DEF FilesInv, FailedInv
<1>11. lost' \subseteq Clients
    BY <1>1, <1>2 DEF FilesInv, UnsavedBy, Daemon
<1>12. NothingForgotten
    <2>1. proc[p].failed => proc[p].state \subseteq disk' \cup lost'
        BY <1>2 DEF UnsavedBy
    <2> QED BY <1>2, <1>3, <2>1, Remembered
<1> QED BY <1>1, <1>2, <1>6, <1>7, <1>8, <1>9, <1>10, <1>11, <1>12 DEF FilesInv, FilesHold

\* The three steps that change the path.
LEMMA RemoveFiles ==
    ASSUME FilesInv, NEW p \in Processes, RemovePath(p), socketFile # None
    PROVE  FilesHold
<1> DEFINE e == [proc[p] EXCEPT !.at = "bind", !.looked = None]
<1>1. /\ proc[p] \in Daemon /\ proc[p].at = "remove" /\ Become(p, e) /\ socketFile' = None
      /\ raced' = (raced \/ (Live /\ socketFile # proc[p].looked))
      /\ UNCHANGED << disk, lost >>
    BY DEF RemovePath, FilesInv, calls
<1>2. /\ e \in Daemon /\ e.at = "bind" /\ e.looked = None /\ e.state = proc[p].state
      /\ e.behind = proc[p].behind /\ e.failed = proc[p].failed
    BY <1>1 DEF Daemon, Steps, Starting
<1> HIDE DEF e
<1>3. /\ proc' \in [Processes -> Daemon] /\ proc'[p] = e
      /\ \A q \in Processes : q # p => proc'[q] = proc[q]
    BY <1>1, <1>2 DEF FilesInv, Become
<1>4. LookedInv'
    BY <1>2, <1>3, Distinct DEF FilesInv, LookedInv
<1>5. raced' \in BOOLEAN /\ (raced => raced')
    BY <1>1
<1>6. ASSUME ~raced' PROVE socketFile \notin Processes
    <2>1. proc[p].looked \notin Processes
        BY DEF FilesInv, LookedInv
    <2> QED BY <1>1, <1>6, <2>1 DEF Live
<1>7. PathInv'
    <2> SUFFICES ASSUME NEW q \in Processes, proc'[q].at \in Holding, ~raced'
                 PROVE  FALSE
        BY <1>5 DEF PathInv
    <2>1. proc[q].at \in Holding
        BY <1>2, <1>3 DEF Holding
    <2> QED BY <1>5, <1>6, <2>1 DEF FilesInv, PathInv
<1>8. SavedInv'
    <2>1. "remove" \in Reading
        BY DEF Reading
    <2> QED BY <1>1, <1>2, <1>3, <1>5, <2>1 DEF FilesInv, SavedInv
<1>9. FailedInv' /\ NothingForgotten
    <2>1. ~proc[p].failed
        BY <1>1 DEF FilesInv, FailedInv, Failing
    <2> QED BY <1>1, <1>2, <1>3, <2>1, Remembered DEF FilesInv, FailedInv
<1> QED BY <1>1, <1>3, <1>4, <1>5, <1>7, <1>8, <1>9 DEF FilesInv, FilesHold

LEMMA BindFiles ==
    ASSUME FilesInv, NEW p \in Processes, Bind(p), socketFile = None
    PROVE  FilesHold
<1> DEFINE e == [proc[p] EXCEPT !.at = "restrict"]
<1>1. /\ proc[p] \in Daemon /\ proc[p].at = "bind" /\ Become(p, e) /\ socketFile' = p
      /\ UNCHANGED << disk, lost, raced >>
    BY DEF Bind, FilesInv, calls
<1>2. /\ e \in Daemon /\ e.at = "restrict" /\ e.looked = proc[p].looked /\ e.state = proc[p].state
      /\ e.behind = proc[p].behind /\ e.failed = proc[p].failed
    BY <1>1 DEF Daemon, Steps, Starting
<1> HIDE DEF e
<1>3. /\ proc' \in [Processes -> Daemon] /\ proc'[p] = e
      /\ \A q \in Processes : q # p => proc'[q] = proc[q]
    BY <1>1, <1>2 DEF FilesInv, Become
<1>4. LookedInv'
    BY <1>2, <1>3 DEF FilesInv, LookedInv
<1>5. PathInv'
    BY <1>1, <1>3, Distinct DEF FilesInv, PathInv
<1>6. SavedInv'
    <2>1. "bind" \in Reading
        BY DEF Reading
    <2> QED BY <1>1, <1>2, <1>3, <2>1 DEF FilesInv, SavedInv
<1>7. FailedInv' /\ NothingForgotten
    <2>1. ~proc[p].failed
        BY <1>1 DEF FilesInv, FailedInv, Failing
    <2> QED BY <1>1, <1>2, <1>3, <2>1, Remembered DEF FilesInv, FailedInv
<1> QED BY <1>1, <1>3, <1>4, <1>5, <1>6, <1>7 DEF FilesInv, FilesHold

LEMMA UnlinkFiles ==
    ASSUME FilesInv, NEW p \in Processes, Unlink(p)
    PROVE  FilesHold
<1> DEFINE e == [proc[p] EXCEPT !.at = "close"]
<1>1. /\ proc[p] \in Daemon /\ proc[p].at = "unlink" /\ Become(p, e) /\ socketFile' = None
      /\ UNCHANGED << disk, lost, raced >>
    BY DEF Unlink, FilesInv, Goes, calls
<1>2. e \in Daemon /\ e.at = "close" /\ e.looked = proc[p].looked /\ e.failed = proc[p].failed
    BY <1>1 DEF Daemon, Steps, Ending
<1> HIDE DEF e
<1>3. /\ proc' \in [Processes -> Daemon] /\ proc'[p] = e
      /\ \A q \in Processes : q # p => proc'[q] = proc[q]
    BY <1>1, <1>2 DEF FilesInv, Become
<1>4. LookedInv'
    BY <1>2, <1>3 DEF FilesInv, LookedInv
<1>5. "unlink" \in Holding /\ "close" \notin Holding \cup Reading \cup Saving
    BY DEF Holding, Reading, Saving
<1>6. PathInv'
    BY <1>1, <1>2, <1>3, <1>5 DEF FilesInv, PathInv
<1>7. SavedInv'
    BY <1>1, <1>2, <1>3, <1>5 DEF FilesInv, SavedInv
<1>8. FailedInv' /\ NothingForgotten
    <2>1. ~proc[p].failed
        BY <1>1 DEF FilesInv, FailedInv, Failing
    <2> QED BY <1>1, <1>2, <1>3, <2>1, Remembered DEF FilesInv, FailedInv
<1> QED BY <1>1, <1>3, <1>4, <1>6, <1>7, <1>8 DEF FilesInv, FilesHold

\* A process that goes on and keeps what it holds.
LEMMA SteadyFiles ==
    ASSUME DaemonsInv, NEW p \in Processes, NEW e \in Daemon, Become(p, e),
           UNCHANGED << socketFile, disk, raced, lost >>,
           e.looked \notin Processes,
           SameState(e, proc[p]),
           e.at \in Holding => proc[p].at \in Holding,
           e.at \in Reading \cup Saving => proc[p].at \in Reading \cup Saving,
           proc[p].at \in Failing => e.at \in Failing
    PROVE  FilesHold
<1>1. FilesInv /\ (proc[p].failed => proc[p].at \in Failing)
    BY FilesNow DEF FilesInv, FailedInv
<1> QED BY <1>1, MoveFiles DEF SameState

LEMMA AdvanceFiles ==
    ASSUME DaemonsInv, NEW p \in Processes, Start(p) \/ Advance(p) \/ TakeShutdown(p) \/ Crash(p)
    PROVE  FilesHold
<1> DEFINE d == proc[p]
<1>1. /\ FilesInv /\ d \in Daemon /\ d.looked \notin Processes
      /\ socketFile \in Processes \cup {Stale, None} /\ disk \subseteq Clients
      /\ configFile.version \in 0..MaxEdits + 1
    BY FilesNow, Distinct DEF FilesInv, LookedInv, DaemonsInv, DaemonsTypeOK
<1>2. ASSUME Gone(p, Closed) PROVE FilesHold
    BY <1>2, GoneFiles DEF Closed
<1>3. \A a \in Steps :
          LET e == [d EXCEPT !.at = a]
          IN  e \in Daemon /\ e.at = a /\ e.looked = d.looked /\ SameState(e, d)
    BY <1>1 DEF Daemon, SameState
<1>4. {"config", "exists", "bind", "connect", "remove", "restrict", "device", "spawn", "start",
       "ending", "abort", "close", "serving", "state", "unlink"} \subseteq Steps
    BY DEF Steps, Starting, Ending
<1>5. ASSUME NEW a \in Steps, Become(p, [d EXCEPT !.at = a]),
             UNCHANGED << socketFile, disk, raced, lost >>,
             a \in Holding => d.at \in Holding,
             a \in Reading \cup Saving => d.at \in Reading \cup Saving,
             d.at \in Failing => a \in Failing
      PROVE  FilesHold
    BY <1>1, <1>3, <1>5, SteadyFiles
<1>6. ASSUME Become(p, Dropping(d)), UNCHANGED << socketFile, disk, raced >>,
             (lost' = lost /\ ~d.failed) \/ lost' = lost \cup UnsavedBy(p),
             d.at \in Holding
      PROVE  FilesHold
    <2>1. /\ Dropping(d) \in Daemon /\ Dropping(d).at = "unlink" /\ Dropping(d).looked = None
          /\ ~Dropping(d).failed
        BY <1>1, DaemonTypes DEF Dropping, Off
    <2>3. d.failed => d.state \subseteq disk \cup lost'
        BY <1>6 DEF UnsavedBy
    <2>2. "unlink" \notin Reading \cup Saving
        BY DEF Reading, Saving
    <2> QED BY <1>1, <1>6, <2>1, <2>2, <2>3, MoveFiles, Distinct
<1> USE DEF Holding, Reading, Saving, Failing
<1> HIDE DEF d
<1>7. d.failed => d.at \in Failing
    BY <1>1 DEF d, FilesInv, FailedInv
<1>8. CASE Start(p)
    BY <1>4, <1>5, <1>8 DEF d, Start, Goes, files, calls
<1>9. CASE TakeShutdown(p)
    BY <1>4, <1>5, <1>9 DEF d, TakeShutdown, Goes, files, calls
<1>10. CASE Exists(p)
    BY <1>4, <1>5, <1>10 DEF d, Exists, Goes, files, calls
<1>11. CASE OpenDevice(p)
    BY <1>4, <1>5, <1>6, <1>11, <1>7 DEF d, OpenDevice, Goes, files, calls
<1>12. CASE AbortTasks(p)
    BY <1>4, <1>6, <1>12 DEF d, AbortTasks, files
<1>13. CASE RestrictPath(p)
    BY <1>2, <1>4, <1>5, <1>13 DEF d, RestrictPath, Goes, files, calls
<1>14. CASE Bind(p)
    BY <1>1, <1>2, <1>14, BindFiles DEF Bind
<1>15. CASE Unlink(p)
    BY <1>1, <1>15, UnlinkFiles
<1>16. CASE LoadConfig(p)
    <2> DEFINE v == IF configFile.valid THEN configFile.version ELSE Defaults
               e == [d EXCEPT !.at = "state", !.config = v]
    <2>1. Become(p, e) /\ UNCHANGED << socketFile, disk, raced, lost >>
        BY <1>16 DEF d, LoadConfig, calls, files
    <2>2. v \in 0..MaxEdits + 1
        BY <1>1, Distinct DEF Defaults
    <2> HIDE DEF v
    <2>3. e \in Daemon /\ e.at = "state" /\ e.looked = d.looked /\ e.failed = d.failed
        BY <1>1, <1>4, <2>2 DEF Daemon
    <2>4. ~d.failed
        BY <1>16, <1>7 DEF d, LoadConfig
    <2> QED BY <1>1, <2>1, <2>3, <2>4, MoveFiles DEF d
<1>17. CASE LoadState(p)
    <2> DEFINE read == [d EXCEPT !.at = "exists", !.state = disk]
               defaults == [d EXCEPT !.at = "exists", !.state = {}, !.behind = (disk # {})]
    <2>1. /\ Become(p, read) \/ Become(p, defaults)
          /\ UNCHANGED << socketFile, disk, raced, lost >>
        BY <1>17 DEF d, LoadState, calls, files
    <2>2. /\ read \in Daemon /\ read.at = "exists" /\ read.looked = d.looked /\ read.state = disk
          /\ read.failed = d.failed
        BY <1>1, <1>4 DEF Daemon
    <2>3. /\ defaults \in Daemon /\ defaults.at = "exists" /\ defaults.looked = d.looked
          /\ (defaults.behind \/ disk \subseteq defaults.state)
          /\ defaults.failed = d.failed
        BY <1>1, <1>4 DEF Daemon
    <2>4. ~d.failed
        BY <1>17, <1>7 DEF d, LoadState
    <2> HIDE DEF read, defaults
    <2> QED BY <1>1, <2>1, <2>2, <2>3, <2>4, MoveFiles DEF d
<1>18. CASE ~Live /\ TakenForStale(p)
    <2> DEFINE e == [d EXCEPT !.at = "remove", !.looked = socketFile]
    <2>1. /\ Become(p, e) /\ UNCHANGED << socketFile, disk, raced, lost >>
          /\ socketFile \notin Processes /\ d.at = "connect"
        BY <1>18 DEF d, TakenForStale, Live, calls, files
    <2>2. /\ e \in Daemon /\ e.at = "remove" /\ e.looked = socketFile
          /\ SameState(e, d)
        BY <1>1, <1>4 DEF Daemon, SameState
    <2> QED BY <1>1, <2>1, <2>2, SteadyFiles DEF d
<1>19. CASE RemovePath(p)
    BY <1>1, <1>2, <1>19, RemoveFiles DEF RemovePath
<1>20. CASE SpawnTasks(p)
    <2>1. PICK works \in BOOLEAN :
              Become(p, [d EXCEPT !.at = "start", !.accepting = TRUE, !.watching = works])
        BY <1>20 DEF d, SpawnTasks
    <2> DEFINE e == [d EXCEPT !.at = "start", !.accepting = TRUE, !.watching = works]
    <2>2. e \in Daemon /\ e.at = "start" /\ e.looked = d.looked /\ SameState(e, d)
        BY <1>1, <1>4 DEF Daemon, SameState
    <2>3. UNCHANGED << socketFile, disk, raced, lost >> /\ d.at = "spawn"
        BY <1>20 DEF d, SpawnTasks, calls, files
    <2> QED BY <1>1, <2>1, <2>2, <2>3, SteadyFiles DEF d
<1>21. ASSUME NEW a \in {"serving", "abort"}, Saved(p, [d EXCEPT !.at = a]),
              UNCHANGED << socketFile, raced >>, d.at \in {"start", "ending"}
       PROVE  FilesHold
    BY <1>1, <1>3, <1>4, <1>21, SaveFiles DEF d, SameState
<1>22. CASE StartRuntime(p)
    BY <1>4, <1>5, <1>21, <1>22 DEF d, StartRuntime
<1>23. CASE Shutdown(p)
    BY <1>21, <1>23 DEF d, Shutdown
<1>24. CASE Close(p)
    BY <1>24, GoneFiles DEF Close
<1> QED BY <1>2, <1>8, <1>9, <1>10, <1>11, <1>12, <1>13, <1>14, <1>15, <1>16, <1>17, <1>18, <1>19,
           <1>20, <1>22, <1>23, <1>24
        DEF Advance, Connect, Crash

LEMMA TakeFiles ==
    ASSUME DaemonsInv, NEW p \in Processes, Take(p)
    PROVE  FilesHold
<1> DEFINE d == proc[p]
           e == Rest(p)
<1>1. /\ FilesInv /\ d \in Daemon /\ d.looked \notin Processes
      /\ configFile.version \in 0..MaxEdits + 1
    BY FilesNow, Distinct DEF FilesInv, LookedInv, DaemonsInv, DaemonsTypeOK
<1>2. d.queue # << >> /\ d.at = "serving"
    BY DEF Take, TakeConfigChanged, TakeRequest, TakeReload, TakeStop, TakeChange, TakeDevices,
           Takes, Serving
<1>3. /\ e \in Daemon /\ e.at = "serving" /\ e.looked = d.looked /\ SameState(e, d)
    <2>1. e \in Daemon
        BY <1>1, <1>2, DaemonTypes DEF Rest
    <2> QED BY <1>1, <1>2, <2>1 DEF Rest, Daemon, SameState
<1> HIDE DEF d, e
<1>4. /\ "serving" \in Holding /\ {"serving", "ending"} \subseteq Saving /\ "ending" \in Steps
      /\ {"serving", "ending"} \subseteq Failing
    BY DEF Holding, Saving, Steps, Ending, Failing
<1>5. ASSUME NEW f \in Daemon, Become(p, f), UNCHANGED << socketFile, disk, raced, lost >>,
             f.looked = e.looked, SameState(f, e), f.at \in {"serving", "ending"}
      PROVE  FilesHold
    BY <1>1, <1>2, <1>3, <1>4, <1>5, SteadyFiles DEF d, SameState
<1>6. /\ Reload(e) \in Daemon /\ Reload(e).looked = e.looked /\ SameState(Reload(e), e)
      /\ Reload(e).at = "serving"
    BY <1>1, <1>3 DEF Reload, Daemon, SameState
<1>7. CASE TakeConfigChanged(p)
    BY <1>5, <1>6, <1>7 DEF TakeConfigChanged, e, files, calls
<1>8. ASSUME NEW c \in Clients, TakeReload(p, c) PROVE FilesHold
    BY <1>5, <1>6, <1>8 DEF TakeReload, e, files
<1>9. ASSUME NEW c \in Clients, TakeStop(p, c) PROVE FilesHold
    <2> DEFINE f == [e EXCEPT !.at = "ending"]
    <2>1. f \in Daemon /\ f.looked = e.looked /\ SameState(f, e) /\ f.at = "ending"
        BY <1>3, <1>4 DEF Daemon, SameState
    <2> QED BY <1>5, <1>9, <2>1 DEF TakeStop, e, files
<1>10. ASSUME NEW c \in Clients, TakeDevices(p, c) PROVE FilesHold
    <2> DEFINE f == [e EXCEPT !.tasks = @ \cup {c}]
    <2>1. f \in Daemon /\ f.looked = e.looked /\ SameState(f, e) /\ f.at = "serving"
        BY <1>3 DEF Daemon, SameState
    <2> QED BY <1>5, <1>10, <2>1 DEF TakeDevices, e, files, calls
<1>11. ASSUME NEW c \in Clients, TakeChange(p, c) PROVE FilesHold
    <2> DEFINE f == [e EXCEPT !.state = @ \cup {c}]
    <2>1. /\ f \in Daemon /\ f.looked = e.looked /\ f.behind = e.behind /\ e.state \subseteq f.state
          /\ f.at = "serving"
        BY <1>3 DEF Daemon
    <2>2. Saved(p, f) /\ UNCHANGED << socketFile, raced >>
        BY <1>11 DEF TakeChange, e
    <2> QED BY <1>1, <1>2, <1>3, <1>4, <2>1, <2>2, SaveFiles DEF d, SameState
<1> QED BY <1>7, <1>8, <1>9, <1>10, <1>11 DEF Take, TakeRequest

\* A press or a deadline saves.
LEMMA SavesAgainFiles ==
    ASSUME DaemonsInv, NEW p \in Processes, SavesAgain(p)
    PROVE  FilesHold
<1>1. FilesInv /\ proc[p] \in Daemon
    BY FilesNow, Typed DEF DaemonsInv
<1>2. Saved(p, proc[p]) /\ UNCHANGED << socketFile, raced >> /\ proc[p].at = "serving"
    BY DEF SavesAgain, Serving
<1> QED BY <1>1, <1>2, SaveFiles DEF Saving, Failing

LEMMA FilesStep == DaemonsInv /\ [DaemonsNext]_vars => FilesHold
<1> SUFFICES ASSUME DaemonsInv, [DaemonsNext]_vars PROVE FilesHold
    OBVIOUS
<1>1. /\ FilesInv /\ \A p \in Processes : proc[p] \in Daemon /\ proc[p].looked \notin Processes
      /\ \A p \in Processes : proc[p].queue \in Seq(Names)
    BY FilesNow DEF FilesInv, LookedInv, Daemon, Names
<1>2. ASSUME UNCHANGED << proc, socketFile, disk, raced, lost >>
      PROVE  FilesHold
    BY <1>1, <1>2, Remembered DEF FilesHold, FilesInv, LookedInv, PathInv, SavedInv, FailedInv
<1>3. ASSUME NEW p \in Processes, NEW c \in Clients, TaskReplies(p, c) \/ Handle(p, c)
      PROVE  FilesHold
    <2> DEFINE d == proc[p]
               less == [d EXCEPT !.backlog = @ \ {c}]
               queued == [less EXCEPT !.queue = Append(@, c)]
               told == [d EXCEPT !.tasks = @ \ {c}]
    <2>1. /\ less \in Daemon /\ less.at = d.at /\ less.looked = d.looked /\ SameState(less, d)
        BY <1>1 DEF Daemon, SameState
    <2>2. /\ told \in Daemon /\ told.at = d.at /\ told.looked = d.looked /\ SameState(told, d)
        BY <1>1 DEF Daemon, SameState
    <2> HIDE DEF less
    <2>3. /\ queued \in Daemon /\ queued.at = d.at /\ queued.looked = d.looked
          /\ SameState(queued, d)
        <3>1. queued \in Daemon
            BY <2>1, DaemonTypes DEF Names
        <3> QED BY <2>1, <3>1 DEF Daemon, SameState
    <2>4. /\ Become(p, less) \/ Become(p, queued) \/ Become(p, told)
          /\ UNCHANGED << socketFile, disk, raced, lost >>
        BY <1>3 DEF TaskReplies, Handle, files, less
    <2> HIDE DEF d, queued, told
    <2> QED BY <1>1, <2>1, <2>2, <2>3, <2>4, SteadyFiles DEF d
<1>4. ASSUME NEW c \in Clients, NEW kind \in Kinds, Send(c, kind)
      PROVE  FilesHold
    <2>1. UNCHANGED << socketFile, disk, raced, lost >>
        BY <1>4 DEF Send, files
    <2>2. CASE ~Live
        BY <1>2, <1>4, <2>1, <2>2 DEF Send
    <2>3. CASE Live
        <3> DEFINE d == proc[socketFile]
                   e == [d EXCEPT !.backlog = @ \cup {c}]
        <3>1. socketFile \in Processes /\ Become(socketFile, e)
            BY <1>4, <2>3 DEF Send, Live
        <3>2. /\ e \in Daemon /\ e.at = d.at /\ e.looked = d.looked /\ SameState(e, d)
            BY <1>1, <3>1 DEF Daemon, SameState
        <3> HIDE DEF e
        <3> QED BY <1>1, <2>1, <3>1, <3>2, SteadyFiles
    <2> QED BY <2>2, <2>3
<1>5. CASE Edit
    <2>1. UNCHANGED << socketFile, disk, raced, lost >>
        BY <1>5 DEF Edit, calls
    <2>2. ASSUME NEW p \in Processes
          PROVE  /\ proc'[p] \in Daemon /\ proc'[p].at = proc[p].at
                 /\ proc'[p].looked = proc[p].looked /\ SameState(proc'[p], proc[p])
        <3> DEFINE d == proc[p]
                   queue1 == Append(d.queue, "config")
                   missed1 == d.missed \/ d.at \in Starting \ {"config"}
                   told == [d EXCEPT !.queue = queue1, !.missed = FALSE]
                   not == [d EXCEPT !.missed = missed1]
        <3>1. d \in Daemon /\ queue1 \in Seq(Names)
            BY <1>1, Appended DEF Names
        <3>2. proc'[p] = IF d.watching THEN told ELSE not
            BY <1>1, <1>5 DEF Edit, Daemon
        <3>3. missed1 \in BOOLEAN
            OBVIOUS
        <3> HIDE DEF queue1, missed1
        <3>4. /\ told \in Daemon /\ told.at = d.at /\ told.looked = d.looked
              /\ SameState(told, d)
            BY <3>1 DEF Daemon, Names, SameState
        <3>5. /\ not \in Daemon /\ not.at = d.at /\ not.looked = d.looked
              /\ SameState(not, d)
            BY <3>1, <3>3 DEF Daemon, SameState
        <3> HIDE DEF told, not
        <3> QED BY <3>2, <3>4, <3>5
    <2>3. proc' \in [Processes -> Daemon]
        <3>1. proc' = [p \in Processes |-> proc'[p]]
            BY <1>5 DEF Edit
        <3> QED BY <2>2, <3>1
    <2>4. FilesInv'
        BY <1>1, <2>1, <2>2, <2>3
           DEF FilesInv, LookedInv, PathInv, SavedInv, FailedInv, SameState
    <2>5. NothingForgotten
        BY <2>1, <2>2, Remembered DEF SameState
    <2> QED BY <2>4, <2>5 DEF FilesHold
<1>6. ASSUME NEW c \in Clients, Answered(c) \/ GivesUp(c)
      PROVE  FilesHold
    BY <1>2, <1>6 DEF Answered, GivesUp, files
<1>7. CASE UNCHANGED vars
    BY <1>2, <1>7 DEF vars
<1> QED BY <1>3, <1>4, <1>5, <1>6, <1>7, AdvanceFiles, TakeFiles, SavesAgainFiles DEF DaemonsNext

-----------------------------------------------------------------------------
(* What is answered as done, and the invariant.                            *)

DoneChange(call) == call.asks = "change" /\ call.outcome = "ok"

\* The calls, and that no change is newly answered as done but one that is saved, or
\* that the process holds as one it could not save.
KeptOrSaved ==
    /\ client' \in [Clients -> Call]
    /\ \A c \in Clients : DoneChange(client'[c]) => DoneChange(client[c]) \/ c \in disk' \cup HeldUnsaved'

LEMMA RepliedKept ==
    ASSUME DaemonsInv, NEW p \in Processes, NEW c \in Clients, NEW o \in {"ok", "refused"},
           NEW n \in {0, 1}, Replied(c, o, n), Owes(proc[p], c),
           client[c].asks # "change" \/ c \in disk' \cup HeldUnsaved' \/ o = "refused"
    PROVE  KeptOrSaved
<1>1. DaemonsTypeOK /\ client[c].carried = 0 /\ client[c].outcome \in {None, "timeout"} /\ o \in Outcomes
    BY DEF DaemonsInv, OwesInv, Waits, Outcomes
<1>2. /\ client' \in [Clients -> Call]
      /\ \A x \in Clients : x # c => client'[x] = client[x]
      /\ client'[c].asks = client[c].asks
      /\ client'[c].outcome \in {o, None, "timeout"}
    BY <1>1, ReplyStep
<1>3. DoneChange(client'[c]) => c \in disk' \cup HeldUnsaved'
    BY <1>2, Distinct DEF DoneChange, Outcomes
<1> QED BY <1>2, <1>3 DEF KeptOrSaved

LEMMA ClientStep == DaemonsInv /\ [DaemonsNext]_vars => KeptOrSaved
<1> SUFFICES ASSUME DaemonsInv, [DaemonsNext]_vars PROVE KeptOrSaved
    OBVIOUS
<1>1. /\ DaemonsTypeOK /\ client \in [Clients -> Call]
      /\ \A p \in Processes : proc[p] \in Daemon /\ proc[p].queue \in Seq(Names) /\ Tidy(proc[p])
    BY Typed DEF DaemonsInv, TidyInv, Daemon, Names
<1>2. CASE client' = client
    BY <1>1, <1>2 DEF KeptOrSaved
<1>3. ASSUME NEW p \in Processes, NEW how \in [Clients -> {"closed", "unanswered"}], Gone(p, how)
      PROVE  KeptOrSaved
    <2>1. /\ client' \in [Clients -> Call]
          /\ \A c \in Clients : client'[c] = client[c] \/ client'[c].outcome = how[c]
        BY <1>1, <1>3, GoneStep
    <2>2. \A c \in Clients : how[c] # "ok"
        OBVIOUS
    <2> QED BY <2>1, <2>2 DEF KeptOrSaved, DoneChange
<1>4. ASSUME NEW p \in Processes, Start(p) \/ Advance(p) \/ TakeShutdown(p) \/ Crash(p)
      PROVE  KeptOrSaved
    <2>1. client' = client \/ \E how \in [Clients -> {"closed", "unanswered"}] : Gone(p, how)
        <3>1. Closed \in [Clients -> {"closed", "unanswered"}]
            BY DEF Closed
        <3> QED BY <1>4, <3>1
                DEF Start, Advance, TakeShutdown, Crash, LoadConfig, LoadState, Exists, Connect,
                    TakenForStale, RemovePath, Bind, RestrictPath, OpenDevice, SpawnTasks,
                    StartRuntime, Shutdown, AbortTasks, Unlink, Close, calls
    <2> QED BY <1>2, <1>3, <2>1
<1>5. ASSUME NEW p \in Processes, NEW c \in Clients, TakeRequest(p, c)
      PROVE  KeptOrSaved
    <2>1. proc[p].queue # << >> /\ Head(proc[p].queue) = c
        BY <1>5 DEF TakeRequest, TakeReload, TakeStop, TakeChange, TakeDevices, Takes
    <2>2. Owes(proc[p], c)
        <3>1. /\ Len(proc[p].queue) \in Nat \ {0} /\ proc[p].queue[1] = c
            BY <1>1, <2>1, Taken
        <3> QED BY <3>1 DEF Owes, Queued
    <2>3. CASE TakeReload(p, c)
        <3>1. Replied(c, "ok", 1) \/ Replied(c, "refused", 0)
            BY <2>3 DEF TakeReload
        <3>2. client[c].asks # "change"
            BY <2>3 DEF TakeReload
        <3> QED BY <2>2, <3>1, <3>2, RepliedKept
    <2>4. CASE TakeStop(p, c)
        <3>1. Replied(c, "ok", 1) /\ client[c].asks # "change"
            BY <2>4 DEF TakeStop
        <3> QED BY <2>2, <3>1, RepliedKept
    <2>5. CASE TakeChange(p, c)
        <3> DEFINE e == Rest(p)
                   f == [e EXCEPT !.state = @ \cup {c}]
        <3>1. /\ Replied(c, "ok", 1) /\ Saved(p, f) /\ proc[p].at = "serving"
              /\ UNCHANGED << socketFile, raced >>
            BY <2>5 DEF TakeChange, Takes, Serving
        <3>2. /\ e \in Daemon /\ e.at = proc[p].at /\ e.looked = proc[p].looked
              /\ e.behind = proc[p].behind /\ e.state = proc[p].state
            BY <1>1, <2>1, DaemonTypes DEF Rest, Daemon
        <3> HIDE DEF e
        <3>3. /\ f \in Daemon /\ f.at = proc[p].at /\ f.looked = proc[p].looked
              /\ f.behind = proc[p].behind /\ f.state = proc[p].state \cup {c}
            BY <3>2 DEF Daemon
        <3> HIDE DEF f
        <3>4. c \in disk' \cup HeldUnsaved'
            BY <3>1, <3>3, FilesNow, SaveFiles DEF Saving, Failing
        <3> QED BY <2>2, <3>1, <3>4, RepliedKept
    <2>6. CASE TakeDevices(p, c)
        BY <1>2, <2>6 DEF TakeDevices, calls
    <2> QED BY <1>5, <2>3, <2>4, <2>5, <2>6 DEF TakeRequest
<1>6. ASSUME NEW p \in Processes, NEW c \in Clients, TaskReplies(p, c)
      PROVE  KeptOrSaved
    <2>1. c \in proc[p].tasks /\ Replied(c, "ok", 1)
        BY <1>6 DEF TaskReplies
    <2>2. Owes(proc[p], c) /\ client[c].asks = "devices"
        BY <2>1 DEF Owes, DaemonsInv, TasksInv
    <2> QED BY <2>1, <2>2, RepliedKept
<1>7. ASSUME NEW p \in Processes, NEW c \in Clients, Handle(p, c)
      PROVE  KeptOrSaved
    <2>1. client' = client \/ Replied(c, "refused", 0)
        BY <1>7 DEF Handle
    <2>2. Owes(proc[p], c)
        BY <1>7 DEF Handle, Owes
    <2> QED BY <1>2, <2>1, <2>2, RepliedKept
<1>8. ASSUME NEW c \in Clients, NEW kind \in Kinds, Send(c, kind)
      PROVE  KeptOrSaved
    <2> DEFINE sent == [NoCall EXCEPT !.phase = "waiting", !.asks = kind, !.to = socketFile]
               failed == [NoCall EXCEPT !.phase = "done", !.asks = kind, !.outcome = "unreachable"]
    <2>1. /\ client' = [client EXCEPT ![c] = IF Live THEN sent ELSE failed]
        BY <1>8 DEF Send
    <2>2. NoCall \in Call
        BY DEF NoCall, Call
    <2>3. Live => sent \in Call /\ sent.outcome = None
        BY <2>2 DEF Live, Call, NoCall
    <2>4. failed \in Call /\ failed.outcome = "unreachable"
        BY <2>2 DEF Call, Outcomes
    <2> HIDE DEF sent, failed
    <2>5. /\ client' \in [Clients -> Call]
          /\ \A x \in Clients : x # c => client'[x] = client[x]
          /\ client'[c].outcome \in {None, "unreachable"}
        BY <1>1, <2>1, <2>3, <2>4
    <2> QED BY <2>5, Distinct DEF KeptOrSaved, DoneChange, Outcomes
<1>9. ASSUME NEW c \in Clients, Answered(c)
      PROVE  KeptOrSaved
    <2>1. client' = [client EXCEPT ![c] = Done(c)]
        BY <1>9 DEF Answered
    <2>2. /\ Done(c) \in Call /\ Done(c).outcome = client[c].outcome
          /\ Done(c).asks = IF client[c].asks = "change" THEN "change" ELSE None
        BY <1>1, CallTypes
    <2>3. DoneChange(Done(c)) => DoneChange(client[c])
        BY <2>2, OutcomeAssumption DEF DoneChange, RequestKinds
    <2> QED BY <1>1, <2>1, <2>2, <2>3 DEF KeptOrSaved
<1>10. ASSUME NEW c \in Clients, GivesUp(c)
       PROVE  KeptOrSaved
    <2> DEFINE k == [client[c] EXCEPT !.phase = "done", !.to = None, !.outcome = "timeout"]
    <2>1. client' = [client EXCEPT ![c] = k]
        BY <1>1, <1>10 DEF GivesUp, Call
    <2>2. k \in Call /\ k.outcome = "timeout"
        BY <1>1 DEF Call, Outcomes
    <2> HIDE DEF k
    <2> QED BY <1>1, <2>1, <2>2 DEF KeptOrSaved, DoneChange
<1>11. CASE Edit \/ UNCHANGED vars \/ \E p \in Processes : TakeConfigChanged(p) \/ SavesAgain(p)
    BY <1>2, <1>11 DEF Edit, TakeConfigChanged, SavesAgain, calls, vars
<1> QED BY <1>4, <1>5, <1>6, <1>7, <1>8, <1>9, <1>10, <1>11 DEF DaemonsNext, Take

LEMMA ConfigStep ==
    DaemonsInv /\ [DaemonsNext]_vars =>
        configFile' \in [version : 1..MaxEdits + 1, valid : BOOLEAN]
<1> SUFFICES ASSUME DaemonsInv, [DaemonsNext]_vars
             PROVE  configFile' \in [version : 1..MaxEdits + 1, valid : BOOLEAN]
    OBVIOUS
<1>1. configFile \in [version : 1..MaxEdits + 1, valid : BOOLEAN]
    BY DEF DaemonsInv, DaemonsTypeOK
<1>2. CASE Edit
    <2>1. /\ configFile.version <= MaxEdits
          /\ configFile' \in [version : {configFile.version + 1}, valid : BOOLEAN]
        BY <1>2 DEF Edit
    <2>2. configFile.version \in 1..MaxEdits + 1
        BY <1>1
    <2>3. configFile.version + 1 \in 1..MaxEdits + 1
        BY <2>1, <2>2, Distinct
    <2> QED BY <2>1, <2>3
<1>3. ASSUME NEW p \in Processes,
             Start(p) \/ TakeShutdown(p) \/ Crash(p) \/ Advance(p) \/ Take(p) \/ SavesAgain(p)
      PROVE  configFile' = configFile
    BY <1>3 DEF SavesAgain, Start, TakeShutdown, Crash, Advance, LoadConfig, LoadState, Exists, Connect,
                TakenForStale, RemovePath, Bind, RestrictPath, OpenDevice, SpawnTasks, StartRuntime,
                Shutdown, AbortTasks, Unlink, Close, Gone, Take, TakeConfigChanged, TakeRequest,
                TakeReload, TakeStop, TakeChange, TakeDevices, files
<1>4. ASSUME NEW p \in Processes, NEW c \in Clients, Handle(p, c) \/ TaskReplies(p, c)
      PROVE  configFile' = configFile
    BY <1>4 DEF Handle, TaskReplies, files
<1>5. ASSUME NEW c \in Clients, Answered(c) \/ GivesUp(c) \/ \E kind \in Kinds : Send(c, kind)
      PROVE  configFile' = configFile
    BY <1>5 DEF Answered, GivesUp, Send, files
<1>6. CASE UNCHANGED vars
    BY <1>1, <1>6 DEF vars
<1> QED BY <1>1, <1>2, <1>3, <1>4, <1>5, <1>6 DEF DaemonsNext

LEMMA DaemonsInvInit == DaemonsInit => DaemonsInv
<1> SUFFICES ASSUME DaemonsInit PROVE DaemonsInv
    OBVIOUS
<1>1. /\ \A p \in Processes : proc[p] = Off
      /\ \A c \in Clients : client[c] = NoCall
      /\ disk = {} /\ lost = {} /\ raced = FALSE /\ socketFile = None
    BY DEF DaemonsInit
<1>2. NoCall \in Call /\ NoCall.outcome = None /\ NoCall.carried = 0
    BY DEF NoCall, Call
<1>3. /\ Off \in Daemon /\ Tidy(Off) /\ (\A c : ~Owes(Off, c))
      /\ Off.at = "off" /\ Off.looked = None /\ Off.tasks = {} /\ ~Off.failed
    BY OffTidy DEF Off
<1>4. DaemonsTypeOK
    <2>1. proc \in [Processes -> Daemon] /\ client \in [Clients -> Call]
        BY <1>2, <1>3 DEF DaemonsInit
    <2>2. configFile \in [version : 1..MaxEdits + 1, valid : BOOLEAN]
        BY Distinct DEF DaemonsInit
    <2>3. raced \in BOOLEAN /\ socketFile \in Processes \cup {Stale, None}
        BY <1>1
    <2> QED BY <1>1, <2>1, <2>2, <2>3 DEF DaemonsTypeOK
<1>5. LookedInv /\ PathInv /\ SavedInv /\ FailedInv
    BY <1>1, <1>3, Distinct
       DEF LookedInv, PathInv, SavedInv, FailedInv, Holding, Reading, Saving
<1>6. TidyInv /\ OwesInv /\ TasksInv
    BY <1>1, <1>3 DEF TidyInv, OwesInv, TasksInv
<1>7. TruthInv /\ AnswersAreKept
    BY <1>1, <1>2, Distinct DEF TruthInv, Truthful, AnswersAreKept, Outcomes
<1> QED BY <1>4, <1>5, <1>6, <1>7 DEF DaemonsInv

LEMMA DaemonsInvStep == DaemonsInv /\ [DaemonsNext]_vars => DaemonsInv'
<1> SUFFICES ASSUME DaemonsInv, [DaemonsNext]_vars PROVE DaemonsInv'
    OBVIOUS
<1>1. FilesInv' /\ NothingForgotten /\ CallsInv' /\ KeptOrSaved
    BY FilesStep, CallsStep, ClientStep DEF FilesHold
<1>2. DaemonsTypeOK'
    BY <1>1, ConfigStep DEF DaemonsTypeOK, FilesInv, KeptOrSaved
<1>3. AnswersAreKept'
    BY <1>1 DEF DaemonsInv, AnswersAreKept, NothingForgotten, KeptOrSaved, DoneChange
<1> QED BY <1>1, <1>2, <1>3 DEF DaemonsInv, FilesInv, CallsInv

LEMMA DaemonsInvHolds == DaemonsSpec => []DaemonsInv
BY DaemonsInvInit, DaemonsInvStep, PTL DEF DaemonsSpec

\* Processes, calls and the files they share stay within their types: no request
\* is carried out more often than the type has room for.
THEOREM DaemonsTypeCorrect == DaemonsSpec => []DaemonsTypeOK
<1>1. DaemonsInv => DaemonsTypeOK
    BY DEF DaemonsInv
<1> QED BY <1>1, DaemonsInvHolds, PTL

\* Whatever starts, crashes and ends beside it, the daemon that may save its state is
\* alone and owns the path of the socket, unless a start raced another for it.
THEOREM ServerAlwaysAlone == DaemonsSpec => []ServerIsAlone
<1>1. DaemonsInv => ServerIsAlone
    <2> SUFFICES ASSUME DaemonsInv, NEW p \in MaySave, ~raced
                 PROVE  socketFile = p /\ MaySave = {p}
        BY DEF ServerIsAlone
    <2>1. \A q \in MaySave : q \in Processes /\ proc[q].at \in Holding
        BY DEF MaySave, Holding
    <2> QED BY <2>1 DEF DaemonsInv, PathInv
<1> QED BY <1>1, DaemonsInvHolds, PTL

\* What streamdeckctl was told is true, and a change that was answered as done is
\* kept, through any number of crashes, ends and starts, but for a save or a load
\* that fails and the races that AnswersAreKept names.
THEOREM AnswersAlwaysHold == DaemonsSpec => []AnswersHold
<1>1. DaemonsInv => AnswersHold
    BY DEF DaemonsInv, TruthInv, Truthful, AnswersHold, AnswersAreTrue
<1> QED BY <1>1, DaemonsInvHolds, PTL

=============================================================================
