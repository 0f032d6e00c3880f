------------------------------- MODULE Daemons -------------------------------
(***************************************************************************)
(* The daemon as a process among others: its start, its control socket and *)
(* its end (crates/streamdeckd/src/main.rs, control.rs), with the files it *)
(* shares with other starts of itself - the socket, the configuration and  *)
(* the saved state - and the requests of streamdeckctl.                    *)
(*                                                                         *)
(* launchd or the user starts a process whenever it likes, the user edits  *)
(* the configuration, and a process may die at any step.  The state is the *)
(* set of the changes it holds, and a change is named after the client     *)
(* that asked for it.  A socket is named after the process that bound it.  *)
(* How a process ends tells launchd whether to start it again, which is    *)
(* left open here: it may start at any time.                               *)
(*                                                                         *)
(* A definition named Faulty... is a mutant: the code with a possible bug. *)
(***************************************************************************)
EXTENDS Naturals, Sequences, SequencesExt

CONSTANTS
    None,
    Stale,      \* a socket nobody listens on any more
    Processes,  \* the places a daemon can be started from
    Clients,    \* calls of streamdeckctl, one request each
    Kinds,      \* what they ask for, see RequestKinds
    MaxEdits    \* bound: edits of the configuration

\* Requests that differ in what they do to a daemon: Reload; Stop; one that
\* changes the state and saves it; Devices and Doctor, which a task answers;
\* and a line that does not decode.
RequestKinds == {"reload", "stop", "change", "devices", "garbled"}

ASSUME DaemonsAssumption ==
    /\ Kinds \subseteq RequestKinds
    /\ None \notin Clients \cup Processes
    /\ Stale \notin Processes \cup {None}
    /\ "config" \notin Clients
    /\ MaxEdits \in Nat

VARIABLES
    socketFile, \* the process whose socket the path names, Stale or None
    configFile, \* the configuration's version, and whether it would load
    disk,       \* the saved state: the changes in it
    proc,       \* the processes, see Daemon
    client,     \* the calls of streamdeckctl, see Call
    raced,      \* auxiliary: a start removed the path of a socket that was listening
    lost        \* auxiliary: changes that a save wrote over whose process had not read
                \* them, see Stores, or that went with a process that could not save
                \* them, see UnsavedBy

vars == << socketFile, configFile, disk, proc, client, raced, lost >>

-----------------------------------------------------------------------------
\* The steps of a start, of a run, and of an end, in their order.
Starting == {"config", "state", "exists", "connect", "remove", "bind", "restrict",
             "device", "spawn", "start"}
Ending == {"ending", "abort", "unlink", "close"}
Steps == Starting \cup {"off", "serving"} \cup Ending

Defaults == 0

Daemon == [
    at        : Steps,
    config    : 0..MaxEdits + 1,       \* the version in force, or Defaults
    state     : SUBSET Clients,
    accepting : BOOLEAN,               \* the task that accepts connections
    watching  : BOOLEAN,               \* the watcher of the configuration
    backlog   : SUBSET Clients,        \* connections not read yet
    queue     : Seq(Clients \cup {"config"}),
    tasks     : SUBSET Clients,        \* requests a task answers
    looked    : Processes \cup {Stale, None},  \* auxiliary: what the path named then
    missed    : BOOLEAN,               \* auxiliary: an edit it was not told of
    behind    : BOOLEAN,               \* auxiliary: it has not read all that is saved:
                                       \* another process saved once more after it
                                       \* read, or the state did not load
    failed    : BOOLEAN ]              \* auxiliary: it holds what its last save, which
                                       \* failed, should have stored

Outcomes == {"ok", "refused", "unreachable", "unanswered", "closed", "timeout"}

\* None is a value of its own.
ASSUME OutcomeAssumption == None \notin Outcomes \cup RequestKinds

Call == [
    phase   : {"idle", "waiting", "done"},
    asks    : Kinds \cup {None},
    to      : Processes \cup {None},
    outcome : Outcomes \cup {None},
    carried : 0..2 ]                   \* auxiliary: times it was carried out

DaemonsTypeOK ==
    /\ socketFile \in Processes \cup {Stale, None}
    /\ configFile \in [version : 1..MaxEdits + 1, valid : BOOLEAN]
    /\ disk \subseteq Clients
    /\ proc \in [Processes -> Daemon]
    /\ client \in [Clients -> Call]
    /\ raced \in BOOLEAN
    /\ lost \subseteq Clients

Off == [at |-> "off", config |-> Defaults, state |-> {}, accepting |-> FALSE, watching |-> FALSE,
        backlog |-> {}, queue |-> << >>, tasks |-> {}, looked |-> None,
        missed |-> FALSE, behind |-> FALSE, failed |-> FALSE]

NoCall == [phase |-> "idle", asks |-> None, to |-> None,
           outcome |-> None, carried |-> 0]

DaemonsInit ==
    /\ socketFile = None
    /\ configFile = [version |-> 1, valid |-> TRUE]
    /\ disk = {}
    /\ proc = [p \in Processes |-> Off]
    /\ client = [c \in Clients |-> NoCall]
    /\ raced = FALSE
    /\ lost = {}

Running(p) == proc[p].at # "off"
Serving(p) == proc[p].at = "serving"

\* Somebody listens on the socket the path names: connecting succeeds.
Live == socketFile \in Processes

\* The processes that may save the state they hold once more.
MaySave == {p \in Processes : proc[p].at \in {"start", "serving", "ending"}}

-----------------------------------------------------------------------------
(* Steps of a process.                                                     *)

Become(p, d) == proc' = [proc EXCEPT ![p] = d]

\* From one step to the next, with nothing else to tell.
Goes(p, from, to) ==
    /\ proc[p].at = from
    /\ Become(p, [proc[p] EXCEPT !.at = to])

files == << socketFile, configFile, disk >>
calls == << client, lost >>

\* The call ends; what it asked for is of interest only as a change that was made.
Done(c) == [client[c] EXCEPT !.phase = "done", !.to = None,
                             !.asks = IF @ = "change" THEN @ ELSE None]

\* What a process holds that it could not save, and nobody saved in its place.
UnsavedBy(p) == IF proc[p].failed THEN proc[p].state \ disk ELSE {}

\* The process is gone, and its side of every connection is closed.  A request
\* that the runtime dropped may be answered, in the time its tasks are left, as
\* one that has no answer.
Gone(p, how) ==
    /\ Become(p, Off)
    /\ socketFile' = IF socketFile = p THEN Stale ELSE socketFile
    /\ raced' = (raced /\ \E q \in Processes \ {p} : Running(q))
    /\ client' = [c \in Clients |->
                    IF client[c].phase = "waiting" /\ client[c].to = p
                      THEN [Done(c) EXCEPT !.outcome = how[c]]
                      ELSE client[c]]
    /\ lost' = lost \cup UnsavedBy(p)
    /\ UNCHANGED << configFile, disk >>

\* From here to its end a process uses nothing but what it still owes its clients.
Dropping(d) == [Off EXCEPT !.at = "unlink", !.backlog = d.backlog, !.queue = d.queue,
                           !.tasks = d.tasks]

Closed == [c \in Clients |-> "closed"]

Start(p) ==
    /\ ~raced      \* bound: those that raced end before there is another start
    /\ Goes(p, "off", "config")
    /\ UNCHANGED << files, calls, raced >>

\* What does not load is replaced by the built-in defaults.
LoadConfig(p) ==
    /\ proc[p].at = "config"
    /\ Become(p, [proc[p] EXCEPT
            !.at = "state",
            !.config = IF configFile.valid THEN configFile.version ELSE Defaults])
    /\ UNCHANGED << files, calls, raced >>

\* The state is read before the socket says whether another daemon is there.  A file
\* that cannot be read, parsed or migrated stays where it is, and the process starts
\* from the defaults.
LoadState(p) ==
    /\ proc[p].at = "state"
    /\ \/ Become(p, [proc[p] EXCEPT !.at = "exists", !.state = disk])
       \/ Become(p, [proc[p] EXCEPT !.at = "exists", !.state = {}, !.behind = (disk # {})])
    /\ UNCHANGED << files, calls, raced >>

-----------------------------------------------------------------------------
(* `ControlSocket::bind`.                                                  *)

Exists(p) ==
    /\ Goes(p, "exists", IF socketFile = None THEN "bind" ELSE "connect")
    /\ UNCHANGED << files, calls, raced >>

\* Another process does not answer: what is there is taken for a left-over.
TakenForStale(p) ==
    /\ proc[p].at = "connect"
    /\ Become(p, [proc[p] EXCEPT !.at = "remove", !.looked = socketFile])
    /\ UNCHANGED << files, calls, raced >>

\* Mutant: nobody is asked whether it answers.
FaultyConnect(p) == TakenForStale(p)

\* Another daemon answers: this one ends, and is not to be started again.
Connect(p) ==
    \/ ~Live /\ TakenForStale(p)
    \/ Live /\ proc[p].at = "connect" /\ Gone(p, Closed)

\* The path may have been bound again, or removed, since it was looked at.
RemovePath(p) ==
    /\ proc[p].at = "remove"
    /\ IF socketFile = None
         THEN Gone(p, Closed)
         ELSE /\ Become(p, [proc[p] EXCEPT !.at = "bind", !.looked = None])
              /\ socketFile' = None
              /\ raced' = (raced \/ (Live /\ socketFile # proc[p].looked))
              /\ UNCHANGED << configFile, disk, calls >>

\* A path that is there again is an address in use.
Bind(p) ==
    /\ proc[p].at = "bind"
    /\ IF socketFile # None
         THEN Gone(p, Closed)
         ELSE /\ Become(p, [proc[p] EXCEPT !.at = "restrict"])
              /\ socketFile' = p
              /\ UNCHANGED << configFile, disk, calls, raced >>

\* Mode 0600.  Without the path that fails; the listener has no guard yet that
\* would remove the path.
RestrictPath(p) ==
    /\ proc[p].at = "restrict"
    /\ IF socketFile = None
         THEN Gone(p, Closed)
         ELSE Goes(p, "restrict", "device") /\ UNCHANGED << files, calls, raced >>

-----------------------------------------------------------------------------
(* The rest of `serve`.                                                    *)

\* The deck is opened, or not there yet; or it is owned by another, or fails, and
\* the socket is dropped.
OpenDevice(p) ==
    /\ proc[p].at = "device"
    /\ \/ Goes(p, "device", "spawn")
       \/ Become(p, Dropping(proc[p]))
    /\ UNCHANGED << files, calls, raced >>

\* The tasks: the control socket's, the watcher, which may not come up, and others.
SpawnTasks(p) ==
    /\ proc[p].at = "spawn"
    /\ \E works \in BOOLEAN :
        Become(p, [proc[p] EXCEPT !.at = "start", !.accepting = TRUE, !.watching = works])
    /\ UNCHANGED << files, calls, raced >>

\* The file becomes the state of d, with which p goes on, and p holds what is saved.
\* Another start that has read the state and has not bound its socket may hold an
\* old one from now on.
Stores(p, d) ==
    /\ disk' = d.state
    /\ proc' = [q \in Processes |->
                  IF q = p THEN [d EXCEPT !.behind = FALSE, !.failed = FALSE]
                  ELSE IF proc[q].at \in {"exists", "connect", "remove", "bind"}
                            /\ ~(d.state \subseteq proc[q].state)
                         THEN [proc[q] EXCEPT !.behind = TRUE]
                         ELSE proc[q]]
    /\ lost' = lost \cup (IF proc[p].behind \/ raced THEN disk \ disk' ELSE {})

\* `persist`: a save that fails is logged, and p goes on with d all the same.  (One
\* whose directory sync fails has replaced the file: that is StateStore's.)
Saved(p, d) ==
    \/ Stores(p, d)
    \/ /\ Become(p, [d EXCEPT !.failed = ~(d.state \subseteq disk)])
       /\ UNCHANGED << disk, lost >>

\* `Runtime::start`: totals of another day are rolled over, and saved.
StartRuntime(p) ==
    /\ proc[p].at = "start"
    /\ LET d == [proc[p] EXCEPT !.at = "serving"]
       IN  \/ Become(p, d) /\ UNCHANGED << disk, lost >>
           \/ Saved(p, d)
    /\ UNCHANGED << socketFile, configFile, client, raced >>

\* `Runtime::shutdown`: the last save, and the deck is closed.
Shutdown(p) ==
    /\ proc[p].at = "ending"
    /\ Saved(p, [proc[p] EXCEPT !.at = "abort"])
    /\ UNCHANGED << socketFile, configFile, client, raced >>

\* The tasks, and the runtime with the state it holds.
AbortTasks(p) ==
    /\ proc[p].at = "abort"
    /\ Become(p, Dropping(proc[p]))
    /\ lost' = lost \cup UnsavedBy(p)
    /\ UNCHANGED << files, client, raced >>

\* ControlSocket::drop removes the path, whoever bound it last ...
Unlink(p) ==
    /\ Goes(p, "unlink", "close")
    /\ socketFile' = None
    /\ UNCHANGED << configFile, disk, calls, raced >>

\* ... and then the listener is closed, and what is left of the process goes.
Close(p) ==
    /\ proc[p].at = "close"
    /\ \E how \in [Clients -> {"closed", "unanswered"}] :
        /\ \A c \in Clients :
            how[c] = "unanswered" => c \in proc[p].backlog \cup ToSet(proc[p].queue)
        /\ Gone(p, how)

\* It is killed, or panics: the path stays.
Crash(p) ==
    /\ Running(p)
    /\ Gone(p, Closed)

-----------------------------------------------------------------------------
(* The loop of the runtime.                                                *)

\* A new version: complete, or one that does not load.
Edit ==
    /\ configFile.version <= MaxEdits
    /\ configFile' \in [version : {configFile.version + 1}, valid : BOOLEAN]
    /\ proc' = [p \in Processes |->
                  IF proc[p].watching
                    THEN [proc[p] EXCEPT !.queue = Append(@, "config"), !.missed = FALSE]
                    ELSE [proc[p] EXCEPT !.missed = (@ \/ proc[p].at \in Starting \ {"config"})]]
    /\ UNCHANGED << socketFile, disk, calls, raced >>

\* A reply to a call that has been given up goes nowhere.
Replied(c, outcome, carried) ==
    client' = [client EXCEPT
        ![c].outcome = IF client[c].phase = "waiting" THEN outcome ELSE @,
        ![c].carried = @ + carried]

Rest(p) == [proc[p] EXCEPT !.queue = Tail(@)]

\* Mutant: the candidate is validated and not swapped in.
FaultyReload(d) == d

\* A configuration that does not load leaves the one in force.
Reload(d) == IF configFile.valid THEN [d EXCEPT !.config = configFile.version] ELSE d

Takes(p, event) ==
    /\ Serving(p)
    /\ proc[p].queue # << >>
    /\ Head(proc[p].queue) = event

TakeConfigChanged(p) ==
    /\ Takes(p, "config")
    /\ Become(p, Reload(Rest(p)))
    /\ UNCHANGED << files, calls, raced >>

\* SIGTERM or SIGINT.  The Shutdown event may be taken at any time, since a signal
\* may come at any time: its place in the queue is left out.
TakeShutdown(p) ==
    /\ Goes(p, "serving", "ending")
    /\ UNCHANGED << files, calls, raced >>

TakeReload(p, c) ==
    /\ Takes(p, c)
    /\ client[c].asks = "reload"
    /\ Become(p, Reload(Rest(p)))
    /\ IF configFile.valid THEN Replied(c, "ok", 1)
                           ELSE Replied(c, "refused", 0)
    /\ UNCHANGED << files, raced, lost >>

\* The answer is given before anything is stopped.
TakeStop(p, c) ==
    /\ Takes(p, c)
    /\ client[c].asks = "stop"
    /\ Become(p, [Rest(p) EXCEPT !.at = "ending"])
    /\ Replied(c, "ok", 1)
    /\ UNCHANGED << files, raced, lost >>

\* Mutant: answered before it is saved, with the next save.
FaultyTakeChange(p, c) ==
    /\ Takes(p, c)
    /\ client[c].asks = "change"
    /\ Become(p, [Rest(p) EXCEPT !.state = @ \cup {c}])
    /\ Replied(c, "ok", 1)
    /\ UNCHANGED << files, raced, lost >>

\* Carried out, saved, and then answered, as done even if the save has failed.
TakeChange(p, c) ==
    /\ Takes(p, c)
    /\ client[c].asks = "change"
    /\ Saved(p, [Rest(p) EXCEPT !.state = @ \cup {c}])
    /\ Replied(c, "ok", 1)
    /\ UNCHANGED << socketFile, configFile, raced >>

\* A press or a deadline saves the whole state too, and with it what could not be
\* saved before.
SavesAgain(p) ==
    /\ Serving(p)
    /\ Saved(p, proc[p])
    /\ UNCHANGED << socketFile, configFile, client, raced >>

\* Handed to a task, with the reply.
TakeDevices(p, c) ==
    /\ Takes(p, c)
    /\ client[c].asks = "devices"
    /\ Become(p, [Rest(p) EXCEPT !.tasks = @ \cup {c}])
    /\ UNCHANGED << files, calls, raced >>

TaskReplies(p, c) ==
    /\ c \in proc[p].tasks
    /\ Become(p, [proc[p] EXCEPT !.tasks = @ \ {c}])
    /\ Replied(c, "ok", 1)
    /\ UNCHANGED << files, raced, lost >>

-----------------------------------------------------------------------------
(* The control socket and its clients.                                     *)

\* A connection waits until it is accepted.
Send(c, kind) ==
    /\ client[c].phase = "idle"
    /\ IF Live
         THEN /\ client' = [client EXCEPT ![c] = [NoCall EXCEPT
                    !.phase = "waiting", !.asks = kind, !.to = socketFile]]
              /\ Become(socketFile, [proc[socketFile] EXCEPT !.backlog = @ \cup {c}])
         ELSE /\ client' = [client EXCEPT ![c] = [NoCall EXCEPT
                    !.phase = "done", !.asks = kind, !.outcome = "unreachable"]]
              /\ UNCHANGED proc
    /\ UNCHANGED << files, raced, lost >>

\* `handle`: a line that does not decode is refused, anything else is queued for
\* the runtime, also of a client that has gone.
Handle(p, c) ==
    /\ proc[p].accepting
    /\ c \in proc[p].backlog
    /\ LET d == [proc[p] EXCEPT !.backlog = @ \ {c}]
       IN  IF client[c].asks = "garbled"
             THEN Become(p, d) /\ Replied(c, "refused", 0)
             ELSE Become(p, [d EXCEPT !.queue = Append(@, c)]) /\ UNCHANGED client
    /\ UNCHANGED << files, raced, lost >>

\* The answer is written.
Answered(c) ==
    /\ client[c].phase = "waiting"
    /\ client[c].outcome # None
    /\ client' = [client EXCEPT ![c] = Done(c)]
    /\ UNCHANGED << files, proc, raced, lost >>

\* CLIENT_TIMEOUT.
GivesUp(c) ==
    /\ client[c].phase = "waiting"
    /\ client' = [client EXCEPT ![c].phase = "done", ![c].to = None, ![c].outcome = "timeout"]
    /\ UNCHANGED << files, proc, raced, lost >>

-----------------------------------------------------------------------------
\* The code of a start and of an end.
Advance(p) ==
    \/ LoadConfig(p)
    \/ LoadState(p)
    \/ Exists(p)
    \/ Connect(p)
    \/ RemovePath(p)
    \/ Bind(p)
    \/ RestrictPath(p)
    \/ OpenDevice(p)
    \/ SpawnTasks(p)
    \/ StartRuntime(p)
    \/ Shutdown(p)
    \/ AbortTasks(p)
    \/ Unlink(p)
    \/ Close(p)

TakeRequest(p, c) ==
    TakeReload(p, c) \/ TakeStop(p, c) \/ TakeChange(p, c) \/ TakeDevices(p, c)

Take(p) == TakeConfigChanged(p) \/ \E c \in Clients : TakeRequest(p, c)

DaemonsNext ==
    \/ \E p \in Processes :
        Start(p) \/ Advance(p) \/ TakeShutdown(p) \/ Crash(p) \/ Take(p) \/ SavesAgain(p)
    \/ \E p \in Processes, c \in Clients : Handle(p, c) \/ TaskReplies(p, c)
    \/ \E c \in Clients, kind \in Kinds : Send(c, kind)
    \/ \E c \in Clients : Answered(c) \/ GivesUp(c)
    \/ Edit

DaemonsSpec == DaemonsInit /\ [][DaemonsNext]_vars

\* The program's own code and its tasks run.  Nothing else has to happen: no
\* start, no edit, no signal, no other save, and no client gives up.
FairDaemons ==
    /\ DaemonsSpec
    /\ \A p \in Processes : WF_vars(Advance(p)) /\ WF_vars(Take(p))
    /\ \A p \in Processes, c \in Clients : WF_vars(Handle(p, c) \/ TaskReplies(p, c))
    /\ \A c \in Clients : WF_vars(Answered(c))

-----------------------------------------------------------------------------
\* A daemon that serves is the only one, and the one that streamdeckctl reaches,
\* unless a start once removed the path of a socket that somebody had bound
\* since the start had looked at it.
ServerIsAlone ==
    \A p \in MaySave : raced \/ (socketFile = p /\ MaySave = {p})

\* What the processes hold that could not save it.
HeldUnsaved == UNION {proc[p].state : p \in {q \in Processes : proc[q].failed}}

\* A change that was answered as done is in the saved state from then on, through
\* the end, the crash and the start of any daemon, with these exceptions and no
\* other.  A failed save is only logged (runtime/mod.rs: persist): until a later one
\* succeeds, the change is with the process alone, and it is lost if that ends
\* first.  And a saved change is lost to the first save of a process that had read
\* the state before and bound its socket after it, or could not load it and started
\* from defaults (main.rs: serve), and to any save of one that serves next to another.
AnswersAreKept ==
    \A c \in Clients :
        client[c].asks = "change" /\ client[c].outcome = "ok" =>
            c \in disk \cup lost \cup HeldUnsaved

\* What streamdeckctl is told is so: done is done once, and what is said not
\* to have been done is not done later either.  Only a time-out or a connection
\* that was closed leaves that open.
AnswersAreTrue ==
    \A c \in Clients :
        /\ client[c].carried <= 1
        /\ client[c].outcome = "ok" => client[c].carried = 1
        /\ client[c].outcome \in {"refused", "unreachable", "unanswered"} =>
                client[c].carried = 0

\* An answer is true, and kept as far as AnswersAreKept says.
AnswersHold == AnswersAreKept /\ AnswersAreTrue

\* A daemon that goes on serving comes to use the configuration as it was left, if
\* that loads; except for an edit between the load at its start and its watcher,
\* and for a watcher that did not come up.
EditsTakeEffect ==
    \A p \in Processes :
        <>[]Serving(p) =>
            <>[](configFile.valid /\ proc[p].watching /\ ~proc[p].missed =>
                    proc[p].config = configFile.version)

\* Every request ends, without the client's own limit of 30 seconds.
RequestsEnd ==
    \A c \in Clients : client[c].phase = "waiting" ~> client[c].phase = "done"

\* What is asked of a daemon is looked at, by file or by socket.
NothingIsIgnored == EditsTakeEffect /\ RequestsEnd

=============================================================================
