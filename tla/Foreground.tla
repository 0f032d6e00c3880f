------------------------------ MODULE Foreground ------------------------------
(***************************************************************************)
(* The application in front, what its keys do to it, and the applications  *)
(* that were in front before: integrations/application.rs of               *)
(* streamdeck-core, application.rs of streamdeck-macos, the application    *)
(* tasks of runtime/actions.rs, the history of runtime/state.rs and the    *)
(* tiles of pages/views.rs.                                                *)
(*                                                                         *)
(* The deck knows the application in front by polling; a key acts through  *)
(* a task that runs later.  In between the user starts, quits and switches *)
(* applications.                                                           *)
(***************************************************************************)
EXTENDS Tiles

CONSTANTS
    Processes,     \* of each process there may be: [name, family, exact, pid, from]
    AppCommands,   \* the presses there are: [do, slot]
    HistorySize,   \* 6 in the code
    RecentKeys,    \* 5 in the code
    MaxErrands,    \* bound
    MaxPolls,      \* bound
    MaxSwitches    \* bound

\* A name is the set of its words; a bundle identifier is a family and whether it is
\* exactly that, or None.
ASSUME ForegroundAssumption ==
    /\ \A p, q \in DOMAIN Processes : Processes[p].pid = Processes[q].pid => p = q
    /\ HistorySize = RecentKeys + 1
    /\ \A c \in AppCommands :
            c.do \in {"activate", "hide", "quit", "forceQuit", "recent", "context"}
    /\ {RecentKeys, MaxErrands, MaxPolls, MaxSwitches} \subseteq Nat

VARIABLES
    desk,       \* [running, front]: the processes, and the one in front, or None
    appFeed,    \* the application in front, as far as the deck knows
    polled,     \* what a poll has read and not delivered, or None
    history,    \* `application_history`
    errands,    \* the tasks of the presses so far
    observed,   \* auxiliary: every application that was stored, the last one first
    appCounts   \* the bounded counters

foreground == << desk, appFeed, polled, history, errands, observed, appCounts >>

-----------------------------------------------------------------------------
(* What an application is.                                                  *)

Browsers == {"com.google.Chrome", "com.apple.Safari", "org.mozilla.firefox",
             "com.brave.Browser", "company.thebrowser.Browser", "com.microsoft.edgemac"}

is_browser(a) ==
    a.family \in Browsers \/ {"chrome", "safari", "firefox", "brave", "arc", "edge"} \cap a.name # {}

Exactly(a, bundle, name) == (a.family = bundle /\ a.exact) \/ a.name = name

\* The first that fits.
kind(a) ==
    IF a.family = "com.spotify.client" \/ a.name = {"spotify"} THEN "Spotify"
    ELSE IF a.family = "com.electron.wispr-flow" \/ {"wispr", "flow"} \subseteq a.name THEN "Wispr"
    ELSE IF {"google", "meet"} \subseteq a.name THEN "Meet"
    ELSE IF Exactly(a, "com.mitchellh.ghostty", {"ghostty"}) THEN "Ghostty"
    ELSE IF Exactly(a, "com.google.Chrome", {"google", "chrome"}) THEN "Chrome"
    ELSE IF Exactly(a, "com.apple.finder", {"finder"}) THEN "Finder"
    ELSE IF Exactly(a, "com.tinyspeck.slackmacgap", {"slack"}) THEN "Slack"
    ELSE IF is_browser(a) THEN "Browser"
    ELSE "Other"

\* Bundle identifiers if both have one; otherwise the process or the name.
same_application(a, b) ==
    IF a.family # None /\ b.family # None
      THEN a.family = b.family /\ a.exact = b.exact
      ELSE a.pid = b.pid \/ a.name = b.name

\* The applications with scripts of their own.
Scripted == {"Ghostty", "Chrome", "Finder", "Slack"}

\* What a key of the second row does for an application of a kind.
context_action(k, slot) ==
    CASE k \in Scripted -> [do |-> "custom", to |-> k, slot |-> slot]
      [] k = "Spotify"  -> [do |-> "spotify", to |-> "Spotify",
                            slot |-> << "Previous", "PlayPause", "Next", "Back", "Ahead" >>[slot + 1]]
      [] k = "Wispr" /\ slot = 0        -> [do |-> "toggle", to |-> "Wispr", slot |-> 0]
      [] k = "Wispr" /\ slot \in 1..3   -> [do |-> "microphone", to |-> "Wispr", slot |-> slot - 1]
      [] k = "Meet" /\ slot \in 0..1    -> [do |-> "meeting", to |-> "Meet", slot |-> slot]
      [] k = "Meet" /\ slot = 2         -> [do |-> "toggle", to |-> "Wispr", slot |-> 0]
      [] k = "Meet" /\ slot = 3         -> [do |-> "navigate", to |-> "Mixer", slot |-> 0]
      [] k \in {"Wispr", "Meet"} /\ slot = 4 -> [do |-> "navigate", to |-> "Wispr", slot |-> 0]
      [] OTHER                          -> [do |-> "none", to |-> None, slot |-> 0]

-----------------------------------------------------------------------------
(* The history, and the tiles.                                              *)

Record(list, a) ==
    Take(<< a >> \o Only(list, {i \in DOMAIN list : ~same_application(list[i], a)}), HistorySize)

\* All but the one in front.
Recents ==
    Take(Only(history, {i \in DOMAIN history :
                            ~(HasValue(appFeed) /\ same_application(history[i], appFeed.value))}),
         RecentKeys)

AppFace(feed) ==
    IF ~HasValue(feed) THEN offline_or_loading(feed)
    ELSE Face(kind(feed.value), << feed.value.name >>, StatusOf(feed))

RecentFace(slot) ==
    LET a == At(Recents, slot)
    IN  IF a = None THEN Disabled("plain", << "NONE YET" >>) ELSE Face(kind(a), << a.name >>, "Ok")

\* The tile of a context key shows what its action is about.
ContextFace(feed, slot) ==
    IF ~HasValue(feed) THEN offline_or_loading(feed)
    ELSE LET action == context_action(kind(feed.value), slot)
         IN  IF action.do = "none" THEN Face("blank", << >>, "Ok")
             ELSE Face(action.to, << action.do, action.slot >>, "Ok")

\* The name that a key shows: its own, or that of the application in front, which
\* the key in the corner shows for it.
Shown(command) ==
    IF command.do = "recent" THEN RecentFace(command.slot).shows ELSE AppFace(appFeed).shows

-----------------------------------------------------------------------------
(* Presses.                                                                 *)

ForegroundInit ==
    /\ desk = [running |-> {p \in DOMAIN Processes : Processes[p].from = "start"}, front |-> None]
    /\ appFeed = Loading
    /\ polled = None
    /\ history = << >>
    /\ errands = << >>
    /\ observed = << >>
    /\ appCounts = [polls |-> 0, switches |-> 0]

\* The task that a press starts, or None.
ErrandOf(command) ==
    LET Errand(do, a, about) ==
            [do |-> do, app |-> a, about |-> about, key |-> command,
             shown |-> Shown(command), said |-> None, hit |-> None]
        current == appFeed.value
    IN  IF ~HasValue(appFeed) THEN None
        ELSE CASE command.do = "recent" ->
                    IF At(Recents, command.slot) = None THEN None
                    ELSE Errand("activate", At(Recents, command.slot), None)
               [] command.do = "context" ->
                    LET action == context_action(kind(current), command.slot)
                    IN  IF action.do = "custom" THEN Errand("custom", current, action) ELSE None
               [] OTHER -> Errand(command.do, current, None)

\* The other context keys give their action to the task of the same name of the
\* Spotify, Wispr and meeting keys, or turn the page.
PressApplication ==
    /\ Len(errands) < MaxErrands
    /\ \E command \in AppCommands :
        /\ ErrandOf(command) # None
        /\ errands' = Append(errands, ErrandOf(command))
    /\ UNCHANGED << desk, appFeed, polled, history, observed, appCounts >>

Running(a) == {p \in desk.running : Processes[p].pid = a.pid}

Without(p) ==
    [running |-> desk.running \ {p},
     front |-> IF desk.front # p THEN desk.front
               ELSE IF desk.running = {p} THEN None
               ELSE CHOOSE q \in desk.running \ {p} : TRUE]

\* What an accepted request does to the desk.
Effect(control, p) ==
    CASE control = "activate" -> [desk EXCEPT !.front = p]
      [] control = "hide"     -> [Without(p) EXCEPT !.running = desk.running]
      [] OTHER                -> Without(p)

\* Mutant: a task takes the application that is known when it runs.
FaultyAim(errand) ==
    IF errand.key.do = "recent"
      THEN IF At(Recents, errand.key.slot) = None THEN errand.app ELSE At(Recents, errand.key.slot)
      ELSE appFeed.value

\* A task has the application that was known when the press was handled.
Aim(errand) == errand.app

Finished(e, said, hit) == [errands EXCEPT ![e].said = said, ![e].hit = hit]

\* The request goes to the process, which may take its time.  What macOS does not
\* accept may be done a moment later all the same, if it is a window that is to come
\* or to go.
ControlRuns ==
    \E e \in DOMAIN errands :
        /\ errands[e].said = None /\ errands[e].do # "custom"
        /\ LET there == Running(Aim(errands[e]))
               control == errands[e].do
           IN  \/ /\ there = {}
                  /\ errands' = Finished(e, "NotRunning", None)
                  /\ UNCHANGED desk
               \/ \E p \in there :
                    \E said \in IF control \in {"activate", "hide"} THEN {"ok", "Rejected"} ELSE {"ok"} :
                        /\ desk' \in {Effect(control, p), desk}
                        /\ errands' = Finished(e, said, p)
               \/ /\ there # {}
                  /\ errands' = Finished(e, "Rejected", None)
                  /\ UNCHANGED desk
    /\ UNCHANGED << appFeed, polled, history, observed, appCounts >>

\* A script names its application, whichever process that is, and starts it if it
\* does not run.
CustomRuns ==
    \E e \in DOMAIN errands :
        /\ errands[e].said = None /\ errands[e].do = "custom"
        /\ \/ \E p \in {p \in DOMAIN Processes : kind(Processes[p]) = errands[e].about.to} :
                /\ p \in desk.running \/ \A q \in desk.running : ~same_application(Processes[q], Processes[p])
                /\ desk' = [desk EXCEPT !.running = @ \cup {p}]
                /\ \E said \in {"ok", "error"} : errands' = Finished(e, said, p)
           \/ errands' = Finished(e, "error", None) /\ UNCHANGED desk
    /\ UNCHANGED << appFeed, polled, history, observed, appCounts >>

-----------------------------------------------------------------------------
(* Polls, and the desk.                                                     *)

\* A window in front that is not the deck's own, or else what macOS says is active;
\* there may be none.
frontmost == IF desk.front = None THEN "none" ELSE desk.front

PollReads ==
    /\ polled = None
    /\ appCounts.polls < MaxPolls
    /\ polled' = frontmost
    /\ appCounts' = [appCounts EXCEPT !.polls = @ + 1]
    /\ UNCHANGED << desk, appFeed, history, errands, observed >>

PollStores ==
    /\ polled # None
    /\ polled' = None
    /\ IF polled = "none"
         THEN /\ appFeed' = Failing(appFeed)
              /\ UNCHANGED << history, observed >>
         ELSE LET a == Processes[polled]
              IN  /\ appFeed' = Ready(a)
                  /\ history' = Record(history, a)
                  /\ observed' = << a >> \o observed
    /\ UNCHANGED << desk, errands, appCounts >>

\* The user switches to an application, starts one, or quits one.
UserActs ==
    /\ appCounts.switches < MaxSwitches
    /\ appCounts' = [appCounts EXCEPT !.switches = @ + 1]
    /\ \/ \E p \in desk.running : desk' = [desk EXCEPT !.front = p]
       \/ \E p \in DOMAIN Processes \ desk.running :
            /\ \A q \in desk.running : ~same_application(Processes[q], Processes[p])
            /\ desk' = [running |-> desk.running \cup {p}, front |-> p]
       \/ \E p \in desk.running : desk' = Without(p)
    /\ desk' # desk
    /\ UNCHANGED << appFeed, polled, history, errands, observed >>

ForegroundNext ==
    \/ PressApplication
    \/ ControlRuns
    \/ CustomRuns
    \/ PollReads
    \/ PollStores
    \/ UserActs

-----------------------------------------------------------------------------
(* Properties.                                                              *)

\* What was in front before, without what was in front again later.
OthersBefore ==
    LET again(i) == \E j \in 1..i - 1 : same_application(observed[i], observed[j])
    IN  Tail(Only(observed, {i \in DOMAIN observed : ~again(i)}))

\* An application without a bundle may pass for two that differ.
Unmistakable ==
    \A i, j, k \in DOMAIN observed :
        same_application(observed[i], observed[j]) /\ same_application(observed[j], observed[k])
            => same_application(observed[i], observed[k])

\* The recent keys are the applications that were in front before this one, the last
\* one first, each once; none is missing, unless one passed for two others and took
\* both with it.  (`record_frontmost_application`, `recent_application`.)
RecentsAreRecent ==
    observed # << >> =>
        /\ IsPrefix(Recents, OthersBefore)
        /\ Unmistakable => Recents = Take(OthersBefore, RecentKeys)

\* A key acts on the application whose name it showed when it was pressed, or on
\* none: not on what came to the front while its task waited.  A script runs in the
\* application that the key named.  (`apply_application`, `control`, `custom`.)
AppsAreMeant ==
    \A e \in DOMAIN errands :
        errands[e].hit # None =>
            IF errands[e].do = "custom"
              THEN kind(Processes[errands[e].hit]) = kind(errands[e].app)
              ELSE errands[e].shown = << Processes[errands[e].hit].name >>

ForegroundIsMeant == RecentsAreRecent /\ AppsAreMeant

=============================================================================
