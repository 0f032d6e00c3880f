------------------------------ MODULE MCTiles --------------------------------
(***************************************************************************)
(* Controls with a few answers of each service, among them the ones that   *)
(* are easy to get wrong: what is left out, what is equal, what comes in   *)
(* another order, and every way to fail at least once; and with a Mac on   *)
(* which names are ambiguous.                                              *)
(***************************************************************************)
EXTENDS Controls

Child(out) == [starts |-> TRUE, inTime |-> TRUE, long |-> FALSE, exit |-> 0, stdout |-> out]
TimesOut(out) == [Child(out) EXCEPT !.inTime = FALSE]
Exits(out) == [Child(out) EXCEPT !.exit = 1]

Reply(body) == [status |-> 200, arrives |-> "whole", body |-> body]
Down == [status |-> 0, arrives |-> "whole", body |-> None]
Forbidden == [status |-> 403, arrives |-> "whole", body |-> None]
TooLong == [status |-> 200, arrives |-> "tooLong", body |-> None]

-----------------------------------------------------------------------------
(* The agenda, from 16:50 on.                                               *)

Meet(path) == [host |-> "meet", path |-> path]
Event(title, start, end, hangout, video) ==
    [title |-> title, start |-> start, end |-> end, hangout |-> hangout, video |-> video,
     cancelled |-> FALSE, allDay |-> FALSE]

Standup == Event("standup", 1015, 1030, Meet("stand"), None)
Review == Event("review", 1020, 1040, [host |-> "other", path |-> "x"], Meet("rev"))
ReviewCopy == Event("review (copy)", 1020, 1050, Meet("rev"), None)
Tomorrow == Event("tomorrow", 1440 + 540, 1440 + 570, Meet("tom"), None)
Lunch == Event("lunch", 1012, 1100, None, None)

Calendar == [
    work |-> {Child(<< Standup, Review >>), Child(<< Tomorrow, Lunch >>),
              Child(<< [Review EXCEPT !.cancelled = TRUE], Standup >>), TimesOut(<< Standup >>)},
    home |-> {Child(<< ReviewCopy, Standup >>), Child(<< >>), Exits(None)}]

-----------------------------------------------------------------------------
(* GitHub.                                                                  *)

LatestRun(repository, status, conclusion, updated) ==
    << [status |-> status, conclusion |-> conclusion, updated |-> updated,
        url |-> << repository, updated >>] >>

Runs == [
    api |-> {Child(LatestRun("api", "completed", "failure", 3)),
             Child(LatestRun("api", "completed", "success", 5)),
             Child(LatestRun("api", "in_progress", None, 4)), Exits(None)},
    web |-> {Child(LatestRun("web", "completed", "timed_out", 4)),
             Child(LatestRun("web", "queued", None, 4)),
             Child(LatestRun("web", "completed", "skipped", 6)),
             Child(LatestRun("other", "completed", "failure", 9)), Child(<< >>)}]

Item(number, updated) == [number |-> number, updated |-> updated, whole |-> TRUE, site |-> "github"]

Searches == [
    Reviews  |-> {Child(<< >>), Child(<< Item(1, 1) >>)},
    Prs      |-> {Child(<< Item(2, 1), Item(3, 5), Item(4, 5) >>),
                  Child(<< [Item(5, 9) EXCEPT !.site = "elsewhere"], Item(6, 2) >>),
                  Child(None)},
    Assigned |-> {Child(<< [Item(7, 3) EXCEPT !.whole = FALSE], Item(8, 1) >>)},
    Inbox    |-> {Child(0), Child(100), TimesOut(0)}]

-----------------------------------------------------------------------------
(* The departures, from minute 10 on.                                       *)

North == [label |-> "north", gid |-> "g1", line |-> "754", direction |-> "heden"]
South == [label |-> "south", gid |-> "g2", line |-> "", direction |-> ""]

Leaves(line, at) == [line |-> line, direction |-> "heden", at |-> at, cancelled |-> line = "X"]
Busy == [i \in 1..9 |-> IF i = 9 THEN Leaves("754", 20) ELSE Leaves("6", 10 + i)]

Stops == {Reply(<< Leaves("754", 7), Leaves("754", 8), Leaves("6", 9), Leaves("754", 11) >>),
          Reply(Busy), Forbidden, Down}

-----------------------------------------------------------------------------
(* Limits, the Mac, the weather and the lake.                               *)

Window(percent, hours, reset) == [percent |-> percent, hours |-> hours, reset |-> reset]

Claude == {Reply([five_hour |-> Window(130, 5, 12), seven_day |-> None]),
           Reply([five_hour |-> None, seven_day |-> Window(70, 168, None)]),
           Reply([five_hour |-> Window(None, 5, 12), seven_day |-> None]), Forbidden}

Codex == {Reply([primary |-> Window(20, 5, 12), secondary |-> Window(95, 168, 9), limit_reached |-> FALSE]),
          Reply([primary |-> Window(101, 168, 12), secondary |-> Window(30, 5, 9), limit_reached |-> TRUE]),
          Reply([primary |-> None, secondary |-> Window(-3, 168, 9), limit_reached |-> FALSE]), Down}

Mac == [
    pmset  |-> {Child([battery |-> 9, source |-> "Battery", charging |-> FALSE]),
                Child([battery |-> 120, source |-> "AC", charging |-> TRUE]), Exits(None)},
    memory |-> {Child([free |-> 14]), Child([free |-> 60]), Child([free |-> None])}]

Network == [
    nwi  |-> {Child([reachable |-> TRUE]), Child([reachable |-> FALSE]), TimesOut(None)},
    vpns |-> {Child([office |-> "Connected"]), Child([office |-> "Connecting", home |-> "Connected"]),
              Exits(None)}]

Point(time, temperature, rain, symbol) ==
    [time |-> time, temperature |-> temperature, rain |-> rain, symbol |-> symbol]

Forecast == {
    [status |-> 200, arrives |-> "whole", modified |-> TRUE,
     body |-> << Point(9, 4, 0, "cloudy"), Point(13, 8, 1, "rain"), Point(11, 9, 0, "sun"),
                 Point(33, 3, 2, "sleet"), Point(37, -2, 0, "sun") >>],
    [status |-> 200, arrives |-> "whole", modified |-> FALSE,
     body |-> << Point(30, 5, 0, "fog"), Point(9, 99, 0, "sun"), Point(18, None, 0, "sun") >>],
    [status |-> 304, arrives |-> "whole", modified |-> TRUE, body |-> None],
    [status |-> 200, arrives |-> "whole", modified |-> TRUE, body |-> << >>],
    Down}

Reading(lake, at, temperature) == [lake |-> lake, at |-> at, temperature |-> temperature]

Lake == {Reply(<< Reading("l1", 9, 18), Reading("l2", 9, 17) >>),
         Reply(<< Reading("l2", 10, 99), Reading("l1", -1, 12) >>),
         Reply(<< Reading("l1", 12, 60) >>), TooLong}

Daily(lake) == [d \in 1..8 |-> Reading(lake, d, 10 + d)]

History == {Reply([l1 |-> Daily("l1"), l2 |-> << Reading("l2", 4, 20), Reading("l2", 9, 15) >>]),
            Reply([l1 |-> << Reading("l1", 3, 99), Reading("l1", 8, 20), Reading("l1", 8, 21) >>]),
            Reply(<< >>), TooLong}

-----------------------------------------------------------------------------
MCSubjects == Integrations \cup Actors

MCLimits == [warning |-> 70, critical |-> 90]

MCAnswers(s, part) ==
    CASE s = "agenda"   -> Calendar[part]
      [] s = "radar"    -> Runs[part]
      [] s = "github"   -> Searches[part]
      [] s = "transit"  -> Stops
      [] s = "claude"   -> Claude
      [] s = "codex"    -> Codex
      [] s = "health"   -> Mac[part]
      [] s = "network"  -> Network[part]
      [] s = "forecast" -> Forecast
      [] s = "lake"     -> Lake
      [] s = "history"  -> History

MCTokenAnswers == {Reply(3600), Reply(60), Down}

MCConfigs(s) ==
    CASE s = "agenda"   -> {[accounts |-> << "work", "home" >>]}
      [] s = "radar"    -> {[repositories |-> << "api", "web" >>], [repositories |-> << "web" >>]}
      [] s = "github"   -> {[limit |-> 2]}
      [] s = "transit"  -> {[stops |-> << North, South >>], [stops |-> << South >>]}
      [] s \in {"claude", "codex"} -> {[limits |-> MCLimits]}
      [] s = "health"   -> {[always |-> TRUE]}
      [] s = "network"  -> {[vpn |-> "home"], [vpn |-> "office"]}
      [] s = "forecast" -> {[place |-> "here"], [place |-> "there"]}
      [] s \in {"lake", "history"} -> {[lake |-> "l1"], [lake |-> "l2"]}
      [] s \in Actors -> {[always |-> TRUE]}

MCInstants(s) == IF s = "agenda" THEN {1014, 1020, 1030} ELSE {10, 13}

-----------------------------------------------------------------------------
(* Sound: two devices fit one target, one of them has no level.             *)

MCSound == [spk |-> [kind |-> "Output", name |-> "Speakers", control |-> "main"],
            pods |-> [kind |-> "Output", name |-> "AirPods", control |-> "channels"],
            dock |-> [kind |-> "Output", name |-> "Dock", control |-> "none"],
            mic |-> [kind |-> "Input", name |-> "Mic", control |-> "main"]]
MCTargets == [Output |-> << [label |-> "l1", exact |-> "Speakers", pattern |-> None],
                            [label |-> "l2", exact |-> None, pattern |-> {"AirPods", "Dock"}] >>,
              Input |-> << [label |-> "l3", exact |-> None, pattern |-> {"Mic"}] >>]
AKey(do, side, arg) == [do |-> do, kind |-> side, arg |-> arg]
MCAudioKeys == {AKey("select", "Output", 0), AKey("select", "Output", 1),
               AKey("adjust", "Output", 10),
               AKey("toggle", "Input", 0)}

-----------------------------------------------------------------------------
(* Spotify and Wispr Flow: two covers and room for one.                     *)

MCSongs == [one |-> [name |-> "One", art |-> "cover1"], two |-> [name |-> "Two", art |-> "cover2"], three |-> [name |-> "Three", art |-> None]]
PK(do, arg) == [do |-> do, arg |-> arg]
MCPlayerKeys == {PK("playlist", 0), PK("playlist", 1), PK("volume", 10), PK("open", 0)}
MCPlaylists == << "two" >>

MCMicrophones == << "m1", "m2" >>

-----------------------------------------------------------------------------
(* Players: helpers, a bundle that only macOS knows, and tabs that disagree. *)

MCOwners == [
    helper |-> App("Google Chrome Helper", None, FALSE),
    chrome |-> App("Google Chrome", "com.google.Chrome", TRUE),
    daemon |-> App(None, "com.spotify.client", FALSE),
    game   |-> App("Game", "com.game", TRUE),
    player |-> App("Music", "com.apple.Music", TRUE)]
Scene(owner, title, bundle, sounding, tabs) == [owner |-> owner, title |-> title, bundle |-> bundle, sounding |-> sounding, tabs |-> tabs]
Tab(title, site) == [title |-> title, site |-> site]
MCScenes == {
    Scene(None, None, None, {"helper", "chrome", "game"}, << Tab({"new", "tab"}, None), Tab({"a"}, "YouTube"), Tab({"b"}, "YouTube") >>),
    Scene("helper", {"a"}, None, {"helper"}, << Tab({"b", "netflix"}, "Netflix"), Tab({"a", "youtube"}, "YouTube") >>),
    Scene("chrome", None, None, {"chrome"}, << Tab({"b", "netflix"}, "Netflix"), Tab({"a", "youtube"}, "YouTube") >>),
    Scene(None, {"c"}, App(None, "com.spotify.client", FALSE), {"daemon", "player"}, << >>),
    Scene("player", {"d"}, App(None, "com.apple.Music", TRUE), {"player", "daemon"}, << >>),
    Scene("game", {"e"}, App(None, "com.game", TRUE), {"game", "player"}, << >>),
    Scene(None, None, None, {}, << >>)}

-----------------------------------------------------------------------------
(* Applications: one that is started again, and one without a bundle.       *)

Proc(name, family, exact, pid, from) == [name |-> name, family |-> family, exact |-> exact, pid |-> pid, from |-> from]
MCProcesses == [
    ghostty |-> Proc({"ghostty"}, "com.mitchellh.ghostty", TRUE, 11, "start"),
    again   |-> Proc({"ghostty"}, "com.mitchellh.ghostty", TRUE, 12, "later"),
    meet    |-> Proc({"google", "meet"}, "com.google.Chrome", FALSE, 13, "start"),
    nameless |-> Proc({"unknown", "application"}, None, FALSE, 14, "start"),
    music   |-> Proc({"spotify"}, "com.spotify.client", TRUE, 15, "later")]
AppKey(do, slot) == [do |-> do, slot |-> slot]
MCAppCommands == {AppKey("hide", 0), AppKey("quit", 0), AppKey("recent", 0), AppKey("recent", 1), AppKey("context", 2)}

-----------------------------------------------------------------------------
(* Light: limits that do not meet, and a curve with three slopes.           *)

LC(e, a, b, c) == [enabled |-> e, minimum |-> a, maximum |-> b, brightness |-> c]
MCLightConfigs == {LC(TRUE, 15, 75, 50), LC(TRUE, 33, 47, 60), LC(FALSE, 15, 75, 60), LC(TRUE, 20, 21, 90)}
MCCurve(lux) == CASE lux < 1 -> 0 [] lux < 64 -> 300 + 4 * lux [] lux < 640 -> 600 + (lux \div 2) [] OTHER -> 1000
MCReadings == {-1, 0, 200, 2560}

=============================================================================
