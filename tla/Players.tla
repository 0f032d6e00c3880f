-------------------------------- MODULE Players --------------------------------
(***************************************************************************)
(* Spotify: what its keys do, what its tile shows, and the cover that is   *)
(* fetched for it.  integrations/spotify.rs of streamdeck-core, spotify.rs *)
(* of streamdeck-macos, the artwork path of runtime/mod.rs with the cache  *)
(* of streamdeck-render, the tasks of runtime/actions.rs and the tiles of  *)
(* pages/views.rs.                                                         *)
(*                                                                         *)
(* A status is read by one script, but the script asks Spotify one thing   *)
(* after another; a cover comes when the track may be another one; tasks   *)
(* run side by side.  Wispr Flow, the other application that is driven     *)
(* without being watched, comes second.                                    *)
(***************************************************************************)
EXTENDS Tiles

CONSTANTS
    Songs,         \* of each track id: [name, art], the art None if it is not of Spotify's CDN
    Playlists,     \* the sequence of configured playlists: each the track it begins with
    PlayerKeys,    \* the presses there are: [do, arg]
    CoverLimit,    \* 8 in the code
    MaxJobs,       \* bound
    MaxReads,      \* bound
    MaxSkips       \* bound: times the player changes by itself

ASSUME PlayersAssumption ==
    /\ \A i \in DOMAIN Playlists : Playlists[i] \in DOMAIN Songs
    /\ \A key \in PlayerKeys :
        /\ key.do \in {"open", "playpause", "next", "playlist", "volume"}
        /\ key.do = "volume" => key.arg \in Int
    /\ CoverLimit \in Nat \ {0} /\ {MaxJobs, MaxReads, MaxSkips} \subseteq Nat

VARIABLES
    spotify,      \* [running, playing, song, volume]: the player
    script,       \* the status script: None, or what it has read so far
    spotifyFeed,
    downloads,    \* `artwork_in_flight`, each with its URL
    covers,       \* the artwork cache, the least recently used first: [key, art]
    tile,         \* the Spotify tile as it was drawn last: [face, cover]
    jobs,         \* the tasks of the presses so far
    torn,         \* auxiliary: tracks whose status was read while the track changed
    playerCounts  \* the bounded counters

players == << spotify, script, spotifyFeed, downloads, covers, tile, jobs, torn,
              playerCounts >>

-----------------------------------------------------------------------------
(* Status and tiles.                                                        *)

not_running == [state |-> "NotRunning", name |-> None, art |-> None, track |-> None, volume |-> 0]

is_available(status) == status.state # "NotRunning"

SpotifyFace(feed) ==
    IF ~HasValue(feed) THEN Face("plain", << >>, StatusOf(feed))
    ELSE LET status == feed.value
         IN  Face(IF status.state = "Playing" THEN "spotify" ELSE "plain",
                  << status.name,
                     IF status.art = None THEN None ELSE status.track >>,
                  IF is_available(status) THEN StatusOf(feed) ELSE "Disabled")

\* The level on the volume keys, or None.
VolumeShown(feed) ==
    IF HasValue(feed) /\ is_available(feed.value) THEN feed.value.volume ELSE None

Clamped(volume) == IF volume < 0 THEN 0 ELSE IF volume > 100 THEN 100 ELSE volume

-----------------------------------------------------------------------------
(* Covers.                                                                  *)

CoverIn(list, key) == FirstOf(list, LAMBDA c : c.key = key)
CoverAt(key) == CoverIn(covers, key)
has_artwork(key) == CoverAt(key) # None

\* A track has one cover at most.
TakenOut(list, key) ==
    LET places == {i \in DOMAIN list : list[i].key = key}
    IN  IF places = {} THEN list ELSE RemoveAt(list, Min(places))

\* What is used, or comes in, is the last to be thrown out.
Used(list, cover) == TakenOut(list, cover.key) \o << cover >>

Limited(list) == IF Len(list) > CoverLimit THEN Tail(list) ELSE list

\* A tile whose view has not changed is not drawn again, whatever has come for it.
Drawn(feed, list) ==
    LET face == SpotifyFace(feed)
        key == IF HasValue(feed) THEN face.shows[2] ELSE None
        cover == IF key = None THEN None ELSE CoverIn(list, key)
    IN  IF face = tile.face
          THEN tile' = tile /\ covers' = list
          ELSE /\ tile' = [face |-> face, cover |-> IF cover = None THEN None ELSE cover.art]
               /\ covers' = IF cover = None THEN list ELSE Used(list, cover)

\* `maybe_fetch_artwork`, of the track that the feed knows, current or not.
Wanted(feed) ==
    IF ~HasValue(feed) \/ feed.value.track = None \/ feed.value.art = None
         \/ has_artwork(feed.value.track)
         \/ \E d \in downloads : d.key = feed.value.track
      THEN {}
      ELSE {[key |-> feed.value.track, art |-> feed.value.art]}

-----------------------------------------------------------------------------
PlayersInit ==
    /\ \E s \in DOMAIN Songs :
            spotify = [running |-> TRUE, playing |-> TRUE, song |-> s, volume |-> 30]
    /\ script = None
    /\ spotifyFeed = Loading
    /\ downloads = {}
    /\ covers = << >>
    /\ tile = [face |-> SpotifyFace(Loading), cover |-> None]
    /\ jobs = << >>
    /\ torn = {}
    /\ playerCounts = [reads |-> 0, skips |-> 0]

\* The script asks for the name and the address of the cover ...
ScriptStarts ==
    /\ script = None
    /\ playerCounts.reads < MaxReads
    /\ script' = IF ~spotify.running THEN [step |-> "done", status |-> not_running]
                 ELSE [step |-> "half", song |-> spotify.song]
    /\ playerCounts' = [playerCounts EXCEPT !.reads = @ + 1]
    /\ UNCHANGED << spotify, spotifyFeed, downloads, covers, tile, jobs, torn >>

\* ... and then for the id and the volume.  Without a track it has neither.
ScriptGoesOn ==
    /\ script # None /\ script.step = "half"
    /\ LET s == script.song
       IN  \/ /\ spotify.running
              /\ script' = [step |-> "done", status |->
                    [state |-> IF spotify.playing THEN "Playing" ELSE "Paused",
                     name |-> IF s = None \/ spotify.song = None THEN None ELSE Songs[s].name,
                     art |-> IF s = None \/ spotify.song = None THEN None ELSE Songs[s].art,
                     track |-> IF s = None THEN None ELSE spotify.song,
                     volume |-> spotify.volume]]
              /\ torn' = IF s # spotify.song THEN torn \cup {spotify.song} ELSE torn
           \/ /\ script' = [step |-> "failed"]
              /\ UNCHANGED torn
    /\ UNCHANGED << spotify, spotifyFeed, downloads, covers, tile, jobs, playerCounts >>

\* `apply_refresh`.
StatusStored ==
    /\ script # None /\ script.step # "half"
    /\ LET stored == IF script.step = "done" THEN Ready(script.status) ELSE Failing(spotifyFeed)
       IN  /\ spotifyFeed' = stored
           /\ downloads' = downloads \cup Wanted(stored)
           /\ Drawn(stored, covers)
    /\ script' = None
    /\ UNCHANGED << spotify, jobs, torn, playerCounts >>

\* Mutant: a cover is filed under the track that is current when it comes.
FaultyKeyOf(download) ==
    IF HasValue(spotifyFeed) /\ spotifyFeed.value.track # None THEN spotifyFeed.value.track
    ELSE download.key

KeyOf(download) == download.key

\* `ArtworkFetched`.  The download may fail, and what comes may not be an image.
CoverArrives ==
    \E d \in downloads :
        /\ downloads' = downloads \ {d}
        /\ \/ Drawn(spotifyFeed, Limited(Used(covers, [key |-> KeyOf(d), art |-> d.art])))
           \/ UNCHANGED << covers, tile >>
        /\ UNCHANGED << spotify, script, spotifyFeed, jobs, torn, playerCounts >>

-----------------------------------------------------------------------------
(* Presses.                                                                 *)

\* The volume that a task sets is that of the feed, moved, or is counted from 50.
PressPlayer ==
    /\ Len(jobs) < MaxJobs
    /\ \E key \in PlayerKeys :
        LET known == IF HasValue(spotifyFeed) THEN spotifyFeed.value.volume ELSE 50
        IN  jobs' = Append(jobs,
                [do |-> key.do, said |-> None, shown |-> VolumeShown(spotifyFeed), key |-> key,
                 arg |-> IF key.do = "volume" THEN Clamped(known + key.arg) ELSE key.arg])
    /\ UNCHANGED << spotify, script, spotifyFeed, downloads, covers, tile, torn, playerCounts >>

\* What a control does to the player.  A playlist that is not configured is an error.
Controls(job) ==
    IF job.do # "open" /\ ~spotify.running THEN {}
    ELSE CASE job.do = "open"      -> {[spotify EXCEPT !.running = TRUE]}
           [] job.do = "playpause" -> {[spotify EXCEPT !.playing = ~@]}
           [] job.do = "next"      -> {[spotify EXCEPT !.song = s] : s \in DOMAIN Songs}
           [] job.do = "playlist"  -> {[spotify EXCEPT !.song = s, !.playing = TRUE] :
                                         s \in {At(Playlists, job.arg)} \ {None}}
           [] job.do = "volume"    -> {[spotify EXCEPT !.volume = job.arg]}

\* A command that fails may have had its effect.
JobRuns ==
    \E j \in DOMAIN jobs :
        /\ jobs[j].said = None
        /\ \E word \in {"ok", "error"} :
            /\ jobs' = [jobs EXCEPT ![j].said = word]
            /\ spotify' \in Controls(jobs[j]) \cup (IF word = "ok" THEN {} ELSE {spotify})
    /\ UNCHANGED << script, spotifyFeed, downloads, covers, tile, torn, playerCounts >>

\* The track ends, or the user does something in Spotify.
PlayerSkips ==
    /\ playerCounts.skips < MaxSkips
    /\ playerCounts' = [playerCounts EXCEPT !.skips = @ + 1]
    /\ \/ \E s \in DOMAIN Songs \cup {None} : spotify' = [spotify EXCEPT !.song = s]
       \/ spotify' = [spotify EXCEPT !.volume = 70]
       \/ spotify' = [spotify EXCEPT !.running = ~@]
    /\ UNCHANGED << script, spotifyFeed, downloads, covers, tile, jobs, torn >>

PlayersNext ==
    \/ ScriptStarts
    \/ ScriptGoesOn
    \/ StatusStored
    \/ CoverArrives
    \/ PressPlayer
    \/ JobRuns
    \/ PlayerSkips

-----------------------------------------------------------------------------
(***************************************************************************)
(* What comes back late is filed where it belongs.  A cover in the cache   *)
(* is the one of its track, and so is the picture on the tile, whatever    *)
(* was playing by the time it came - unless the track changed in the       *)
(* middle of the status script.  No cover is fetched twice at once, and    *)
(* the cache keeps its limit.  (`maybe_fetch_artwork`, `cache_artwork`.)   *)
(***************************************************************************)
CoversAreFiled ==
    /\ \A i \in DOMAIN covers : covers[i].key \in torn \/ covers[i].art = Songs[covers[i].key].art
    /\ tile.cover # None =>
            \/ tile.face.shows[2] \in torn
            \/ tile.cover = Songs[tile.face.shows[2]].art /\ tile.face.shows[1] = Songs[tile.face.shows[2]].name
    /\ \A c, d \in downloads : c.key = d.key => c = d
    /\ Len(covers) <= CoverLimit

\* A volume key sets what its tile showed, moved by its step.
StepsAreFromTheTile ==
    \A j \in DOMAIN jobs :
        jobs[j].do = "volume" /\ jobs[j].shown # None => jobs[j].arg = Clamped(jobs[j].shown + jobs[j].key.arg)

-----------------------------------------------------------------------------
(***************************************************************************)
(* The Wispr Flow keys: hands-free dictation on and off, and the choice of *)
(* a microphone, each a deep link that `open` takes.  wispr.rs of          *)
(* streamdeck-macos, the Wispr actions and tasks of runtime/actions.rs,    *)
(* the flag of runtime/state.rs and the tiles of pages/views.rs.           *)
(*                                                                         *)
(* Wispr Flow cannot be asked what it does: the deck turns its own flag    *)
(* over when the key is pressed, and back if the link fails.               *)
(***************************************************************************)
CONSTANTS
    Microphones,   \* the sequence of configured microphones
    MaxLinks       \* bound: presses

ASSUME WisprAssumption == MaxLinks \in Nat /\ None \notin {"ok", "error", "over"}

VARIABLES
    hands_free,   \* `wispr_hands_free`
    listening,    \* what Wispr Flow does
    microphone,   \* the one it uses, or None
    links,        \* the tasks of the presses so far: [to, said]
    orderly       \* auxiliary: toggles did not overlap, and none failed that had worked

wispr == << hands_free, listening, microphone, links, orderly >>

WisprFace == Face(IF hands_free THEN "live" ELSE "wispr", << >>, IF hands_free THEN "Selected" ELSE "Ok")

WisprInit ==
    /\ hands_free = FALSE
    /\ listening = FALSE
    /\ microphone = None
    /\ links = << >>
    /\ orderly = TRUE

Link(is, to) == [is |-> is, to |-> to, said |-> None]

OnItsWay(l) == links[l].is = "toggle" /\ links[l].said # "over"

PressWispr ==
    /\ Len(links) < MaxLinks
    /\ \/ /\ hands_free' = ~hands_free
          /\ links' = Append(links, Link("toggle", ~hands_free))
          /\ orderly' = (orderly /\ \A l \in DOMAIN links : ~OnItsWay(l))
       \/ /\ \E index \in 0..2 : links' = Append(links, Link("microphone", index))
          /\ UNCHANGED << hands_free, orderly >>
    /\ UNCHANGED << listening, microphone >>

\* Tasks run side by side.  A command that fails may have had its effect.
LinkOpens ==
    \E l \in DOMAIN links :
        /\ links[l].said = None
        /\ \E said \in {"ok", "error"} : \E works \in BOOLEAN :
            LET chosen == At(Microphones, links[l].to)
            IN  /\ said = "ok" => works
                /\ links' = [links EXCEPT ![l].said = said]
                /\ IF links[l].is = "toggle"
                     THEN /\ listening' = IF works THEN links[l].to ELSE listening
                          /\ orderly' = (orderly /\ (works => said = "ok"))
                          /\ UNCHANGED microphone
                     ELSE /\ works => chosen # None
                          /\ microphone' = IF works THEN chosen ELSE microphone
                          /\ UNCHANGED << listening, orderly >>
    /\ UNCHANGED hands_free

\* A toggle that failed turns the flag back to what the press found.
Reverted(link) == IF link.is = "toggle" /\ link.said = "error" THEN ~link.to ELSE hands_free

\* `apply_action_outcome`.
LinkReported ==
    \E l \in DOMAIN links :
        /\ links[l].said \in {"ok", "error"}
        /\ hands_free' = Reverted(links[l])
        /\ links' = [links EXCEPT ![l].said = "over"]
        /\ UNCHANGED << listening, microphone, orderly >>

WisprNext ==
    \/ PressWispr
    \/ LinkOpens
    \/ LinkReported

\* The tile says what Wispr Flow was told, once no toggle is on its way and as long as
\* toggles came one after another.  (`ToggleHandsFree`, `SetWisprHandsFree`.)
FlagIsTold ==
    orderly /\ (\A l \in DOMAIN links : ~OnItsWay(l)) =>
        (WisprFace.status = "Selected" <=> listening)

=============================================================================
