--------------------------------- MODULE Media ---------------------------------
(***************************************************************************)
(* Who owns the media keys: integrations/media.rs of streamdeck-core,      *)
(* media.rs of streamdeck-macos and the media tiles of pages/views.rs.     *)
(*                                                                         *)
(* The status asks macOS for the process and for what it plays, at the     *)
(* same time; if that does not name an application it looks at who makes   *)
(* sound, and for a browser at its tabs.  What plays may change between    *)
(* any two of these questions.  Where several answers are possible none is *)
(* given.                                                                  *)
(***************************************************************************)
EXTENDS Tiles

CONSTANTS
    Owners,      \* of each process: [name, family, exact], a name that may be None
    Scenes,      \* what plays: [owner, title, bundle, sounding, tabs]
    MaxScenes,   \* bound: times that changes
    MaxStatuses  \* bound

\* A title is the set of its words; a tab is [title, site].
ASSUME MediaAssumption ==
    /\ IsFiniteSet(DOMAIN Owners)
    /\ \A s \in Scenes : s.owner \in DOMAIN Owners \cup {None} /\ s.sounding \subseteq DOMAIN Owners
    /\ \A s \in Scenes : s.tabs \in Seq({s.tabs[i] : i \in DOMAIN s.tabs})
    /\ {MaxScenes, MaxStatuses} \subseteq Nat

VARIABLES
    scene,       \* what plays
    asked,       \* the status that is being put together; its step is "none" if there is none
    mediaFeed,
    grounds,     \* auxiliary: the scenes that the status in the feed was put together in
    mediaCounts  \* the bounded counters

media == << scene, asked, mediaFeed, grounds, mediaCounts >>

-----------------------------------------------------------------------------
(* Names.                                                                   *)

App(name, family, exact) == [name |-> name, family |-> family, exact |-> exact]
Nobody == App(None, None, FALSE)

ASSUME ApplicationsAssumption ==
    LET IsApp(a) == a = App(a.name, a.family, a.exact) /\ a.exact \in BOOLEAN
    IN  /\ \A p \in DOMAIN Owners : IsApp(Owners[p])
        /\ \A s \in Scenes : s.bundle # None => IsApp(s.bundle)
        /\ None \notin {"Spotify", "Music", "Google Chrome", "Safari", "Firefox",
                       "Brave Browser", "IINA", "VLC"}

\* Helpers of Chrome are Chrome, and those of Spotify are Spotify.
normalize_application(a) ==
    IF a.family = "com.google.Chrome" \/ a.name = "Google Chrome Helper"
      THEN App("Google Chrome", "com.google.Chrome", TRUE)
    ELSE IF a.family = "com.spotify.client" THEN App("Spotify", "com.spotify.client", TRUE)
    ELSE a

\* The applications that are known to play media.
Known == {App("Spotify", "com.spotify.client", FALSE), App("Google Chrome", "com.google.Chrome", FALSE),
          App("Safari", "com.apple.Safari", FALSE), App("Firefox", "org.mozilla.firefox", FALSE),
          App("Brave Browser", "com.brave.Browser", FALSE), App("IINA", "com.colliderli.iina", FALSE),
          App("VLC", "org.videolan.vlc", FALSE), App("Music", "com.apple.Music", TRUE)}

KnownFor(bundle) == {k \in Known : k.family = bundle.family /\ (k.exact => bundle.exact)}

application_name_for_bundle(bundle) ==
    IF KnownFor(bundle) = {} THEN None ELSE (CHOOSE k \in KnownFor(bundle) : TRUE).name

\* The process as the workspace knows it, or by its bundle.
AudioApplication(p) ==
    normalize_application([p EXCEPT !.name = IF @ = None THEN application_name_for_bundle(p) ELSE @])

AudioApplications(processes) ==
    {a \in {AudioApplication(Owners[p]) : p \in processes} : a.name # None}

TheOnly(set) == IF Cardinality(set) = 1 THEN CHOOSE a \in set : TRUE ELSE Nobody

\* The only application that makes sound, or the only known one of them.
active_audio_application(processes) ==
    LET all == AudioApplications(processes)
        likely == {a \in all : application_name_for_bundle(a) # None}
    IN  IF Cardinality(all) = 1 THEN TheOnly(all) ELSE TheOnly(likely)

\* The sites of the tabs, if they agree.
unique_source_from_urls(sites) ==
    IF Cardinality(sites \ {None}) = 1 THEN CHOOSE s \in sites \ {None} : TRUE ELSE None

\* With a title the first tab that goes by it, otherwise all of them.
SitesFor(title, tabs) ==
    LET first == FirstOf(tabs, LAMBDA t : title \subseteq t.title \/ t.title \subseteq title)
    IN  IF title = None THEN {tabs[i].site : i \in DOMAIN tabs}
        ELSE IF first = None THEN {} ELSE {first.site}

-----------------------------------------------------------------------------
(* Tiles.                                                                   *)

\* `MediaStatus` and `display_source`.
OwnerShown(status) ==
    IF status.source # None THEN status.source
    ELSE IF status.application # None THEN status.application
    ELSE "System Media"

MediaFace(feed) ==
    IF ~HasValue(feed) THEN offline_or_loading(feed)
    ELSE LET s == feed.value
         IN  IF s.application = None /\ s.source = None /\ s.title = None
               THEN Disabled("plain", << "NO ACTIVE PLAYER" >>)
               ELSE Face("media", << OwnerShown(s), IF s.title # None THEN s.title ELSE s.application >>,
                                  StatusOf(feed))

-----------------------------------------------------------------------------
NotAsked == [step |-> "none"]

MediaInit ==
    /\ scene \in Scenes
    /\ asked = NotAsked
    /\ mediaFeed = Loading
    /\ grounds = {}
    /\ mediaCounts = [scenes |-> 0, statuses |-> 0]

Asked(change) ==
    /\ asked' = change
    /\ grounds' = grounds \cup {scene}
    /\ UNCHANGED << scene, mediaFeed, mediaCounts >>

\* Without MediaRemote there is no status.
MediaAsked ==
    /\ asked.step = "none"
    /\ mediaCounts.statuses < MaxStatuses
    /\ mediaCounts' = [mediaCounts EXCEPT !.statuses = @ + 1]
    /\ grounds' = {}
    /\ \/ /\ asked' = [step |-> "both", pid |-> "open", info |-> "open",
                       app |-> Nobody, bundle |-> None, title |-> None, source |-> None]
          /\ UNCHANGED mediaFeed
       \/ mediaFeed' = Failing(mediaFeed) /\ UNCHANGED asked
    /\ UNCHANGED scene

\* An answer, or none in time, or that of a process that is gone by now.
PidAnswers ==
    /\ asked.step = "both" /\ asked.pid = "open"
    /\ \/ scene.owner # None
            /\ Asked([asked EXCEPT !.pid = "had", !.app = normalize_application(Owners[scene.owner])])
       \/ Asked([asked EXCEPT !.pid = "none"])

InfoAnswers ==
    /\ asked.step = "both" /\ asked.info = "open"
    /\ \/ Asked([asked EXCEPT !.info = "had", !.bundle = scene.bundle, !.title = scene.title])
       \/ Asked([asked EXCEPT !.info = "none"])

\* Both have answered: the bundle names the application if the process did not.
AnswersJoin ==
    /\ asked.step = "both" /\ asked.pid # "open" /\ asked.info # "open"
    /\ LET named == IF asked.app.name = None /\ asked.bundle # None
                      THEN [asked.bundle EXCEPT !.name = application_name_for_bundle(asked.bundle)]
                      ELSE asked.app
       IN  asked' = [asked EXCEPT !.step = IF named.name = None THEN "audio" ELSE "source",
                                  !.app = named]
    /\ UNCHANGED << scene, mediaFeed, grounds, mediaCounts >>

SoundsListed ==
    /\ asked.step = "audio"
    /\ LET owner == active_audio_application(scene.sounding)
       IN  Asked([asked EXCEPT !.step = "source", !.app = IF owner.name = None THEN @ ELSE owner])

Is(a, family) == a.family = family /\ a.exact

\* Spotify and Music speak for themselves; Chrome is asked for its tabs, and may fail to
\* answer; no other application has a source.
SourceFound ==
    /\ asked.step = "source"
    /\ LET a == asked.app
           Found(source) == Asked([asked EXCEPT !.step = "done", !.source = source])
       IN  \/ Is(a, "com.spotify.client") /\ Found("Spotify")
           \/ Is(a, "com.apple.Music") /\ Found("Music")
           \/ /\ ~Is(a, "com.spotify.client") /\ ~Is(a, "com.apple.Music")
              /\ \/ a.name = "Google Chrome"
                      /\ Found(unique_source_from_urls(SitesFor(asked.title, scene.tabs)))
                 \/ Found(None)

MediaStored ==
    /\ asked.step = "done"
    /\ mediaFeed' = Ready([application |-> asked.app.name, source |-> asked.source,
                           title |-> asked.title])
    /\ asked' = NotAsked
    /\ UNCHANGED << scene, grounds, mediaCounts >>

\* Something else plays; a media key does that as well, whoever owns the keys then.
SceneChanges ==
    /\ mediaCounts.scenes < MaxScenes
    /\ scene' \in Scenes \ {scene}
    /\ mediaCounts' = [mediaCounts EXCEPT !.scenes = @ + 1]
    /\ UNCHANGED << asked, mediaFeed, grounds >>

MediaNext ==
    \/ MediaAsked
    \/ PidAnswers
    \/ InfoAnswers
    \/ AnswersJoin
    \/ SoundsListed
    \/ SourceFound
    \/ MediaStored
    \/ SceneChanges

-----------------------------------------------------------------------------
(***************************************************************************)
(* The owner on the tile is not guessed.  If nothing changed while the     *)
(* status was put together, the application on it is the owner of the      *)
(* keys, or, where macOS named none in time, the one application that      *)
(* makes sound or the one known player among them; and the service is that *)
(* application's own, for a browser one that all its media tabs agree on   *)
(* or that a tab with the title has.  If things did change, each part of   *)
(* it was true at some point in between.  (`status`,                       *)
(* `active_audio_application`, `unique_source_from_urls`.)                 *)
(***************************************************************************)
OwnsIn(s, name) ==
    \/ s.owner # None /\ normalize_application(Owners[s.owner]).name = name
    \/ s.bundle # None /\ application_name_for_bundle(s.bundle) = name
    \/ {a.name : a \in AudioApplications(s.sounding)} = {name}
    \/ /\ \E a \in AudioApplications(s.sounding) : a.name = name
       /\ \A a \in AudioApplications(s.sounding) : KnownFor(a) # {} => a.name = name

\* The applications that a scene may be put down to, by the process, by the bundle, or
\* by the sound.
Candidates(s) ==
    {normalize_application(Owners[p]) : p \in {s.owner} \ {None}}
        \cup {[b EXCEPT !.name = application_name_for_bundle(b)] : b \in {s.bundle} \ {None}}
        \cup AudioApplications(s.sounding)

\* The services that speak for themselves, by their bundles.
OwnService == [Spotify |-> "com.spotify.client", Music |-> "com.apple.Music"]

ServesIn(among, s, app, source) ==
    \/ /\ source \in DOMAIN OwnService
       /\ \E a \in Candidates(s) : a.name = app /\ Is(a, OwnService[source])
    \/ /\ app = "Google Chrome"
       /\ \E i \in DOMAIN s.tabs : s.tabs[i].site = source
       /\ \/ \A i \in DOMAIN s.tabs : s.tabs[i].site \in {None, source}
          \/ \E t \in {g.title : g \in among} \ {None} : \E i \in DOMAIN s.tabs :
                /\ s.tabs[i].site = source
                /\ t \subseteq s.tabs[i].title \/ s.tabs[i].title \subseteq t

OwnerIsNotGuessed ==
    asked.step = "none" /\ mediaFeed.is = "ready" =>
        LET status == mediaFeed.value
        IN  /\ status.application # None => \E s \in grounds : OwnsIn(s, status.application)
            /\ status.source # None =>
                    \E s \in grounds : ServesIn(grounds, s, status.application, status.source)
            /\ status.title # None => status.title \in {s.title : s \in grounds}

=============================================================================
