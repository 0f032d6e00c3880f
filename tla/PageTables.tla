----------------------------- MODULE PageTables ------------------------------
(***************************************************************************)
(* The key tables of crates/streamdeck-core/src/pages: for every page its  *)
(* keys, what each shows and what a press of it asks for; the feeds a tile *)
(* is drawn from (pages/views.rs); and the feeds a page has the daemon     *)
(* poll.  A row of keys that differ in an index only is one key here.      *)
(***************************************************************************)
EXTENDS Integers

SelectorPages == {"walkingpad-speed-2", "walkingpad-speed-3", "walkingpad-speed-4",
                  "walkingpad-speed-5", "walkingpad-speed-6"}

PageIds == {"home", "mixer", "github", "spotify", "stensjon", "pomodoro", "weather",
            "media", "wispr", "application", "dashboard", "walkingpad",
            "walkingpad-stats"} \cup SelectorPages

\* The slots of `Feeds`.  IntegrationId has one more: AudioInventory, which
\* shares the slot of AudioStatus and which no page requires.
FeedIds == {"audio", "meetings", "weather", "lake_current", "lake_history", "github",
            "ci", "mac_health", "network", "departures", "claude", "codex", "spotify",
            "media", "application"}

\* ApplicationKind: what the application in front is.
AppKinds == {"Spotify", "Wispr", "Meet", "Ghostty", "Chrome", "Finder", "Slack",
             "Browser", "Other"}

-----------------------------------------------------------------------------
(* Actions: what pressing a key asks the runtime to do.                     *)

Act(name, arg) == [name |-> name, arg |-> arg]
Do(command) == Act(command, "")

NoAction == Do("None")
Acknowledge == Do("Acknowledge")
Go(page) == Act("Navigate", page)
ShowPanel(page) == Act("OpenPanel", page)
LeavePanel == Do("DismissPanel")
Refetch(feed) == Act("Refresh", feed)
RefetchLake == Do("RefreshLake")

\* A key without and with a long action.
Key(tile, short) == [tile |-> tile, short |-> short, long |-> NoAction]
HoldKey(tile, short, long) == [tile |-> tile, short |-> short, long |-> long]

HomeKey == Key("HomeButton", Go("home"))

-----------------------------------------------------------------------------
(* The tables.                                                              *)

HomeKeys == {
    HoldKey("WisprGlance", Do("ToggleHandsFree"), Go("wispr")),
    Key("CodexFiveHour", Refetch("codex")),
    Key("CodexUsage", Refetch("codex")),
    Key("ClaudeFiveHour", Refetch("claude")),
    Key("ClaudeSevenDay", Refetch("claude")),
    Key("DashboardButton", Go("dashboard")),
    HoldKey("QuickCapture", Do("QuickCapture"), Do("QuickCapture")),
    HoldKey("PomodoroGlance", Do("Pomodoro"), Go("pomodoro")),
    Key("Meeting", Do("OpenMeeting")),
    Key("CurrentApplication", Go("application")),
    HoldKey("SpotifyGlance", Do("Spotify"), Go("spotify")),
    HoldKey("MediaGlance", Do("Media"), Go("media")),
    Key("MixerSummary", Go("mixer")),
    Key("WeatherGlance", Go("weather")) }

DashboardKeys == {
    HomeKey,
    Key("GitHubSummary", Go("github")),
    HoldKey("CiRadar", Do("OpenCiRun"), Refetch("ci")),
    Key("MacHealth", Do("OpenActivityMonitor")),
    HoldKey("NetworkVpn", Do("OpenVpn"), Do("OpenNetworkSettings")),
    HoldKey("DepartureBoard", Do("OpenDepartureBoard"), Refetch("departures")),
    Key("WalkingPadGlance", Go("walkingpad")) }

WalkingPadKeys == {
    HomeKey,
    Key("WalkingPadConnection", Acknowledge),
    Key("WalkingPadStart", Do("WalkingPad")),
    Key("WalkingPadStop", Do("WalkingPad")),
    Key("WalkingPadStatsButton", Go("walkingpad-stats")),
    Key("WalkingPadSpeedAdjust", Do("WalkingPad")),
    Key("WalkingPadSpeed", Acknowledge),
    Key("WalkingPadSession", Acknowledge) }
        \cup {Key("WalkingPadSpeedBand", Go(page)) : page \in SelectorPages}

SelectorKeys == {
    HomeKey,
    Key("BackButton", Go("walkingpad")),
    Key("WalkingPadConnection", Acknowledge),
    Key("WalkingPadSpeed", Acknowledge),
    Key("WalkingPadStop", Do("WalkingPad")),
    Key("WalkingPadSpeedChoice", Do("WalkingPad")) }

StatsKeys == {
    HomeKey,
    Key("WalkingPadControlsButton", Go("walkingpad")),
    Key("WalkingPadConnection", Acknowledge),
    Key("WalkingPadSpeed", Acknowledge),
    Key("WalkingPadSession", Acknowledge),
    Key("WalkingPadDaily", Acknowledge) }

MixerKeys == {
    HomeKey,
    Key("AudioDevice", Do("Audio")),
    Key("AudioVolume", Do("Audio")),
    Key("AudioMute", Do("Audio")),
    Key("MixerSummary", Refetch("audio")) }

GitHubKeys == {
    HomeKey,
    Key("GitHubMetric", Do("OpenGitHubMetric")),
    Key("GitHubItem", Do("OpenGitHubItem")),
    Key("GitHubRefresh", Refetch("github")) }

SpotifyKeys == {
    HomeKey,
    Key("SpotifyControl", Do("Spotify")),
    Key("SpotifyPlaylist", Do("Spotify")) }

StensjonKeys == {
    Key("HomeButton", LeavePanel),
    Key("LakeCurrent", RefetchLake),
    Key("LakeTrend", RefetchLake),
    Key("PanelCountdown", LeavePanel),
    Key("LakeDay", Acknowledge) }

PomodoroKeys == {
    HomeKey,
    Key("PomodoroTimer", Do("Pomodoro")),
    Key("PomodoroToggle", Do("Pomodoro")),
    Key("PomodoroSkip", Do("Pomodoro")),
    Key("PomodoroReset", Do("Pomodoro")),
    Key("PomodoroStart", Do("Pomodoro")),
    Key("PomodoroStats", Acknowledge),
    HoldKey("PomodoroAdjust", Do("Pomodoro"), Do("Pomodoro")) }

WeatherKeys == {
    HomeKey,
    Key("WeatherCurrent", Refetch("weather")),
    Key("WeatherDay", Refetch("weather")),
    Key("LakeCurrent", ShowPanel("stensjon")),
    Key("LakeTrend", ShowPanel("stensjon")),
    Key("LakeDay", ShowPanel("stensjon")) }

MediaKeys == {
    HomeKey,
    Key("MediaControl", Do("Media")),
    Key("MediaSource", Refetch("media")),
    Key("AudioMute", Do("Audio")),
    Key("AudioVolume", Do("Audio")) }

WisprKeys == {
    HomeKey,
    Key("WisprPickerHeader", Acknowledge),
    Key("WisprMicrophone", Do("SelectMicrophone")) }

ApplicationKeys == {
    HomeKey,
    Key("ApplicationControl", Do("Application")),
    HoldKey("ApplicationControl", Acknowledge, Do("Application")),
    Key("ApplicationContext", Do("Context")),
    Key("ApplicationRecent", Do("Recent")) }

KeysOf(page) ==
    CASE page = "home" -> HomeKeys
      [] page = "mixer" -> MixerKeys
      [] page = "github" -> GitHubKeys
      [] page = "spotify" -> SpotifyKeys
      [] page = "stensjon" -> StensjonKeys
      [] page = "pomodoro" -> PomodoroKeys
      [] page = "weather" -> WeatherKeys
      [] page = "media" -> MediaKeys
      [] page = "wispr" -> WisprKeys
      [] page = "application" -> ApplicationKeys
      [] page = "dashboard" -> DashboardKeys
      [] page = "walkingpad" -> WalkingPadKeys
      [] page = "walkingpad-stats" -> StatsKeys
      [] page \in SelectorPages -> SelectorKeys

ActionsOf(page) ==
    UNION {{key.short, key.long} : key \in KeysOf(page)} \ {NoAction}

-----------------------------------------------------------------------------
(* The feeds the tiles are drawn from.                                      *)

AudioTiles == {"MixerSummary", "AudioDevice", "AudioMute"}
UsageOfCodex == {"CodexFiveHour", "CodexUsage"}
UsageOfClaude == {"ClaudeFiveHour", "ClaudeSevenDay"}
SpotifyTiles == {"SpotifyGlance", "SpotifyControl", "SpotifyPlaylist"}
GitHubTiles == {"GitHubSummary", "GitHubMetric", "GitHubItem"}
WeatherTiles == {"WeatherCurrent", "WeatherGlance", "WeatherDay"}
LakeTiles == {"LakeTrend", "LakeDay"}

\* A context key of the application page is drawn as the key it stands for.
ContextFeeds(app) ==
    {"application"} \cup
        CASE app = "Spotify" -> {"spotify"}
          [] app = "Meet" -> {"meetings", "audio"}
          [] OTHER -> {}

FeedsOf(tile, app) ==
    CASE tile \in AudioTiles -> {"audio"}
      [] tile \in UsageOfCodex -> {"codex"}
      [] tile \in UsageOfClaude -> {"claude"}
      [] tile \in SpotifyTiles -> {"spotify"}
      [] tile \in GitHubTiles -> {"github"}
      [] tile \in WeatherTiles -> {"weather"}
      [] tile \in LakeTiles -> {"lake_history"}
      [] tile = "LakeCurrent" -> {"lake_current"}
      [] tile = "MediaSource" -> {"media"}
      [] tile = "CiRadar" -> {"ci"}
      [] tile = "MacHealth" -> {"mac_health"}
      [] tile = "NetworkVpn" -> {"network"}
      [] tile = "DepartureBoard" -> {"departures"}
      [] tile = "Meeting" -> {"meetings"}
      [] tile \in {"CurrentApplication", "ApplicationRecent"} -> {"application"}
      [] tile = "ApplicationContext" -> ContextFeeds(app)
      [] OTHER -> {}

\* What the page shows while an application of this kind is in front.
FeedsShown(page, app) == UNION {FeedsOf(key.tile, app) : key \in KeysOf(page)}

\* The feeds that are polled while the page is on show.
required_integrations(page) ==
    CASE page = "home" -> {"application", "audio", "meetings", "weather",
                           "lake_current", "claude", "codex", "spotify"}
      [] page = "dashboard" -> {"github", "ci", "mac_health", "network", "departures"}
      [] page = "mixer" -> {"audio"}
      [] page = "github" -> {"github"}
      [] page = "spotify" -> {"spotify"}
      [] page = "stensjon" -> {"lake_current", "lake_history"}
      [] page = "weather" -> {"weather", "lake_current", "lake_history"}
      [] page = "media" -> {"media", "audio"}
      [] page = "application" -> {"application", "audio", "media", "meetings", "spotify"}
      [] OTHER -> {}

=============================================================================
