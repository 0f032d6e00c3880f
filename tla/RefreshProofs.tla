---------------------------- MODULE RefreshProofs -----------------------------
(***************************************************************************)
(* Proofs about Refresh, for every set of feeds, pages and versions.       *)
(*                                                                         *)
(* Every handler of the coordinator but Receive only does three things to  *)
(* it: it makes cells due, starts fetches, and sets the deadlines of what  *)
(* is on show.  FollowsFrom says so; a lemma for each function the         *)
(* handlers are built from shows it, and the invariant is preserved by     *)
(* whatever follows from the coordinator and serves its page.              *)
(***************************************************************************)
EXTENDS Refresh, TLAPS

-----------------------------------------------------------------------------
(* The page tables.                                                         *)

\* A page is fed if each of its keys is.
LEMMA PageIsFed ==
    ASSUME NEW page, NEW app, NEW keys, NEW ids,
           KeysOf(page) = keys, required_integrations(page) = ids,
           \A key \in keys : FeedsOf(key.tile, app) \subseteq ids
    PROVE  FeedsShown(page, app) \subseteq required_integrations(page)
  BY DEF FeedsShown

\* No page shows what it does not have polled.
THEOREM TilesAreFed ==
    ASSUME NEW page \in PageIds, NEW app
    PROVE  FeedsShown(page, app) \subseteq required_integrations(page)
<1>. USE DEF Key, HoldKey, HomeKey
<1>1. CASE page = "home"
  <2>. DEFINE ids == {"application", "audio", "meetings", "weather",
                      "lake_current", "claude", "codex", "spotify"}
  <2>1. \A key \in HomeKeys : FeedsOf(key.tile, app) \subseteq ids
    BY DEF HomeKeys, FeedsOf, AudioTiles, UsageOfCodex, UsageOfClaude,
           SpotifyTiles, GitHubTiles, WeatherTiles, LakeTiles
  <2>2. KeysOf(page) = HomeKeys
    BY <1>1 DEF KeysOf, SelectorPages
  <2>3. required_integrations(page) = ids
    BY <1>1 DEF required_integrations, SelectorPages
  <2>. QED  BY <2>1, <2>2, <2>3, PageIsFed
<1>2. CASE page = "dashboard"
  <2>. DEFINE ids == {"github", "ci", "mac_health", "network", "departures"}
  <2>1. \A key \in DashboardKeys : FeedsOf(key.tile, app) \subseteq ids
    BY DEF DashboardKeys, FeedsOf, AudioTiles, UsageOfCodex, UsageOfClaude,
           SpotifyTiles, GitHubTiles, WeatherTiles, LakeTiles
  <2>2. KeysOf(page) = DashboardKeys
    BY <1>2 DEF KeysOf, SelectorPages
  <2>3. required_integrations(page) = ids
    BY <1>2 DEF required_integrations, SelectorPages
  <2>. QED  BY <2>1, <2>2, <2>3, PageIsFed
<1>3. CASE page = "application"
  <2>. DEFINE ids == {"application", "audio", "media", "meetings", "spotify"}
  <2>1. \A key \in ApplicationKeys : FeedsOf(key.tile, app) \subseteq ids
    BY DEF ApplicationKeys, ContextFeeds, FeedsOf, AudioTiles, UsageOfCodex, UsageOfClaude,
           SpotifyTiles, GitHubTiles, WeatherTiles, LakeTiles
  <2>2. KeysOf(page) = ApplicationKeys
    BY <1>3 DEF KeysOf, SelectorPages
  <2>3. required_integrations(page) = ids
    BY <1>3 DEF required_integrations, SelectorPages
  <2>. QED  BY <2>1, <2>2, <2>3, PageIsFed
<1>4. CASE page = "weather"
  <2>. DEFINE ids == {"weather", "lake_current", "lake_history"}
  <2>1. \A key \in WeatherKeys : FeedsOf(key.tile, app) \subseteq ids
    BY DEF WeatherKeys, FeedsOf, AudioTiles, UsageOfCodex, UsageOfClaude,
           SpotifyTiles, GitHubTiles, WeatherTiles, LakeTiles
  <2>2. KeysOf(page) = WeatherKeys
    BY <1>4 DEF KeysOf, SelectorPages
  <2>3. required_integrations(page) = ids
    BY <1>4 DEF required_integrations, SelectorPages
  <2>. QED  BY <2>1, <2>2, <2>3, PageIsFed
<1>5. CASE page = "stensjon"
  <2>. DEFINE ids == {"lake_current", "lake_history"}
  <2>1. \A key \in StensjonKeys : FeedsOf(key.tile, app) \subseteq ids
    BY DEF StensjonKeys, FeedsOf, AudioTiles, UsageOfCodex, UsageOfClaude,
           SpotifyTiles, GitHubTiles, WeatherTiles, LakeTiles
  <2>2. KeysOf(page) = StensjonKeys
    BY <1>5 DEF KeysOf, SelectorPages
  <2>3. required_integrations(page) = ids
    BY <1>5 DEF required_integrations, SelectorPages
  <2>. QED  BY <2>1, <2>2, <2>3, PageIsFed
<1>6. CASE page = "mixer"
  <2>. DEFINE ids == {"audio"}
  <2>1. \A key \in MixerKeys : FeedsOf(key.tile, app) \subseteq ids
    BY DEF MixerKeys, FeedsOf, AudioTiles, UsageOfCodex, UsageOfClaude,
           SpotifyTiles, GitHubTiles, WeatherTiles, LakeTiles
  <2>2. KeysOf(page) = MixerKeys
    BY <1>6 DEF KeysOf, SelectorPages
  <2>3. required_integrations(page) = ids
    BY <1>6 DEF required_integrations, SelectorPages
  <2>. QED  BY <2>1, <2>2, <2>3, PageIsFed
<1>7. CASE page = "media"
  <2>. DEFINE ids == {"media", "audio"}
  <2>1. \A key \in MediaKeys : FeedsOf(key.tile, app) \subseteq ids
    BY DEF MediaKeys, FeedsOf, AudioTiles, UsageOfCodex, UsageOfClaude,
           SpotifyTiles, GitHubTiles, WeatherTiles, LakeTiles
  <2>2. KeysOf(page) = MediaKeys
    BY <1>7 DEF KeysOf, SelectorPages
  <2>3. required_integrations(page) = ids
    BY <1>7 DEF required_integrations, SelectorPages
  <2>. QED  BY <2>1, <2>2, <2>3, PageIsFed
<1>8. CASE page = "github"
  <2>. DEFINE ids == {"github"}
  <2>1. \A key \in GitHubKeys : FeedsOf(key.tile, app) \subseteq ids
    BY DEF GitHubKeys, FeedsOf, AudioTiles, UsageOfCodex, UsageOfClaude,
           SpotifyTiles, GitHubTiles, WeatherTiles, LakeTiles
  <2>2. KeysOf(page) = GitHubKeys
    BY <1>8 DEF KeysOf, SelectorPages
  <2>3. required_integrations(page) = ids
    BY <1>8 DEF required_integrations, SelectorPages
  <2>. QED  BY <2>1, <2>2, <2>3, PageIsFed
<1>9. CASE page = "spotify"
  <2>. DEFINE ids == {"spotify"}
  <2>1. \A key \in SpotifyKeys : FeedsOf(key.tile, app) \subseteq ids
    BY DEF SpotifyKeys, FeedsOf, AudioTiles, UsageOfCodex, UsageOfClaude,
           SpotifyTiles, GitHubTiles, WeatherTiles, LakeTiles
  <2>2. KeysOf(page) = SpotifyKeys
    BY <1>9 DEF KeysOf, SelectorPages
  <2>3. required_integrations(page) = ids
    BY <1>9 DEF required_integrations, SelectorPages
  <2>. QED  BY <2>1, <2>2, <2>3, PageIsFed
<1>10. CASE page = "pomodoro"
  <2>. DEFINE ids == {}
  <2>1. \A key \in PomodoroKeys : FeedsOf(key.tile, app) \subseteq ids
    BY DEF PomodoroKeys, FeedsOf, AudioTiles, UsageOfCodex, UsageOfClaude,
           SpotifyTiles, GitHubTiles, WeatherTiles, LakeTiles
  <2>2. KeysOf(page) = PomodoroKeys
    BY <1>10 DEF KeysOf, SelectorPages
  <2>3. required_integrations(page) = ids
    BY <1>10 DEF required_integrations, SelectorPages
  <2>. QED  BY <2>1, <2>2, <2>3, PageIsFed
<1>11. CASE page = "wispr"
  <2>. DEFINE ids == {}
  <2>1. \A key \in WisprKeys : FeedsOf(key.tile, app) \subseteq ids
    BY DEF WisprKeys, FeedsOf, AudioTiles, UsageOfCodex, UsageOfClaude,
           SpotifyTiles, GitHubTiles, WeatherTiles, LakeTiles
  <2>2. KeysOf(page) = WisprKeys
    BY <1>11 DEF KeysOf, SelectorPages
  <2>3. required_integrations(page) = ids
    BY <1>11 DEF required_integrations, SelectorPages
  <2>. QED  BY <2>1, <2>2, <2>3, PageIsFed
<1>12. CASE page = "walkingpad"
  <2>. DEFINE ids == {}
  <2>1. \A key \in WalkingPadKeys : FeedsOf(key.tile, app) \subseteq ids
    BY DEF WalkingPadKeys, FeedsOf, AudioTiles, UsageOfCodex, UsageOfClaude,
           SpotifyTiles, GitHubTiles, WeatherTiles, LakeTiles
  <2>2. KeysOf(page) = WalkingPadKeys
    BY <1>12 DEF KeysOf, SelectorPages
  <2>3. required_integrations(page) = ids
    BY <1>12 DEF required_integrations, SelectorPages
  <2>. QED  BY <2>1, <2>2, <2>3, PageIsFed
<1>13. CASE page = "walkingpad-stats"
  <2>. DEFINE ids == {}
  <2>1. \A key \in StatsKeys : FeedsOf(key.tile, app) \subseteq ids
    BY DEF StatsKeys, FeedsOf, AudioTiles, UsageOfCodex, UsageOfClaude,
           SpotifyTiles, GitHubTiles, WeatherTiles, LakeTiles
  <2>2. KeysOf(page) = StatsKeys
    BY <1>13 DEF KeysOf, SelectorPages
  <2>3. required_integrations(page) = ids
    BY <1>13 DEF required_integrations, SelectorPages
  <2>. QED  BY <2>1, <2>2, <2>3, PageIsFed
<1>14. CASE page \in SelectorPages
  <2>. DEFINE ids == {}
  <2>1. \A key \in SelectorKeys : FeedsOf(key.tile, app) \subseteq ids
    BY DEF SelectorKeys, FeedsOf, AudioTiles, UsageOfCodex, UsageOfClaude,
           SpotifyTiles, GitHubTiles, WeatherTiles, LakeTiles
  <2>2. KeysOf(page) = SelectorKeys
    BY <1>14 DEF KeysOf, SelectorPages
  <2>3. required_integrations(page) = ids
    BY <1>14 DEF required_integrations, SelectorPages
  <2>. QED  BY <2>1, <2>2, <2>3, PageIsFed
<1>. QED
  BY <1>1, <1>2, <1>3, <1>4, <1>5, <1>6, <1>7, <1>8, <1>9, <1>10, <1>11, <1>12, <1>13,
     <1>14 DEF PageIds

-----------------------------------------------------------------------------
(* What follows from a coordinator.                                         *)

FollowsFrom(s, t) ==
    /\ t \in Runtimes
    /\ s.inFlight \subseteq t.inFlight
    /\ t.lastModified = s.lastModified
    /\ \A i \in Feeds : /\ t.cells[i].value = s.cells[i].value
                        /\ Trusted(t.cells[i]) => Trusted(s.cells[i])

\* Every feed that the page polls has a fetch, a deadline, or is among ids.
Served(s, ids) ==
    \A i \in Required(s) : i \in s.inFlight \/ i \in s.deadlines \/ i \in ids

LEMMA FollowsItself ==
    ASSUME NEW s \in Runtimes
    PROVE  FollowsFrom(s, s)
  BY DEF FollowsFrom

LEMMA FollowsOn ==
    ASSUME NEW r, NEW s, NEW t, FollowsFrom(r, s), FollowsFrom(s, t)
    PROVE  FollowsFrom(r, t)
  BY DEF FollowsFrom

LEMMA InvalidateCell ==
    ASSUME NEW c \in Cell
    PROVE  /\ Invalidate(c) \in Cell
           /\ Invalidate(c).value = c.value
           /\ ~Trusted(Invalidate(c))
  BY DEF Cell, Invalidate, Trusted

\* Invalidating makes cells due, and touches nothing else.
LEMMA InvalidateFollows ==
    ASSUME NEW s \in Runtimes, NEW ids
    PROVE  /\ FollowsFrom(s, InvalidateAll(s, ids))
           /\ InvalidateAll(s, ids).nav = s.nav
           /\ InvalidateAll(s, ids).inFlight = s.inFlight
           /\ InvalidateAll(s, ids).deadlines = s.deadlines
           /\ \A i \in Feeds \cap ids : ~Trusted(InvalidateAll(s, ids).cells[i])
<1>. DEFINE t == InvalidateAll(s, ids)
<1>1. s.cells \in [Feeds -> Cell]
  BY DEF Runtimes
<1>2. t = [s EXCEPT !.cells =
                [i \in Feeds |-> IF i \in ids THEN Invalidate(s.cells[i]) ELSE s.cells[i]]]
  BY DEF InvalidateAll
<1>3. t.cells = [i \in Feeds |-> IF i \in ids THEN Invalidate(s.cells[i]) ELSE s.cells[i]]
  BY <1>2 DEF Runtimes
<1>4. t.cells \in [Feeds -> Cell]
  BY <1>1, <1>3, InvalidateCell
<1>5. /\ t.nav = s.nav
      /\ t.inFlight = s.inFlight
      /\ t.deadlines = s.deadlines
      /\ t.lastModified = s.lastModified
  BY <1>2 DEF Runtimes
<1>6. t \in Runtimes
  BY <1>2, <1>3, <1>4 DEF Runtimes
<1>7. ASSUME NEW i \in Feeds
      PROVE  /\ t.cells[i].value = s.cells[i].value
             /\ Trusted(t.cells[i]) => Trusted(s.cells[i])
             /\ i \in ids => ~Trusted(t.cells[i])
  BY <1>1, <1>3, InvalidateCell
<1>. HIDE DEF t
<1>8. FollowsFrom(s, t)
  BY <1>5, <1>6, <1>7 DEF FollowsFrom
<1>9. \A i \in Feeds \cap ids : ~Trusted(t.cells[i])
  BY <1>7
<1>. QED  BY <1>5, <1>8, <1>9 DEF t

\* A page that is on show is served whatever is invalidated.
LEMMA ServedByPage ==
    ASSUME NEW s, NEW t, NEW ids, Served(s, ids),
           visible_page(t) = visible_page(s),
           s.inFlight \subseteq t.inFlight,
           s.deadlines \subseteq t.deadlines
    PROVE  Served(t, ids)
  BY DEF Served, Required

LEMMA CadenceFollows ==
    ASSUME NEW s \in Runtimes
    PROVE  /\ FollowsFrom(s, apply_spotify_cadence(s))
           /\ apply_spotify_cadence(s).nav = s.nav
<1>. DEFINE onSpotify == \/ visible_page(s) = "spotify"
                         \/ visible_page(s) = "application" /\ App(s) = "Spotify"
            u == [s EXCEPT !.fast = onSpotify]
            ids == IF onSpotify THEN {"spotify"} ELSE {}
<1>1. CASE s.fast = onSpotify
  <2>1. apply_spotify_cadence(s) = s
    BY <1>1 DEF apply_spotify_cadence
  <2>. QED  BY <2>1, FollowsItself
<1>2. CASE s.fast # onSpotify
  <2>1. apply_spotify_cadence(s) = InvalidateAll(u, ids)
    BY <1>2 DEF apply_spotify_cadence
  <2>2. onSpotify \in BOOLEAN
    OBVIOUS
  <2>. HIDE DEF onSpotify, ids
  <2>3. u \in Runtimes /\ u.nav = s.nav /\ FollowsFrom(s, u)
    BY <2>2 DEF Runtimes, FollowsFrom
  <2>. HIDE DEF u
  <2>4. FollowsFrom(u, InvalidateAll(u, ids)) /\ InvalidateAll(u, ids).nav = u.nav
    BY <2>3, InvalidateFollows
  <2>5. FollowsFrom(s, InvalidateAll(u, ids))
    BY <2>3, <2>4, FollowsOn
  <2>. QED  BY <2>1, <2>3, <2>4, <2>5
<1>. QED  BY <1>1, <1>2

LEMMA RequiredIsFed ==
    ASSUME NEW s
    PROVE  Required(s) \subseteq Feeds
  BY DEF Required

\* Scheduling serves the page.
LEMMA ScheduleServes ==
    ASSUME NEW s \in Runtimes
    PROVE  /\ FollowsFrom(s, schedule_refresh_deadlines(s))
           /\ Served(schedule_refresh_deadlines(s), {})
           /\ schedule_refresh_deadlines(s).nav = s.nav
<1>. DEFINE u == apply_spotify_cadence(s)
            t == schedule_refresh_deadlines(s)
<1>1. FollowsFrom(s, u) /\ u.nav = s.nav /\ u \in Runtimes
  BY CadenceFollows DEF FollowsFrom
<1>2. t = [u EXCEPT !.deadlines = Required(s)]
  BY DEF schedule_refresh_deadlines
<1>. HIDE DEF u, t
<1>3. t \in Runtimes /\ FollowsFrom(u, t) /\ t.nav = s.nav /\ t.deadlines = Required(s)
  BY <1>1, <1>2, RequiredIsFed DEF Runtimes, FollowsFrom
<1>4. Served(t, {})
  BY <1>3 DEF Served, Required, visible_page
<1>5. FollowsFrom(s, t)
  BY <1>1, <1>3, FollowsOn
<1>. QED  BY <1>3, <1>4, <1>5 DEF t

\* Starting fetches.
LEMMA SpawnServes ==
    ASSUME NEW s \in Runtimes, NEW ids, Served(s, ids)
    PROVE  /\ FollowsFrom(s, spawn_refresh(s, ids))
           /\ Served(spawn_refresh(s, ids), {})
           /\ spawn_refresh(s, ids).nav = s.nav
<1>. DEFINE t == spawn_refresh(s, ids)
<1>1. t = [s EXCEPT !.inFlight = s.inFlight \cup (ids \cap Required(s))]
  BY DEF spawn_refresh
<1>. HIDE DEF t
<1>2. /\ t \in Runtimes
      /\ FollowsFrom(s, t)
      /\ t.nav = s.nav
      /\ t.deadlines = s.deadlines
      /\ t.inFlight = s.inFlight \cup (ids \cap Required(s))
  BY <1>1, RequiredIsFed DEF Runtimes, FollowsFrom
<1>3. Served(t, {})
  BY <1>2 DEF Served, Required, visible_page
<1>. QED  BY <1>2, <1>3 DEF t

LEMMA SpawnDueFollows ==
    ASSUME NEW s \in Runtimes
    PROVE  /\ FollowsFrom(s, spawn_due_refreshes(s))
           /\ \A ids : Served(s, ids) => Served(spawn_due_refreshes(s), ids)
           /\ spawn_due_refreshes(s).nav = s.nav
<1>. DEFINE t == spawn_due_refreshes(s)
<1>1. t = [s EXCEPT !.inFlight = s.inFlight \cup due_integrations(s)]
  BY DEF spawn_due_refreshes
<1>2. due_integrations(s) \subseteq Feeds
  BY RequiredIsFed DEF due_integrations
<1>. HIDE DEF t
<1>3. /\ t \in Runtimes
      /\ FollowsFrom(s, t)
      /\ t.nav = s.nav
      /\ t.deadlines = s.deadlines
      /\ s.inFlight \subseteq t.inFlight
  BY <1>1, <1>2 DEF Runtimes, FollowsFrom
<1>4. \A ids : Served(s, ids) => Served(t, ids)
  BY <1>3 DEF Served, Required, visible_page
<1>. QED  BY <1>3, <1>4 DEF t

\* A page change sets the deadlines of the new page.
LEMMA PageChangeServes ==
    ASSUME NEW s \in Runtimes, NEW t \in after_page_change(s)
    PROVE  FollowsFrom(s, t) /\ Served(t, {}) /\ t.nav = s.nav
<1>. DEFINE u == schedule_refresh_deadlines(s)
<1>1. t = spawn_due_refreshes(u)
  BY DEF after_page_change
<1>2. FollowsFrom(s, u) /\ Served(u, {}) /\ u.nav = s.nav
  BY ScheduleServes
<1>3. u \in Runtimes
  BY <1>2 DEF FollowsFrom
<1>. HIDE DEF u
<1>4. FollowsFrom(u, t) /\ Served(t, {}) /\ t.nav = u.nav
  BY <1>1, <1>2, <1>3, SpawnDueFollows
<1>. QED  BY <1>2, <1>4, FollowsOn

\* A step of the navigator: with a page change the new page is served, without
\* one it is the old page.
LEMMA TurnedServes ==
    ASSUME NEW s \in Runtimes, NEW nav \in Navigators, NEW changes \in BOOLEAN, NEW ids,
           Served(s, ids),
           ~changes => VisiblePage(nav) = visible_page(s),
           NEW t \in Turned(s, nav, changes)
    PROVE  FollowsFrom(s, t) /\ Served(t, ids)
<1>. DEFINE u == [s EXCEPT !.nav = nav]
<1>1. /\ u \in Runtimes
      /\ FollowsFrom(s, u)
      /\ u.nav = nav
      /\ u.inFlight = s.inFlight
      /\ u.deadlines = s.deadlines
  BY DEF Runtimes, FollowsFrom
<1>2. t \in IF changes THEN after_page_change(u) ELSE {u}
  BY DEF Turned
<1>. HIDE DEF u
<1>3. CASE changes
  <2>1. FollowsFrom(u, t) /\ Served(t, {})
    BY <1>1, <1>2, <1>3, PageChangeServes
  <2>2. Served(t, ids)
    BY <2>1 DEF Served
  <2>. QED  BY <1>1, <2>1, <2>2, FollowsOn
<1>4. CASE ~changes
  <2>1. t = u /\ visible_page(u) = visible_page(s)
    BY <1>1, <1>2, <1>4 DEF visible_page
  <2>. QED  BY <1>1, <2>1, ServedByPage
<1>. QED  BY <1>3, <1>4

-----------------------------------------------------------------------------
(* The navigator.                                                           *)

LEMMA DismissType ==
    ASSUME NEW nav \in Navigators
    PROVE  DismissPanel(nav) \in Navigators
  BY DEF DismissPanel, GoTo, Navigators, Panels

LEMMA TouchType ==
    ASSUME NEW nav \in Navigators, NEW duration \in Durations
    PROVE  /\ TouchPanel(nav, duration) \in Navigators
           /\ VisiblePage(TouchPanel(nav, duration)) = VisiblePage(nav)
<1>1. duration \in Nat /\ duration \in 0..duration
  BY NavigatorAssumption
<1>2. CASE nav.panel = None
  BY <1>2 DEF TouchPanel
<1>3. CASE nav.panel # None
  <2>. DEFINE panel == [nav.panel EXCEPT !.left = duration]
  <2>1. nav.panel \in Panels
    BY <1>3 DEF Navigators
  <2>2. duration \in UNION {0..d : d \in Durations}
    BY <1>1
  <2>3. panel \in Panels /\ panel.page = nav.panel.page
    BY <2>1, <2>2 DEF Panels
  <2>4. panel # None
    BY <2>3, PanelAssumption
  <2>5. TouchPanel(nav, duration) = [nav EXCEPT !.panel = panel]
    BY <1>3 DEF TouchPanel
  <2>. HIDE DEF panel
  <2>. QED  BY <1>3, <2>3, <2>4, <2>5 DEF Navigators, VisiblePage
<1>. QED  BY <1>2, <1>3

LEMMA OlderType ==
    ASSUME NEW nav \in Navigators
    PROVE  PanelOlder(nav) \in Navigators /\ VisiblePage(PanelOlder(nav)) = VisiblePage(nav)
<1>1. CASE nav.panel = None \/ nav.panel.left = 0
  BY <1>1 DEF PanelOlder
<1>2. CASE nav.panel # None /\ nav.panel.left # 0
  <2>. DEFINE panel == [nav.panel EXCEPT !.left = nav.panel.left - 1]
  <2>1. nav.panel \in Panels
    BY <1>2 DEF Navigators
  <2>2. PICK duration \in Durations : nav.panel.left \in 0..duration
    BY <2>1 DEF Panels
  <2>3. duration \in Nat
    BY NavigatorAssumption
  <2>4. nav.panel.left - 1 \in 0..duration
    BY <1>2, <2>2, <2>3
  <2>5. nav.panel.left - 1 \in UNION {0..d : d \in Durations}
    BY <2>4
  <2>6. panel \in Panels /\ panel.page = nav.panel.page
    BY <2>1, <2>5 DEF Panels
  <2>7. panel # None
    BY <2>6, PanelAssumption
  <2>8. PanelOlder(nav) = [nav EXCEPT !.panel = panel]
    BY <1>2 DEF PanelOlder
  <2>. HIDE DEF panel
  <2>. QED  BY <1>2, <2>6, <2>7, <2>8 DEF Navigators, VisiblePage
<1>. QED  BY <1>1, <1>2

LEMMA OpenType ==
    ASSUME NEW nav \in Navigators, NEW page \in Pages, NEW duration \in Durations
    PROVE  OpenPanel(nav, page, duration) \in Navigators
<1>1. duration \in 0..duration
  BY NavigatorAssumption
<1>2. duration \in UNION {0..d : d \in Durations}
  BY <1>1
<1>3. (IF nav.panel = None THEN nav.page ELSE nav.panel.return_to) \in Pages
  BY DEF Navigators, Panels
<1>. QED  BY <1>2, <1>3 DEF OpenPanel, Navigators, Panels

\* An action that does not change the page leaves it on show.
LEMMA NavigatedType ==
    ASSUME NEW nav \in Navigators, NEW a, NEW duration \in Durations, StaysInside(a)
    PROVE  /\ Navigated(nav, a, duration) \in Navigators
           /\ PageChanges(nav, a) \in BOOLEAN
           /\ ~PageChanges(nav, a) => VisiblePage(Navigated(nav, a, duration)) = VisiblePage(nav)
<1>. DEFINE n == Navigated(nav, a, duration)
<1>1. ASSUME NEW page \in Pages
      PROVE  /\ GoTo(nav, page) \in Navigators
             /\ GoToChanges(nav, page) \in BOOLEAN
             /\ ~GoToChanges(nav, page) => VisiblePage(GoTo(nav, page)) = VisiblePage(nav)
  BY DEF GoTo, GoToChanges, Navigators, VisiblePage
<1>2. CASE a.name = "Navigate"
  <2>1. n = GoTo(nav, a.arg) /\ PageChanges(nav, a) = GoToChanges(nav, a.arg)
    BY <1>2 DEF Navigated, PageChanges
  <2>2. a.arg \in Pages
    BY <1>2 DEF StaysInside
  <2>. QED  BY <1>1, <2>1, <2>2
<1>3. CASE a.name = "SelectMicrophone"
  <2>1. n = GoTo(nav, "home") /\ PageChanges(nav, a) = GoToChanges(nav, "home")
    BY <1>3 DEF Navigated, PageChanges
  <2>2. "home" \in Pages
    BY <1>3 DEF StaysInside
  <2>. QED  BY <1>1, <2>1, <2>2
<1>4. CASE a.name = "OpenPanel"
  <2>1. n = OpenPanel(nav, a.arg, duration) /\ PageChanges(nav, a) = TRUE
    BY <1>4 DEF Navigated, PageChanges
  <2>2. a.arg \in Pages
    BY <1>4 DEF StaysInside
  <2>. QED  BY <2>1, <2>2, OpenType
<1>5. CASE a.name = "DismissPanel"
  <2>1. n = DismissPanel(nav) /\ PageChanges(nav, a) = (nav.panel # None)
    BY <1>5 DEF Navigated, PageChanges
  <2>2. nav.panel = None => n = nav
    BY <2>1 DEF DismissPanel
  <2>. QED  BY <2>1, <2>2, DismissType
<1>6. CASE a.name \notin {"Navigate", "SelectMicrophone", "OpenPanel", "DismissPanel"}
  <2>1. n = nav /\ PageChanges(nav, a) = FALSE
    BY <1>6 DEF Navigated, PageChanges
  <2>. QED  BY <2>1
<1>. QED  BY <1>2, <1>3, <1>4, <1>5, <1>6

\* The end of a panel.
LEMMA PanelPolledServes ==
    ASSUME NEW s \in Runtimes, NEW ids, Served(s, ids), NEW t \in PanelPolled(s)
    PROVE  FollowsFrom(s, t) /\ Served(t, ids)
<1>1. CASE Expired(s.nav)
  <2>1. DismissPanel(s.nav) \in Navigators
    BY DismissType DEF Runtimes
  <2>2. t \in Turned(s, DismissPanel(s.nav), TRUE)
    BY <1>1 DEF PanelPolled
  <2>. QED  BY <2>1, <2>2, TurnedServes
<1>2. CASE ~Expired(s.nav)
  <2>1. t = s
    BY <1>2 DEF PanelPolled
  <2>. QED  BY <2>1, FollowsItself
<1>. QED  BY <1>1, <1>2

-----------------------------------------------------------------------------
(* The invariant.  That what is in flight is really being fetched, and      *)
(* that only a feed with a value can be answered "unchanged", is what       *)
(* ShownFeedsAreKept needs: such an answer to an empty cell would take the  *)
(* feed out of flight and set no deadline.                                  *)

TasksBounded == \A k \in TaskKinds : running[k] + finished[k] <= MaxTasks

FlightsAreFetches == \A i \in Feeds : i \in rt.inFlight <=> fetches[i] # None

OnlyKnownIsRevalidated ==
    /\ \A i \in Feeds :
            /\ fetches[i] # None
            /\ fetches[i].since # None \/ fetches[i].answer = "unchanged"
            => rt.cells[i].value # None
    /\ rt.lastModified # None => "weather" \in Feeds /\ rt.cells["weather"].value # None

RefreshInv ==
    /\ RefreshTypeOK
    /\ TasksBounded
    /\ FlightsAreFetches
    /\ OnlyKnownIsRevalidated
    /\ Served(rt, {})
    /\ ChangesAreSeen

\* A new coordinator, whose new fetches have been started.
LEMMA FetchesStarted ==
    ASSUME RefreshInv, NEW s, FollowsFrom(rt, s), Becomes(s)
    PROVE  /\ rt' \in Runtimes
           /\ fetches' \in [Feeds -> Fetch \cup {None}]
           /\ FlightsAreFetches'
           /\ OnlyKnownIsRevalidated'
           /\ rt' = s
<1>1. rt' = s /\ fetches' = Running(s)
  BY DEF Becomes
<1>2. /\ s \in Runtimes
      /\ rt.inFlight \subseteq s.inFlight
      /\ s.lastModified = rt.lastModified
      /\ \A i \in Feeds : s.cells[i].value = rt.cells[i].value
  BY DEF FollowsFrom
<1>3. s.inFlight \subseteq Feeds /\ s.lastModified \in Versions \cup {None}
  BY <1>2 DEF Runtimes
<1>4. fetches \in [Feeds -> Fetch \cup {None}]
  BY DEF RefreshInv, RefreshTypeOK
<1>. DEFINE new(i) == [since |-> IF i = "weather" THEN s.lastModified ELSE None,
                       answer |-> None]
<1>5. \A i \in Feeds : new(i) \in Fetch /\ new(i) # None
  BY <1>3, FetchAssumption DEF Fetch
<1>6. fetches' = [i \in Feeds |-> IF i \in s.inFlight \ rt.inFlight
                                  THEN new(i) ELSE fetches[i]]
  BY <1>1 DEF Running
<1>7. fetches' \in [Feeds -> Fetch \cup {None}]
  BY <1>4, <1>5, <1>6
<1>8. ASSUME NEW i \in Feeds
      PROVE  i \in s.inFlight <=> fetches'[i] # None
  BY <1>2, <1>5, <1>6 DEF RefreshInv, FlightsAreFetches
<1>9. ASSUME NEW i \in Feeds, fetches'[i] # None,
             fetches'[i].since # None \/ fetches'[i].answer = "unchanged"
      PROVE  s.cells[i].value # None
  <2>1. CASE i \in s.inFlight \ rt.inFlight
    <3>1. fetches'[i] = new(i)
      BY <1>6, <2>1
    <3>2. new(i).answer = None /\ new(i).since = IF i = "weather" THEN s.lastModified ELSE None
      OBVIOUS
    <3>3. CASE fetches'[i].since # None
      BY <1>2, <3>1, <3>2, <3>3 DEF RefreshInv, OnlyKnownIsRevalidated
    <3>4. CASE fetches'[i].answer = "unchanged"
      BY <3>1, <3>2, <3>4, RefreshAssumption
    <3>. QED  BY <1>9, <3>3, <3>4
  <2>2. CASE i \notin s.inFlight \ rt.inFlight
    BY <1>2, <1>6, <1>9, <2>2 DEF RefreshInv, OnlyKnownIsRevalidated
  <2>. QED  BY <2>1, <2>2
<1>10. rt'.lastModified # None => "weather" \in Feeds /\ rt'.cells["weather"].value # None
  BY <1>1, <1>2 DEF RefreshInv, OnlyKnownIsRevalidated
<1>. QED
  BY <1>1, <1>2, <1>7, <1>8, <1>9, <1>10 DEF FlightsAreFetches, OnlyKnownIsRevalidated


\* What such a step preserves, if it keeps count of the user's tasks.
LEMMA BecomesKeeps ==
    ASSUME RefreshInv, NEW s, FollowsFrom(rt, s), Served(s, {}), Becomes(s),
           running' \in [TaskKinds -> 0..MaxTasks],
           finished' \in [TaskKinds -> 0..MaxTasks],
           TasksBounded',
           world' \in [Feeds -> Versions],
           changed' = changed,
           \A i \in changed : Trusted(s.cells[i]) => finished'[i] > 0
    PROVE  RefreshInv'
<1>1. /\ rt' \in Runtimes
      /\ fetches' \in [Feeds -> Fetch \cup {None}]
      /\ FlightsAreFetches'
      /\ OnlyKnownIsRevalidated'
      /\ rt' = s
  BY FetchesStarted
<1>2. changed' \subseteq Feeds
  BY DEF RefreshInv, RefreshTypeOK
<1>3. RefreshTypeOK'
  BY <1>1, <1>2 DEF RefreshTypeOK
<1>4. Served(rt', {})
  BY <1>1
<1>5. ChangesAreSeen'
  BY <1>1 DEF ChangesAreSeen
<1>. QED  BY <1>1, <1>3, <1>4, <1>5 DEF RefreshInv

\* The same, where the user's tasks are left alone.
LEMMA HandlerKeeps ==
    ASSUME RefreshInv, NEW s, FollowsFrom(rt, s), Served(s, {}), Becomes(s),
           UNCHANGED << outside, changed >>
    PROVE  RefreshInv'
<1>1. running' = running /\ finished' = finished /\ world' = world /\ changed' = changed
  BY DEF outside
<1>2. /\ running' \in [TaskKinds -> 0..MaxTasks]
      /\ finished' \in [TaskKinds -> 0..MaxTasks]
      /\ world' \in [Feeds -> Versions]
  BY <1>1 DEF RefreshInv, RefreshTypeOK
<1>3. TasksBounded'
  BY <1>1 DEF RefreshInv, TasksBounded
<1>4. \A i \in changed : Trusted(s.cells[i]) => finished'[i] > 0
  BY <1>1 DEF RefreshInv, RefreshTypeOK, ChangesAreSeen, FollowsFrom
<1>. QED  BY <1>1, <1>2, <1>3, <1>4, BecomesKeeps

-----------------------------------------------------------------------------
(* The handlers.                                                            *)

LEMMA ExecuteKeeps ==
    ASSUME RefreshInv, NEW a, Execute(a)
    PROVE  RefreshInv'
<1>1. PICK duration \in Durations :
        \E nav \in {TouchPanel(rt.nav, duration)} :
        \E there \in Turned(rt, Navigated(nav, a, duration), PageChanges(nav, a)) :
        \E stale \in {InvalidateAll(there, Invalidated(a))} : Becomes(spawn_due_refreshes(stale))
  BY DEF Execute
<1>. DEFINE nav == TouchPanel(rt.nav, duration)
<1>2. PICK there \in Turned(rt, Navigated(nav, a, duration), PageChanges(nav, a)) :
        Becomes(spawn_due_refreshes(InvalidateAll(there, Invalidated(a))))
  BY <1>1
<1>. DEFINE stale == InvalidateAll(there, Invalidated(a))
            s == spawn_due_refreshes(stale)
<1>3. rt \in Runtimes /\ rt.nav \in Navigators /\ Served(rt, {})
  BY DEF RefreshInv, RefreshTypeOK, Runtimes
<1>4. nav \in Navigators /\ VisiblePage(nav) = visible_page(rt)
  BY <1>3, TouchType DEF visible_page
<1>5. StaysInside(a)
  BY DEF Execute
<1>. HIDE DEF nav
<1>6. /\ Navigated(nav, a, duration) \in Navigators
      /\ PageChanges(nav, a) \in BOOLEAN
      /\ ~PageChanges(nav, a) => VisiblePage(Navigated(nav, a, duration)) = VisiblePage(nav)
  BY <1>4, <1>5, NavigatedType
<1>7. FollowsFrom(rt, there) /\ Served(there, {})
  BY <1>2, <1>3, <1>4, <1>6, TurnedServes
<1>8. there \in Runtimes
  BY <1>7 DEF FollowsFrom
<1>9. FollowsFrom(there, stale) /\ Served(stale, {})
  <2>1. /\ FollowsFrom(there, stale)
        /\ stale.nav = there.nav
        /\ stale.inFlight = there.inFlight
        /\ stale.deadlines = there.deadlines
    BY <1>8, InvalidateFollows
  <2>2. visible_page(stale) = visible_page(there)
    BY <2>1 DEF visible_page
  <2>. HIDE DEF stale
  <2>. QED  BY <1>7, <2>1, <2>2, ServedByPage
<1>10. stale \in Runtimes
  BY <1>9 DEF FollowsFrom
<1>. HIDE DEF stale
<1>11. FollowsFrom(stale, s) /\ Served(s, {})
  BY <1>9, <1>10, SpawnDueFollows
<1>12. FollowsFrom(rt, s)
  BY <1>7, <1>9, <1>11, FollowsOn
<1>13. Becomes(s)
  BY <1>2 DEF stale
<1>14. /\ running' = [k \in TaskKinds |-> running[k] + (IF k \in TaskOf(a) THEN 1 ELSE 0)]
       /\ finished' = finished
       /\ world' = world
       /\ changed' = changed
       /\ \A k \in TaskOf(a) : running[k] + finished[k] < MaxTasks
  BY DEF Execute
<1>15. /\ running \in [TaskKinds -> 0..MaxTasks]
       /\ finished \in [TaskKinds -> 0..MaxTasks]
       /\ world' \in [Feeds -> Versions]
       /\ MaxTasks \in Nat
  BY <1>14, RefreshAssumption DEF RefreshInv, RefreshTypeOK
<1>16. ASSUME NEW k \in TaskKinds
       PROVE  /\ running'[k] \in 0..MaxTasks
              /\ running'[k] + finished'[k] <= MaxTasks
  <2>1. running[k] \in 0..MaxTasks /\ finished[k] \in 0..MaxTasks
    BY <1>15
  <2>2. running[k] + finished[k] <= MaxTasks
    BY DEF RefreshInv, TasksBounded
  <2>3. running'[k] = running[k] + (IF k \in TaskOf(a) THEN 1 ELSE 0) /\ finished' = finished
    BY <1>14
  <2>4. CASE k \in TaskOf(a)
    <3>1. running[k] + finished[k] < MaxTasks
      BY <1>14, <2>4
    <3>. QED  BY <1>15, <2>1, <2>3, <2>4, <3>1
  <2>5. CASE k \notin TaskOf(a)
    BY <1>15, <2>1, <2>2, <2>3, <2>5
  <2>. QED  BY <2>4, <2>5
<1>17. running' \in [TaskKinds -> 0..MaxTasks] /\ TasksBounded'
  BY <1>14, <1>16 DEF TasksBounded
<1>18. \A i \in changed : Trusted(s.cells[i]) => finished'[i] > 0
  BY <1>12, <1>14 DEF RefreshInv, RefreshTypeOK, ChangesAreSeen, FollowsFrom
<1>. HIDE DEF s
<1>. QED
  BY <1>11, <1>12, <1>13, <1>14, <1>15, <1>17, <1>18, BecomesKeeps

LEMMA RequestKeeps ==
    ASSUME RefreshInv, NEW i \in Feeds, RefreshRequest(i)
    PROVE  RefreshInv'
<1>. DEFINE stale == InvalidateAll(rt, {i})
<1>1. PICK ids \in FetchedFor(i) : Becomes(spawn_refresh(stale, ids))
  BY DEF RefreshRequest
<1>2. rt \in Runtimes /\ Served(rt, {})
  BY DEF RefreshInv, RefreshTypeOK
<1>3. /\ FollowsFrom(rt, stale)
      /\ stale.nav = rt.nav
      /\ stale.inFlight = rt.inFlight
      /\ stale.deadlines = rt.deadlines
  BY <1>2, InvalidateFollows
<1>. HIDE DEF stale
<1>4. visible_page(stale) = visible_page(rt)
  BY <1>3 DEF visible_page
<1>5. Served(stale, {})
  BY <1>2, <1>3, <1>4, ServedByPage
<1>6. Served(stale, ids)
  BY <1>5 DEF Served
<1>7. stale \in Runtimes
  BY <1>3 DEF FollowsFrom
<1>8. FollowsFrom(stale, spawn_refresh(stale, ids)) /\ Served(spawn_refresh(stale, ids), {})
  BY <1>6, <1>7, SpawnServes
<1>9. UNCHANGED << outside, changed >>
  BY DEF RefreshRequest
<1>. QED  BY <1>1, <1>3, <1>8, <1>9, FollowsOn, HandlerKeeps

LEMMA DeadlinesKeep ==
    ASSUME RefreshInv, NEW due, HandleDeadlines(due)
    PROVE  RefreshInv'
<1>. DEFINE taken == [rt EXCEPT !.deadlines = rt.deadlines \ due]
<1>1. PICK there \in PanelPolled(taken) : Becomes(spawn_refresh(there, due))
  BY DEF HandleDeadlines
<1>2. rt \in Runtimes /\ Served(rt, {})
  BY DEF RefreshInv, RefreshTypeOK
<1>3. /\ taken \in Runtimes
      /\ FollowsFrom(rt, taken)
      /\ taken.nav = rt.nav
      /\ taken.inFlight = rt.inFlight
      /\ taken.deadlines = rt.deadlines \ due
  BY <1>2 DEF Runtimes, FollowsFrom
<1>. HIDE DEF taken
<1>4. Served(taken, due)
  BY <1>2, <1>3 DEF Served, Required, visible_page
<1>5. FollowsFrom(taken, there) /\ Served(there, due)
  BY <1>1, <1>3, <1>4, PanelPolledServes
<1>6. there \in Runtimes
  BY <1>5 DEF FollowsFrom
<1>7. FollowsFrom(there, spawn_refresh(there, due)) /\ Served(spawn_refresh(there, due), {})
  BY <1>5, <1>6, SpawnServes
<1>8. FollowsFrom(rt, spawn_refresh(there, due))
  BY <1>3, <1>5, <1>7, FollowsOn
<1>9. UNCHANGED << outside, changed >>
  BY DEF HandleDeadlines
<1>. QED  BY <1>1, <1>7, <1>8, <1>9, HandlerKeeps

LEMMA WakeKeeps ==
    ASSUME RefreshInv, Wake
    PROVE  RefreshInv'
<1>. DEFINE drained == [rt EXCEPT !.deadlines = {}]
            scheduled == schedule_refresh_deadlines(drained)
<1>1. PICK there \in PanelPolled(scheduled) :
        Becomes(spawn_due_refreshes(InvalidateAll(there, Required(there))))
  BY DEF Wake
<1>. DEFINE stale == InvalidateAll(there, Required(there))
            s == spawn_due_refreshes(stale)
<1>2. rt \in Runtimes
  BY DEF RefreshInv, RefreshTypeOK
<1>3. drained \in Runtimes /\ FollowsFrom(rt, drained)
  BY <1>2 DEF Runtimes, FollowsFrom
<1>. HIDE DEF drained
<1>4. FollowsFrom(drained, scheduled) /\ Served(scheduled, {})
  BY <1>3, ScheduleServes
<1>5. scheduled \in Runtimes
  BY <1>4 DEF FollowsFrom
<1>. HIDE DEF scheduled
<1>6. FollowsFrom(scheduled, there) /\ Served(there, {})
  BY <1>1, <1>4, <1>5, PanelPolledServes
<1>7. there \in Runtimes
  BY <1>6 DEF FollowsFrom
<1>8. /\ FollowsFrom(there, stale)
      /\ stale.nav = there.nav
      /\ stale.inFlight = there.inFlight
      /\ stale.deadlines = there.deadlines
  BY <1>7, InvalidateFollows
<1>9. stale \in Runtimes
  BY <1>8 DEF FollowsFrom
<1>10. visible_page(stale) = visible_page(there)
  BY <1>8 DEF visible_page
<1>11. Becomes(s)
  BY <1>1
<1>. HIDE DEF stale
<1>12. Served(stale, {})
  BY <1>6, <1>8, <1>10, ServedByPage
<1>13. FollowsFrom(stale, s) /\ Served(s, {})
  BY <1>9, <1>12, SpawnDueFollows
<1>14. FollowsFrom(rt, s)
  BY <1>3, <1>4, <1>6, <1>8, <1>13, FollowsOn
<1>15. UNCHANGED << outside, changed >>
  BY DEF Wake
<1>. HIDE DEF s
<1>. QED  BY <1>11, <1>13, <1>14, <1>15, HandlerKeeps

LEMMA ReloadKeeps ==
    ASSUME RefreshInv, Reload
    PROVE  RefreshInv'
<1>1. rt \in Runtimes
  BY DEF RefreshInv, RefreshTypeOK
<1>2. FollowsFrom(rt, schedule_refresh_deadlines(rt)) /\ Served(schedule_refresh_deadlines(rt), {})
  BY <1>1, ScheduleServes
<1>. QED  BY <1>2, HandlerKeeps DEF Reload

\* A task that has ended takes the trust from what it changed.
LEMMA ActionFinishedKeeps ==
    ASSUME RefreshInv, NEW k \in TaskKinds, ActionFinished(k)
    PROVE  RefreshInv'
<1>. DEFINE told == InvalidateAll(rt, {k} \ {None})
            s == spawn_due_refreshes(told)
<1>1. Becomes(s)
  BY DEF ActionFinished, Told
<1>2. rt \in Runtimes /\ Served(rt, {})
  BY DEF RefreshInv, RefreshTypeOK
<1>3. /\ FollowsFrom(rt, told)
      /\ told.nav = rt.nav
      /\ told.inFlight = rt.inFlight
      /\ told.deadlines = rt.deadlines
      /\ \A i \in Feeds \cap ({k} \ {None}) : ~Trusted(told.cells[i])
  BY <1>2, InvalidateFollows
<1>4. told \in Runtimes
  BY <1>3 DEF FollowsFrom
<1>5. visible_page(told) = visible_page(rt)
  BY <1>3 DEF visible_page
<1>. HIDE DEF told
<1>6. Served(told, {})
  BY <1>2, <1>3, <1>5, ServedByPage
<1>7. FollowsFrom(told, s) /\ Served(s, {})
  BY <1>4, <1>6, SpawnDueFollows
<1>8. FollowsFrom(rt, s)
  BY <1>3, <1>7, FollowsOn
<1>. HIDE DEF s
<1>9. /\ finished[k] > 0
      /\ finished' = [finished EXCEPT ![k] = @ - 1]
      /\ running' = running
      /\ world' = world
      /\ changed' = changed
  BY DEF ActionFinished
<1>10. /\ running \in [TaskKinds -> 0..MaxTasks]
       /\ finished \in [TaskKinds -> 0..MaxTasks]
       /\ world \in [Feeds -> Versions]
       /\ changed \subseteq Feeds
       /\ MaxTasks \in Nat
  BY RefreshAssumption DEF RefreshInv, RefreshTypeOK
<1>11. finished' \in [TaskKinds -> 0..MaxTasks]
  BY <1>9, <1>10
<1>12. TasksBounded'
  BY <1>9, <1>10 DEF RefreshInv, TasksBounded
<1>13. ASSUME NEW i \in changed, Trusted(s.cells[i])
       PROVE  finished'[i] > 0
  <2>1. i \in Feeds /\ i # None
    BY <1>10, RefreshAssumption
  <2>2. Trusted(told.cells[i])
    BY <1>7, <1>13, <2>1 DEF FollowsFrom
  <2>3. i # k
    BY <1>3, <2>1, <2>2
  <2>4. Trusted(rt.cells[i])
    BY <1>3, <2>1, <2>2 DEF FollowsFrom
  <2>5. finished[i] > 0
    BY <2>4 DEF RefreshInv, ChangesAreSeen
  <2>. QED  BY <1>9, <1>10, <2>1, <2>3, <2>5 DEF TaskKinds
<1>. QED
  BY <1>1, <1>7, <1>8, <1>9, <1>10, <1>11, <1>12, <1>13, BecomesKeeps

-----------------------------------------------------------------------------
(* Answers, the world and the clock.                                        *)

LEMMA StoredCell ==
    ASSUME NEW c \in Cell, NEW answer \in Answers
    PROVE  /\ Stored(c, answer) \in Cell
           /\ c.value # None => Stored(c, answer).value # None
           /\ answer \in Versions => Stored(c, answer).value # None
           /\ answer = "failed" => ~Trusted(Stored(c, answer))
<1>1. CASE answer = "failed"
  <2>1. Stored(c, answer) = Fail(c)
    BY <1>1 DEF Stored
  <2>2. answer \notin Versions
    BY <1>1, RefreshAssumption
  <2>. QED  BY <1>1, <2>1, <2>2 DEF Fail, Cell, Trusted, Ready
<1>2. CASE answer = "unchanged"
  <2>1. Stored(c, answer) = Revalidate(c)
    BY <1>2 DEF Stored
  <2>2. answer \notin Versions /\ answer # "failed"
    BY <1>2, RefreshAssumption
  <2>. QED  BY <2>1, <2>2 DEF Revalidate, Store, Cell
<1>3. CASE answer \notin {"failed", "unchanged"}
  <2>1. Stored(c, answer) = Store(c, answer)
    BY <1>3 DEF Stored
  <2>2. answer \in Versions /\ answer # None
    BY <1>3, RefreshAssumption DEF Answers
  <2>. QED  BY <1>3, <2>1, <2>2 DEF Store, Cell
<1>. QED  BY <1>1, <1>2, <1>3

\* An answer either brings a value or sets a deadline.
LEMMA ReceiveKeeps ==
    ASSUME RefreshInv, NEW i \in Feeds, Receive(i)
    PROVE  RefreshInv'
<1>. DEFINE answer == fetches[i].answer
            cell == Stored(rt.cells[i], answer)
            modified == IF i = "weather" /\ answer \in Versions THEN answer ELSE rt.lastModified
            deadlines == IF answer # "failed" /\ cell.value = None
                         THEN rt.deadlines ELSE rt.deadlines \cup {i}
<1>1. /\ fetches[i] # None
      /\ answer # None
      /\ fetches' = [fetches EXCEPT ![i] = None]
      /\ changed' = IF answer = "failed" \/ finished[i] > 0 THEN changed ELSE changed \ {i}
      /\ running' = running
      /\ finished' = finished
      /\ world' = world
  BY DEF Receive, outside
<1>2. rt' = [rt EXCEPT !.inFlight = rt.inFlight \ {i},
                       !.cells[i] = cell,
                       !.lastModified = modified,
                       !.deadlines = deadlines]
  BY DEF Receive, Received
<1>3. /\ rt \in Runtimes
      /\ rt.cells \in [Feeds -> Cell]
      /\ rt.inFlight \subseteq Feeds
      /\ rt.deadlines \subseteq Feeds
      /\ rt.lastModified \in Versions \cup {None}
      /\ fetches \in [Feeds -> Fetch \cup {None}]
      /\ changed \subseteq Feeds
  BY DEF RefreshInv, RefreshTypeOK, Runtimes
<1>4. answer \in Answers
  BY <1>1, <1>3 DEF Fetch
<1>5. /\ cell \in Cell
      /\ rt.cells[i].value # None => cell.value # None
      /\ answer \in Versions => cell.value # None
      /\ answer = "failed" => ~Trusted(cell)
  BY <1>3, <1>4, StoredCell
<1>6. modified \in Versions \cup {None} /\ deadlines \subseteq Feeds
  BY <1>3
<1>7. modified # None =>
          "weather" \in Feeds /\ (IF i = "weather" THEN cell.value ELSE rt.cells["weather"].value) # None
  BY <1>5 DEF RefreshInv, OnlyKnownIsRevalidated
<1>8. cell.value # None \/ answer = "failed" => i \in deadlines
  OBVIOUS
<1>9. answer = "unchanged" => rt.cells[i].value # None
  BY <1>1 DEF RefreshInv, OnlyKnownIsRevalidated
<1>10. i \in deadlines
  BY <1>4, <1>5, <1>8, <1>9 DEF Answers
<1>11. rt.deadlines \subseteq deadlines
  OBVIOUS
<1>. HIDE DEF cell, modified, deadlines
<1>12. /\ rt' \in Runtimes
       /\ rt'.nav = rt.nav
       /\ rt'.inFlight = rt.inFlight \ {i}
       /\ rt'.cells = [rt.cells EXCEPT ![i] = cell]
       /\ rt'.lastModified = modified
       /\ rt'.deadlines = deadlines
  BY <1>2, <1>3, <1>5, <1>6 DEF Runtimes
<1>. HIDE DEF answer
<1>13. RefreshTypeOK'
  BY <1>1, <1>3, <1>12 DEF RefreshInv, RefreshTypeOK
<1>14. TasksBounded'
  BY <1>1 DEF RefreshInv, TasksBounded
<1>15. FlightsAreFetches'
  BY <1>1, <1>3, <1>12 DEF RefreshInv, FlightsAreFetches
<1>16. OnlyKnownIsRevalidated'
  <2>1. ASSUME NEW j \in Feeds, fetches'[j] # None,
               fetches'[j].since # None \/ fetches'[j].answer = "unchanged"
        PROVE  rt'.cells[j].value # None
    <3>1. j # i /\ fetches'[j] = fetches[j]
      BY <1>1, <1>3, <2>1
    <3>. QED  BY <1>3, <1>12, <2>1, <3>1 DEF RefreshInv, OnlyKnownIsRevalidated
  <2>2. rt'.lastModified # None => "weather" \in Feeds /\ rt'.cells["weather"].value # None
    BY <1>3, <1>7, <1>12
  <2>. QED  BY <2>1, <2>2 DEF OnlyKnownIsRevalidated
<1>17. Served(rt', {})
  <2>1. Served(rt, {}) /\ Required(rt') = Required(rt)
    BY <1>12 DEF RefreshInv, Required, visible_page
  <2>. QED  BY <1>10, <1>11, <1>12, <2>1 DEF Served
<1>18. ChangesAreSeen'
  <2>1. ASSUME NEW j \in changed', Trusted(rt'.cells[j])
        PROVE  finished'[j] > 0
    <3>1. j \in changed /\ j \in Feeds
      BY <1>1, <1>3, <2>1
    <3>2. CASE j = i
      <4>1. rt'.cells[j] = cell
        BY <1>3, <1>12, <3>2
      <4>2. answer # "failed"
        BY <1>5, <2>1, <4>1
      <4>. QED  BY <1>1, <2>1, <3>2, <4>2
    <3>3. CASE j # i
      <4>1. rt'.cells[j] = rt.cells[j]
        BY <1>3, <1>12, <3>1, <3>3
      <4>. QED  BY <1>1, <2>1, <3>1, <4>1 DEF RefreshInv, ChangesAreSeen
    <3>. QED  BY <3>2, <3>3
  <2>. QED  BY <2>1 DEF ChangesAreSeen
<1>. QED  BY <1>13, <1>14, <1>15, <1>16, <1>17, <1>18 DEF RefreshInv

LEMMA WorldMovesKeeps ==
    ASSUME RefreshInv, NEW i \in Feeds, WorldMoves(i)
    PROVE  RefreshInv'
<1>1. /\ rt' = rt
      /\ fetches' = fetches
      /\ running' = running
      /\ finished' = finished
      /\ changed' = changed
  BY DEF WorldMoves
<1>2. world' \in [Feeds -> Versions]
  BY DEF WorldMoves, RefreshInv, RefreshTypeOK
<1>3. RefreshTypeOK'
  BY <1>1, <1>2 DEF RefreshInv, RefreshTypeOK
<1>. QED
  BY <1>1, <1>3
     DEF RefreshInv, TasksBounded, FlightsAreFetches, OnlyKnownIsRevalidated, ChangesAreSeen

\* A fetch that has its answer.
LEMMA AnsweredKeeps ==
    ASSUME RefreshInv, NEW i \in Feeds, fetches[i] # None, NEW answer \in Answers,
           fetches' = [fetches EXCEPT ![i].answer = answer],
           answer = "unchanged" => fetches[i].since # None,
           UNCHANGED << rt, outside, changed >>
    PROVE  RefreshInv'
<1>1. /\ rt' = rt
      /\ running' = running
      /\ finished' = finished
      /\ changed' = changed
      /\ world' = world
  BY DEF outside
<1>2. fetches \in [Feeds -> Fetch \cup {None}]
  BY DEF RefreshInv, RefreshTypeOK
<1>. DEFINE fetch == [fetches[i] EXCEPT !.answer = answer]
<1>3. /\ fetch \in Fetch
      /\ fetch.since = fetches[i].since
      /\ fetch.answer = answer
  BY <1>2 DEF Fetch
<1>4. fetch # None
  BY <1>3, FetchAssumption
<1>. HIDE DEF fetch
<1>5. fetches' = [fetches EXCEPT ![i] = fetch]
  BY DEF fetch
<1>6. fetches' \in [Feeds -> Fetch \cup {None}]
  BY <1>2, <1>3, <1>5
<1>7. RefreshTypeOK'
  BY <1>1, <1>6 DEF RefreshInv, RefreshTypeOK
<1>8. FlightsAreFetches'
  BY <1>1, <1>2, <1>4, <1>5 DEF RefreshInv, FlightsAreFetches
<1>9. OnlyKnownIsRevalidated'
  <2>1. ASSUME NEW j \in Feeds, fetches'[j] # None,
               fetches'[j].since # None \/ fetches'[j].answer = "unchanged"
        PROVE  rt'.cells[j].value # None
    <3>1. CASE j = i
      <4>1. fetches[i].since # None
        BY <1>2, <1>3, <1>5, <2>1, <3>1
      <4>. QED  BY <1>1, <3>1, <4>1 DEF RefreshInv, OnlyKnownIsRevalidated
    <3>2. CASE j # i
      BY <1>1, <1>2, <1>5, <2>1, <3>2 DEF RefreshInv, OnlyKnownIsRevalidated
    <3>. QED  BY <3>1, <3>2
  <2>. QED  BY <1>1, <2>1 DEF RefreshInv, OnlyKnownIsRevalidated
<1>. QED
  BY <1>1, <1>7, <1>8, <1>9 DEF RefreshInv, TasksBounded, ChangesAreSeen

\* Only a fetch that names a version is answered "unchanged".
LEMMA ReadKeeps ==
    ASSUME RefreshInv, NEW i \in Feeds, Read(i) \/ ReadFails(i)
    PROVE  RefreshInv'
<1>1. fetches[i] # None /\ UNCHANGED << rt, outside, changed >>
  BY DEF Read, ReadFails
<1>2. CASE Read(i)
  <2>. DEFINE answer == IF fetches[i].since = world[i] THEN "unchanged" ELSE world[i]
  <2>1. world[i] \in Versions
    BY DEF RefreshInv, RefreshTypeOK
  <2>2. answer \in Answers /\ (answer = "unchanged" => fetches[i].since # None)
    BY <2>1, RefreshAssumption DEF Answers
  <2>3. fetches' = [fetches EXCEPT ![i].answer = answer]
    BY <1>2 DEF Read
  <2>. HIDE DEF answer
  <2>. QED  BY <1>1, <2>2, <2>3, AnsweredKeeps
<1>3. CASE ReadFails(i)
  <2>1. "failed" \in Answers
    BY DEF Answers
  <2>2. fetches' = [fetches EXCEPT ![i].answer = "failed"]
    BY <1>3 DEF ReadFails
  <2>. QED  BY <1>1, <2>1, <2>2, AnsweredKeeps
<1>. QED  BY <1>2, <1>3

LEMMA TaskEndsKeeps ==
    ASSUME RefreshInv, NEW k \in TaskKinds, TaskEnds(k)
    PROVE  RefreshInv'
<1>1. /\ running[k] > 0
      /\ running' = [running EXCEPT ![k] = running[k] - 1]
      /\ finished' = [finished EXCEPT ![k] = finished[k] + 1]
      /\ rt' = rt
      /\ fetches' = fetches
  BY DEF TaskEnds
<1>2. /\ running \in [TaskKinds -> 0..MaxTasks]
      /\ finished \in [TaskKinds -> 0..MaxTasks]
      /\ world \in [Feeds -> Versions]
      /\ changed \subseteq Feeds
      /\ MaxTasks \in Nat
  BY RefreshAssumption DEF RefreshInv, RefreshTypeOK
<1>3. running[k] + finished[k] <= MaxTasks
  BY DEF RefreshInv, TasksBounded
<1>4. running' \in [TaskKinds -> 0..MaxTasks] /\ finished' \in [TaskKinds -> 0..MaxTasks]
  BY <1>1, <1>2, <1>3
<1>5. TasksBounded'
  <2>1. ASSUME NEW j \in TaskKinds
        PROVE  running'[j] + finished'[j] <= MaxTasks
    <3>1. running[j] \in 0..MaxTasks /\ finished[j] \in 0..MaxTasks
      BY <1>2
    <3>2. running[j] + finished[j] <= MaxTasks
      BY DEF RefreshInv, TasksBounded
    <3>. QED  BY <1>1, <1>2, <3>1, <3>2
  <2>. QED  BY <2>1 DEF TasksBounded
<1>6. /\ world' \in [Feeds -> Versions]
      /\ changed' \subseteq Feeds
      /\ changed' \subseteq changed \cup {k}
  BY <1>2 DEF TaskEnds, TaskKinds
<1>7. RefreshTypeOK'
  BY <1>1, <1>4, <1>6 DEF RefreshInv, RefreshTypeOK
<1>8. ChangesAreSeen'
  <2>1. ASSUME NEW i \in changed', Trusted(rt.cells[i])
        PROVE  finished'[i] > 0
    <3>1. i \in TaskKinds /\ finished[i] \in Nat
      BY <1>2, <1>6, <2>1 DEF TaskKinds
    <3>2. CASE i = k
      BY <1>1, <1>2, <3>1, <3>2
    <3>3. CASE i # k
      <4>1. finished[i] > 0
        BY <1>6, <2>1, <3>3 DEF RefreshInv, ChangesAreSeen
      <4>. QED  BY <1>1, <1>2, <3>1, <3>3, <4>1
    <3>. QED  BY <3>2, <3>3
  <2>. QED  BY <1>1, <2>1 DEF ChangesAreSeen
<1>. QED
  BY <1>1, <1>5, <1>7, <1>8 DEF RefreshInv, FlightsAreFetches, OnlyKnownIsRevalidated

\* Time: a value gets old, or a panel does.
LEMMA OlderKeeps ==
    ASSUME RefreshInv, NEW s, FollowsFrom(rt, s), Served(s, {}),
           s.inFlight = rt.inFlight, rt' = s,
           UNCHANGED << fetches, outside, changed >>
    PROVE  RefreshInv'
<1>1. /\ fetches' = fetches
      /\ running' = running
      /\ finished' = finished
      /\ changed' = changed
      /\ world' = world
  BY DEF outside
<1>2. RefreshTypeOK'
  BY <1>1 DEF RefreshInv, RefreshTypeOK, FollowsFrom
<1>3. OnlyKnownIsRevalidated'
  BY <1>1 DEF RefreshInv, OnlyKnownIsRevalidated, FollowsFrom
<1>4. ChangesAreSeen'
  BY <1>1 DEF RefreshInv, RefreshTypeOK, ChangesAreSeen, FollowsFrom
<1>. QED
  BY <1>1, <1>2, <1>3, <1>4 DEF RefreshInv, TasksBounded, FlightsAreFetches

LEMMA ExpireKeeps ==
    ASSUME RefreshInv, NEW i \in Feeds, Expire(i)
    PROVE  RefreshInv'
<1>. DEFINE s == [rt EXCEPT !.cells[i] = RunOut(rt.cells[i])]
<1>1. rt \in Runtimes /\ rt.cells \in [Feeds -> Cell] /\ Served(rt, {})
  BY DEF RefreshInv, RefreshTypeOK, Runtimes
<1>2. /\ RunOut(rt.cells[i]) \in Cell
      /\ RunOut(rt.cells[i]).value = rt.cells[i].value
      /\ ~Trusted(RunOut(rt.cells[i]))
  BY <1>1 DEF RunOut, Cell, Trusted
<1>3. /\ s \in Runtimes
      /\ s.cells = [rt.cells EXCEPT ![i] = RunOut(rt.cells[i])]
      /\ s.nav = rt.nav
      /\ s.inFlight = rt.inFlight
      /\ s.deadlines = rt.deadlines
      /\ s.lastModified = rt.lastModified
  BY <1>1, <1>2 DEF Runtimes
<1>4. rt' = s /\ UNCHANGED << fetches, outside, changed >>
  BY DEF Expire
<1>. HIDE DEF s
<1>5. FollowsFrom(rt, s)
  BY <1>1, <1>2, <1>3 DEF FollowsFrom
<1>6. Served(s, {})
  BY <1>1, <1>3 DEF Served, Required, visible_page
<1>. QED  BY <1>3, <1>4, <1>5, <1>6, OlderKeeps

LEMMA PanelAgesKeeps ==
    ASSUME RefreshInv, PanelAges
    PROVE  RefreshInv'
<1>. DEFINE nav == PanelOlder(rt.nav)
            s == [rt EXCEPT !.nav = nav]
<1>1. rt \in Runtimes /\ rt.nav \in Navigators /\ Served(rt, {})
  BY DEF RefreshInv, RefreshTypeOK, Runtimes
<1>2. nav \in Navigators /\ VisiblePage(nav) = VisiblePage(rt.nav)
  BY <1>1, OlderType
<1>3. rt' = s /\ UNCHANGED << fetches, outside, changed >>
  BY DEF PanelAges
<1>. HIDE DEF nav
<1>4. /\ s \in Runtimes
      /\ s.nav = nav
      /\ s.cells = rt.cells
      /\ s.inFlight = rt.inFlight
      /\ s.deadlines = rt.deadlines
      /\ s.lastModified = rt.lastModified
  BY <1>1, <1>2 DEF Runtimes
<1>. HIDE DEF s
<1>5. FollowsFrom(rt, s)
  BY <1>4 DEF FollowsFrom
<1>6. visible_page(s) = visible_page(rt)
  BY <1>2, <1>4 DEF visible_page
<1>7. Served(s, {})
  BY <1>1, <1>4, <1>6, ServedByPage
<1>. QED  BY <1>3, <1>4, <1>5, <1>7, OlderKeeps

-----------------------------------------------------------------------------
(* The theorems.                                                            *)

LEMMA RefreshInvInit == RefreshInit => RefreshInv
<1>. SUFFICES ASSUME RefreshInit PROVE RefreshInv
  OBVIOUS
<1>1. PICK page \in Pages : rt = Started(page)
  BY DEF RefreshInit
<1>. DEFINE new == [ nav |-> [page |-> page, panel |-> None],
                     cells |-> [i \in Feeds |-> NewCell],
                     inFlight |-> {},
                     deadlines |-> {},
                     fast |-> FALSE,
                     lastModified |-> None ]
            scheduled == schedule_refresh_deadlines(new)
<1>2. new \in Runtimes /\ new.lastModified = None
  BY DEF Runtimes, Navigators, NewCell, Cell
<1>3. rt = spawn_due_refreshes(scheduled)
  BY <1>1 DEF Started
<1>. HIDE DEF new
<1>4. FollowsFrom(new, scheduled) /\ Served(scheduled, {})
  BY <1>2, ScheduleServes
<1>5. scheduled \in Runtimes
  BY <1>4 DEF FollowsFrom
<1>. HIDE DEF scheduled
<1>6. FollowsFrom(scheduled, rt) /\ Served(rt, {})
  BY <1>3, <1>4, <1>5, SpawnDueFollows
<1>7. rt \in Runtimes /\ rt.lastModified = None
  BY <1>2, <1>4, <1>6 DEF FollowsFrom
<1>. DEFINE fetch == [since |-> None, answer |-> None]
<1>8. fetch \in Fetch /\ fetch # None
  BY FetchAssumption DEF Fetch
<1>9. /\ fetches = [i \in Feeds |-> IF i \in rt.inFlight THEN fetch ELSE None]
      /\ running = [k \in TaskKinds |-> 0]
      /\ finished = [k \in TaskKinds |-> 0]
      /\ world \in [Feeds -> Versions]
      /\ changed = {}
      /\ MaxTasks \in Nat
  BY RefreshAssumption DEF RefreshInit
<1>10. fetches \in [Feeds -> Fetch \cup {None}] /\ FlightsAreFetches
  BY <1>8, <1>9 DEF FlightsAreFetches
<1>11. RefreshTypeOK
  BY <1>7, <1>9, <1>10 DEF RefreshTypeOK
<1>12. TasksBounded
  BY <1>9 DEF TasksBounded
<1>13. OnlyKnownIsRevalidated
  <2>1. ASSUME NEW i \in Feeds, fetches[i] # None
        PROVE  fetches[i].since = None /\ fetches[i].answer # "unchanged"
    <3>1. fetches[i] = fetch
      BY <1>9, <2>1
    <3>. QED  BY <3>1, RefreshAssumption
  <2>. QED  BY <1>7, <2>1 DEF OnlyKnownIsRevalidated
<1>14. ChangesAreSeen
  BY <1>9 DEF ChangesAreSeen
<1>. QED  BY <1>6, <1>10, <1>11, <1>12, <1>13, <1>14 DEF RefreshInv

LEMMA RefreshInvNext == RefreshInv /\ [RefreshNext]_vars => RefreshInv'
<1>. SUFFICES ASSUME RefreshInv, [RefreshNext]_vars PROVE RefreshInv'
  OBVIOUS
<1>1. CASE Press
  BY <1>1, ExecuteKeeps DEF Press
<1>2. CASE PageRequest
  BY <1>2, ExecuteKeeps DEF PageRequest
<1>3. CASE \E i \in Feeds : RefreshRequest(i)
  BY <1>3, RequestKeeps
<1>4. CASE Deadlines
  BY <1>4, DeadlinesKeep DEF Deadlines
<1>5. CASE Wake
  BY <1>5, WakeKeeps
<1>6. CASE Reload
  BY <1>6, ReloadKeeps
<1>7. CASE \E k \in TaskKinds : ActionFinished(k)
  BY <1>7, ActionFinishedKeeps
<1>8. CASE \E i \in Feeds : Receive(i)
  BY <1>8, ReceiveKeeps
<1>9. CASE \E i \in Feeds : WorldMoves(i)
  BY <1>9, WorldMovesKeeps
<1>10. CASE \E i \in Feeds : Read(i)
  BY <1>10, ReadKeeps
<1>11. CASE \E i \in Feeds : ReadFails(i)
  BY <1>11, ReadKeeps
<1>12. CASE \E k \in TaskKinds : TaskEnds(k)
  BY <1>12, TaskEndsKeeps
<1>13. CASE \E i \in Feeds : Expire(i)
  BY <1>13, ExpireKeeps
<1>14. CASE PanelAges
  BY <1>14, PanelAgesKeeps
<1>15. CASE UNCHANGED vars
  BY <1>15
     DEF vars, outside, RefreshInv, RefreshTypeOK, TasksBounded, FlightsAreFetches,
         OnlyKnownIsRevalidated, ChangesAreSeen
<1>. QED
  BY <1>1, <1>2, <1>3, <1>4, <1>5, <1>6, <1>7, <1>8, <1>9, <1>10, <1>11, <1>12, <1>13,
     <1>14, <1>15 DEF RefreshNext

\* The inductive invariant of the refreshes.
THEOREM RefreshInvariance == RefreshSpec => []RefreshInv
<1>. QED  BY RefreshInvInit, RefreshInvNext, PTL DEF RefreshSpec

\* The coordinator keeps to its types, and no more than MaxTasks tasks of a
\* kind are on their way.
THEOREM RefreshTypeCorrect == RefreshSpec => []RefreshTypeOK
<1>1. RefreshInv => RefreshTypeOK
  BY DEF RefreshInv
<1>. QED  BY <1>1, RefreshInvariance, PTL

\* No tile on show is forgotten by handle_deadlines, after_page_change, wake,
\* reload_config or an answer: each of its feeds is fetched or has a deadline.
THEOREM ShownFeedsKept == RefreshSpec => []ShownFeedsAreKept
<1>1. RefreshInv => ShownFeedsAreKept
  <2>. SUFFICES ASSUME RefreshInv,
                       NEW i \in FeedsShown(visible_page(rt), App(rt)) \cap Feeds
                PROVE  Kept(i)
    BY DEF ShownFeedsAreKept
  <2>1. rt \in Runtimes /\ rt.nav \in Navigators
    BY DEF RefreshInv, RefreshTypeOK, Runtimes
  <2>2. visible_page(rt) \in Pages
    BY <2>1 DEF visible_page, VisiblePage, Navigators, Panels
  <2>3. visible_page(rt) \in PageIds
    BY <2>2, RefreshAssumption
  <2>4. i \in required_integrations(visible_page(rt))
    BY <2>3, TilesAreFed
  <2>5. i \in rt.inFlight \/ i \in rt.deadlines
    BY <2>4 DEF RefreshInv, Served, Required
  <2>. QED  BY <2>5 DEF RefreshInv, FlightsAreFetches, Kept
<1>. QED  BY <1>1, RefreshInvariance, PTL

\* What the user has changed from the deck is not shown as current from before
\* that, once apply_action_outcome has run: whatever fetches were in flight.
THEOREM ChangesSeen == RefreshSpec => []ChangesAreSeen
<1>1. RefreshInv => ChangesAreSeen
  BY DEF RefreshInv
<1>. QED  BY <1>1, RefreshInvariance, PTL

=============================================================================
