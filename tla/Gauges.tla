------------------------------- MODULE Gauges --------------------------------
(***************************************************************************)
(* The limits of Claude and Codex, and the health and network of the Mac:  *)
(* crates/streamdeck-core/src/integrations/claude.rs, codex.rs, system.rs, *)
(* services/usage.rs and system.rs, and their tiles.                       *)
(*                                                                         *)
(* Percentages are integers, a time of reset is in minutes.  A raw value   *)
(* of None is one that is not there or not a number.                       *)
(***************************************************************************)
EXTENDS Tiles

Clamp(n, low, high) == IF n < low THEN low ELSE IF n > high THEN high ELSE n

-----------------------------------------------------------------------------
(* Windows of usage.                                                        *)

ParseWindow(raw) ==
    IF raw = None \/ raw.percent = None
      THEN None
      ELSE [raw EXCEPT !.percent = Clamp(@, 0, 100)]

Severity(percent, limits) ==
    IF percent >= limits.critical THEN "critical"
    ELSE IF percent >= limits.warning THEN "warning"
    ELSE "normal"

reset_label(window, now) ==
    CASE window.reset = None -> << "-", 0 >>
      [] window.reset # None /\ window.reset > now -> << "IN", window.reset - now >>
      [] OTHER -> << "RESET", 0 >>

UsageFace(feed, window, severity, now) ==
    Face(severity, << window.percent, reset_label(window, now) >>, StatusOf(feed))

NoData == Disabled("disabled", << >>)

\* Claude: a payload without a window is not one.
ClaudeOf(raw) ==
    IF raw = None THEN Failed ELSE
    LET usage == [five_hour |-> ParseWindow(raw.five_hour),
                  seven_day |-> ParseWindow(raw.seven_day)]
    IN  IF usage.five_hour = None /\ usage.seven_day = None THEN Failed ELSE Ready(usage)

ClaudeFace(feed, which, limits, now) ==
    IF ~HasValue(feed) THEN offline_or_loading(feed)
    ELSE LET window == feed.value[which]
         IN  IF window = None
               THEN NoData
               ELSE UsageFace(feed, window, Severity(window.percent, limits), now)

\* Codex: two windows in any order, which are told apart by their length.
CodexOf(raw) ==
    IF raw = None THEN Failed ELSE
    LET usage == [primary |-> ParseWindow(raw.primary), secondary |-> ParseWindow(raw.secondary),
                  limit_reached |-> raw.limit_reached]
    IN  IF usage.primary = None /\ usage.secondary = None THEN Failed ELSE Ready(usage)

five_hour(usage) ==
    FirstOf(<< usage.primary, usage.secondary >>, LAMBDA w : w # None /\ w.hours < 24)

\* The one closest to its limit.
binding(usage) ==
    IF usage.primary = None THEN usage.secondary
    ELSE IF usage.secondary # None /\ usage.secondary.percent > usage.primary.percent
           THEN usage.secondary
           ELSE usage.primary

CodexFiveHourFace(feed, limits, now) ==
    IF ~HasValue(feed) THEN offline_or_loading(feed)
    ELSE LET window == five_hour(feed.value)
         IN  IF window = None
               THEN NoData
               ELSE UsageFace(feed, window, Severity(window.percent, limits), now)

\* A limit that was reached outshines the mark of an old value.
CodexFace(feed, limits, now) ==
    IF ~HasValue(feed) THEN offline_or_loading(feed)
    ELSE LET window == binding(feed.value)
             reached == feed.value.limit_reached
             face == UsageFace(feed, window,
                               IF reached THEN "critical" ELSE Severity(window.percent, limits),
                               now)
         IN  IF reached THEN [face EXCEPT !.status = "Alert"] ELSE face

-----------------------------------------------------------------------------
(* The Mac: two commands each, and both are needed.                         *)

Percent(n) == IF n # None /\ n <= 100 THEN n ELSE None

HealthOf(got) ==
    IF got["pmset"] = None \/ got["memory"] = None \/ Percent(got["memory"].free) = None
      THEN Failed
      ELSE Ready([battery |-> Percent(got["pmset"].battery), source |-> got["pmset"].source,
                  charging |-> got["pmset"].charging, free |-> Percent(got["memory"].free)])

\* A battery that runs low where nothing charges it, or memory that does.
HealthFace(feed) ==
    IF ~HasValue(feed) THEN offline_or_loading(feed)
    ELSE LET h == feed.value
             low == \/ h.free < 15
                    \/ h.source = "Battery" /\ h.battery # None /\ h.battery < 15
         IN  Face(IF low THEN "warning" ELSE "health",
                  << h.battery, h.free, IF h.charging THEN "CHG" ELSE h.source >>,
                  StatusOf(feed))

\* The list has a line for each VPN, and the one that is configured is looked for.
NetworkOf(vpn, got) ==
    IF got["nwi"] = None \/ got["vpns"] = None
      THEN Failed
      ELSE Ready([connected |-> got["nwi"].reachable,
                  vpn |-> IF vpn \notin DOMAIN got["vpns"] THEN "Unavailable"
                          ELSE IF got["vpns"][vpn] = "Connected" THEN "Connected"
                          ELSE "Disconnected"])

NetworkTone(network) ==
    IF ~network.connected THEN "error"
    ELSE IF network.vpn = "Connected" THEN "live"
    ELSE "network"

NetworkFace(feed) ==
    IF ~HasValue(feed) THEN offline_or_loading(feed)
    ELSE Face(NetworkTone(feed.value), << feed.value.connected, feed.value.vpn >>, StatusOf(feed))

=============================================================================
