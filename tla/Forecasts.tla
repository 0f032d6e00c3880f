------------------------------ MODULE Forecasts ------------------------------
(***************************************************************************)
(* The weather and the lake: crates/streamdeck-core/src/integrations/      *)
(* weather.rs and lake.rs, the services of the same names, and their       *)
(* tiles.                                                                  *)
(*                                                                         *)
(* Times are hours of the local clock for the weather and days for the     *)
(* lake's history, temperatures whole degrees.  A raw value of None is one *)
(* that is not there or not a number.                                      *)
(***************************************************************************)
EXTENDS Tiles

HourOfDay(t) == t % 24
DateOf(t) == t \div 24

-----------------------------------------------------------------------------
(* The forecast.                                                            *)

\* A point needs a temperature one can believe.
Plausible(point) == point.temperature # None /\ point.temperature \in -90..60

FromNoon(t) == LET d == HourOfDay(t) - 12 IN IF d < 0 THEN -d ELSE d

Least(a, b) == IF a < b THEN a ELSE b
Greatest(a, b) == IF a > b THEN a ELSE b

NewDay(p) ==
    [date |-> DateOf(p.time), at |-> p.time, high |-> p.temperature, low |-> p.temperature,
     rain |-> p.rain, symbol |-> p.symbol]

\* The symbol of a day is that of the point nearest to noon.
WithPoint(day, p) ==
    LET nearer == FromNoon(p.time) < FromNoon(day.at)
    IN  [day EXCEPT !.high = Greatest(@, p.temperature),
                    !.low = Least(@, p.temperature),
                    !.rain = @ + p.rain,
                    !.at = IF nearer THEN p.time ELSE @,
                    !.symbol = IF nearer THEN p.symbol ELSE @]

\* The point goes to the last day, or begins another.
Added(days, p) ==
    IF days # << >> /\ Last(days).date = DateOf(p.time)
      THEN Append(Front(days), WithPoint(Last(days), p))
      ELSE Append(days, NewDay(p))

aggregate_days(points) ==
    LET days[n \in 0..Len(points)] ==
            IF n = 0 THEN << >> ELSE Added(days[n - 1], points[n])
    IN  days[Len(points)]

parse_forecast(place, raw) ==
    LET points == IF raw = None
                    THEN << >>
                    ELSE LET plausible == Only(raw, {i \in DOMAIN raw : Plausible(raw[i])})
                         IN  SortedBy(plausible, [i \in DOMAIN plausible |-> plausible[i].time])
    IN  IF points = << >>
          THEN Failed
          ELSE Ready([place |-> place, current |-> Head(points), days |-> aggregate_days(points)])

\* A day that is further away than the forecast goes is shown as its last.
ForecastDay(snapshot, offset) ==
    IF At(snapshot.days, offset) # None THEN At(snapshot.days, offset) ELSE Last(snapshot.days)

-----------------------------------------------------------------------------
CurrentFace(feed) ==
    IF ~HasValue(feed) THEN offline_or_loading(feed)
    ELSE LET w == feed.value
         IN  Face(w.current.symbol,
                  << w.place, w.current.temperature, Head(w.days).high, Head(w.days).low >>,
                  StatusOf(feed))

DayFace(feed, offset) ==
    IF ~HasValue(feed) THEN offline_or_loading(feed)
    ELSE LET day == ForecastDay(feed.value, offset)
         IN  Face(day.symbol, << day.date, day.high, day.low, day.rain >>, StatusOf(feed))

\* In the evening the home page shows tomorrow.
WeatherGlance(feed, hour) ==
    IF hour >= 17 THEN DayFace(feed, 1) ELSE CurrentFace(feed)

-----------------------------------------------------------------------------
(* The lake.                                                                *)

\* Water between -5 and 50 degrees, at a time after 1999 and not past tomorrow.
\* Times before are those below 0.
IsReading(entry, now) ==
    /\ entry.temperature # None
    /\ entry.temperature \in -5..50
    /\ entry.at >= 0
    /\ entry.at <= now + 1

\* The first entry of the lake that is configured, whatever it says.
CurrentReading(lake, entries, now) ==
    LET entry == IF entries = None THEN None ELSE FirstOf(entries, LAMBDA e : e.lake = lake)
    IN  IF entry # None /\ IsReading(entry, now) THEN Ready(entry) ELSE Failed

HistoryDays == 7

\* The temperatures of the lake that is configured, of those the response has.
ReadingsOf(lake, daily, now) ==
    IF daily = None \/ lake \notin DOMAIN daily
      THEN << >>
      ELSE Only(daily[lake], {i \in DOMAIN daily[lake] : IsReading(daily[lake][i], now)})

\* Newest first.
HistoryOf(lake, daily, now) ==
    LET good == ReadingsOf(lake, daily, now)
    IN  IF good = << >>
          THEN Failed
          ELSE Ready(Take(SortedBy(good, [i \in DOMAIN good |-> -good[i].at]), HistoryDays))

\* The name on the tile is the configuration's, the water is the feed's.
LakeFace(feed, place) ==
    IF ~HasValue(feed) THEN offline_or_loading(feed)
    ELSE Face("water", << place, feed.value.temperature, feed.value.at >>, StatusOf(feed))

Trend(history) == Head(history).temperature - Last(history).temperature

TrendFace(feed) ==
    IF ~HasValue(feed) THEN offline_or_loading(feed)
    ELSE Face(IF Trend(feed.value) >= 0 THEN "rising" ELSE "falling",
              << Trend(feed.value) >>, StatusOf(feed))

LakeDayFace(feed, index) ==
    IF ~HasValue(feed) THEN offline_or_loading(feed)
    ELSE LET reading == At(feed.value, index)
         IN  IF reading = None
               THEN Disabled("sunken", << >>)
               ELSE Face("water", << reading.at, reading.temperature >>, StatusOf(feed))

=============================================================================
