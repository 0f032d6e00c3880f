------------------------------- MODULE Agenda -------------------------------
(***************************************************************************)
(* What comes at a time of day: meetings and departures.                   *)
(*                                                                         *)
(* Events of several accounts become meetings, one list of them the two    *)
(* meeting tiles, and a press opens a Meet link.                           *)
(* crates/streamdeck-core/src/integrations/meetings.rs, the service of the *)
(* same name, `meeting` of pages/views.rs and OpenMeeting of actions.rs.   *)
(* The departure boards: integrations/departures.rs, the client of         *)
(* services/vasttrafik.rs with its token, the tiles and what a press of    *)
(* them opens.                                                             *)
(*                                                                         *)
(* Times are minutes of the local clock.  A link is a record: the host it  *)
(* names, its path, and whether a query follows it.  The names of stops    *)
(* and lines are compared in lower case; here they are written so.         *)
(***************************************************************************)
EXTENDS Tiles

Day(t) == t \div (24 * 60)

-----------------------------------------------------------------------------
(* One account's answer.                                                    *)

\* Another host, and an address without a path, are not Meet links; what follows
\* the path is cut off.
normalize_meet_url(link) ==
    IF link # None /\ link.host = "meet" /\ link.path # ""
      THEN link.path
      ELSE None

\* The link of the event itself goes before that of its conference.
find_meet_url(event) ==
    LET hangout == normalize_meet_url(event.hangout)
    IN  IF hangout # None THEN hangout ELSE normalize_meet_url(event.video)

is_meeting(event) ==
    ~event.cancelled /\ ~event.allDay /\ event.start < event.end /\ find_meet_url(event) # None

to_meeting(account, event) ==
    [account |-> account, title |-> event.title, start |-> event.start, end |-> event.end,
     url |-> find_meet_url(event)]

\* Mutant: a meeting that has begun is left out.
Faultyparse_events(account, events, now) ==
    Only([i \in DOMAIN events |-> to_meeting(account, events[i])],
         {i \in DOMAIN events : is_meeting(events[i]) /\ events[i].start > now})

parse_events(account, events, now) ==
    Only([i \in DOMAIN events |-> to_meeting(account, events[i])],
         {i \in DOMAIN events : is_meeting(events[i]) /\ events[i].end > now})

\* By start; of those that share a link, the first.
merge(meetings) ==
    LET sorted == SortedBy(meetings, [i \in DOMAIN meetings |-> meetings[i].start])
    IN  Only(sorted, {i \in DOMAIN sorted : \A j \in 1..i - 1 : sorted[j].url # sorted[i].url})

-----------------------------------------------------------------------------
(* The fetch: `got` has an answer for each account, or None.                *)

AgendaOf(accounts, got, now) ==
    LET answered == Only(accounts, {i \in DOMAIN accounts : got[accounts[i]] # None})
        parsed == [i \in DOMAIN answered |-> parse_events(answered[i], got[answered[i]], now)]
    IN  IF answered = << >> THEN Failed ELSE Ready(merge(FlattenSeq(parsed)))

-----------------------------------------------------------------------------
(* The tiles.                                                               *)

Urgency(m, now) ==
    IF m.start <= now THEN "now"
    ELSE IF Day(m.start) # Day(now) THEN "later"
    ELSE IF m.start - now <= 5 THEN "imminent"
    ELSE IF m.start - now <= 15 THEN "soon"
    ELSE "today"

\* NOW, a countdown of at least a minute, TOMORROW, or the day of the week.
status_label(m, now) ==
    IF m.start <= now THEN << "NOW", 0 >>
    ELSE IF Day(m.start) = Day(now) THEN << "IN", m.start - now >>
    ELSE IF Day(m.start) = Day(now) + 1 THEN << "TOMORROW", 0 >>
    ELSE << "WEEKDAY", Day(m.start) >>

MeetingFace(feed, index, now) ==
    IF ~HasValue(feed) THEN offline_or_loading(feed)
    ELSE LET m == At(feed.value, index)
         IN  IF m = None
               THEN Disabled("raised", << >>)
               ELSE Face(IF Urgency(m, now) \in {"now", "imminent", "soon"}
                           THEN Urgency(m, now)
                           ELSE IF index = 0 THEN "next" ELSE "following",
                         << m.title, m.start, status_label(m, now) >>,
                         StatusOf(feed))

\* OpenMeeting, with the list as it is when the task is spawned.
OpenMeeting(feed, index) ==
    IF HasValue(feed) /\ At(feed.value, index) # None
      THEN At(feed.value, index).url
      ELSE None

-----------------------------------------------------------------------------
(* The token of the API: `lasting` says that it is valid for more than a   *)
(* minute yet, `accepted` what the API makes of it.                        *)

Token == [lasting |-> TRUE, accepted |-> TRUE]

\* `access_token` uses the one it has.
Usable(token) == token # None /\ token.lasting

-----------------------------------------------------------------------------
\* Who has been gone for more than two minutes is left out, and of the others all
\* but eight.
ParseDepartures(departures, now) ==
    Take(Only(departures, {i \in DOMAIN departures : departures[i].at >= now - 2}), 8)

OnRoute(d, stop) == d.line = stop.line /\ d.direction = stop.direction

\* A stop without a route shows everything.
retain_route(departures, stop) ==
    IF stop.line = "" /\ stop.direction = ""
      THEN departures
      ELSE Only(departures, {i \in DOMAIN departures : OnRoute(departures[i], stop)})

StopBoard(stop, departures, now) ==
    [label |-> stop.label, gid |-> stop.gid,
     departures |-> retain_route(ParseDepartures(departures, now), stop)]

-----------------------------------------------------------------------------
\* Whole minutes, rounded up; NU below two.
countdown(d, now) == IF d.at - now <= 1 THEN << "NU", 0 >> ELSE << "IN", d.at - now >>

DepartureRow(d, now) ==
    IF d = None THEN << "-", 0 >>
    ELSE IF d.cancelled THEN << "X", 0 >>
    ELSE countdown(d, now)

BoardFace(feed, index, now) ==
    IF ~HasValue(feed) THEN offline_or_loading(feed)
    ELSE LET stop == At(feed.value, index)
         IN  IF stop = None
               THEN Disabled("disabled", << >>)
               ELSE Face("vasttrafik",
                         << stop.label, DepartureRow(At(stop.departures, 0), now),
                            DepartureRow(At(stop.departures, 1), now) >>,
                         StatusOf(feed))

\* The board on the web of a stop of the configuration, which is not asked for by
\* the feed.
OpenDepartureBoard(stops, index) ==
    IF At(stops, index) = None THEN None ELSE At(stops, index).gid

=============================================================================
