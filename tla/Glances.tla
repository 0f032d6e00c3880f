------------------------------- MODULE Glances -------------------------------
(***************************************************************************)
(* A tile and where it gets its value: one integration from its request to *)
(* what one reads off the key (`spawn_refresh` and `store_refresh` of      *)
(* runtime/actions.rs with the services they call).  A fetch runs in a     *)
(* task with the configuration and the instant of its start; meanwhile the *)
(* clock goes on, the configuration is reloaded, and a token runs out.     *)
(*                                                                         *)
(* The integrations share nothing, so that one of them, the subject, is    *)
(* looked at.  When it is fetched, and again after an end, is what Refresh *)
(* decides; here a fetch may start whenever none is under way.  `now` is   *)
(* the instant of the last draw: every handler that changes something ends *)
(* with one, and the deadlines of labels draw as the clock goes on.        *)
(***************************************************************************)
EXTENDS Agenda, Repositories, Gauges, Forecasts

CONSTANTS
    Subjects,       \* the integrations, see Parts
    Configs(_),     \* of a subject: what its configuration may be
    Instants(_),    \* of a subject: the instants of its clock
    Answers(_, _),  \* of a subject and a part of its fetch: the answers that may come
    TokenAnswers,   \* what may come for a token: the seconds it lasts
    MaxFetches,     \* bound
    MaxReloads,     \* bound
    MaxRevoked      \* bound: times the API drops or ages a token

ASSUME GlancesAssumption ==
    /\ \A s \in Subjects : Configs(s) # {} /\ Instants(s) \subseteq Nat /\ Instants(s) # {}
    /\ {MaxFetches, MaxReloads, MaxRevoked} \subseteq Nat

VARIABLES
    subject,
    config,     \* the part of the configuration in force that is about it
    now,
    feed,
    fetch,      \* NoFetch, or the fetch under way.  Auxiliary in it: `fresh`, its token was
                \* issued for the stop it asks for; `excused`, see MarksAreHonest
    token,      \* None, or the token of the departures' API, see Agenda
    modified,   \* the forecast came with a Last-Modified
    latest,     \* auxiliary: the fetch that ended last
    origin,     \* auxiliary: the fetch that the value came from
    bounds      \* the counts that are bounded

glances == << subject, config, now, feed, fetch, token, modified, latest, origin, bounds >>

NoFetch == [step |-> "idle"]

GlancesInit ==
    /\ subject \in Subjects
    /\ config \in Configs(subject)
    /\ now = Min(Instants(subject))
    /\ feed = Loading
    /\ fetch = NoFetch
    /\ token = None
    /\ modified = FALSE
    /\ latest = NoFetch
    /\ origin = NoFetch
    /\ bounds = [fetches |-> 0, reloads |-> 0, revoked |-> 0]

Counted(what) == bounds' = [bounds EXCEPT ![what] = @ + 1]

-----------------------------------------------------------------------------
(* One request and its answer, a text, or nothing, or a reason that        *)
(* somebody asks for: the HTTP client of services/http.rs and the commands *)
(* of streamdeck-macos/src/command.rs.  A response is [status, arrives,    *)
(* body]: `arrives` says what becomes of its body, and a body of None is   *)
(* no payload of the service.                                              *)

NoAnswer == 0   \* the status of a request that timed out or found nobody

Text(body) == [is |-> "text", text |-> body]
Refused(why) == [is |-> "error", why |-> why]
Unchanged == [is |-> "unchanged"]

\* The errors that come before anybody looks at the body.
Dispatched(response) ==
    CASE response.status = NoAnswer       -> Refused("Transport")
      [] response.status \in {401, 403}   -> Refused("Unauthorized")
      [] response.status = 429            -> Refused("RateLimited")
      [] OTHER                            -> [is |-> "response"]

\* Past the limit by its declared length or by its bytes, or broken off.
ReadBounded(response) ==
    CASE response.arrives = "tooLong"   -> Refused("TooLarge")
      [] response.arrives = "brokenOff" -> Refused("Transport")
      [] OTHER                          -> Text(response.body)

Success(status) == status \in 200..299

Get(response) ==
    IF Dispatched(response).is = "error" THEN Dispatched(response)
    ELSE IF response.status = 304 THEN Unchanged
    ELSE IF ~Success(response.status) THEN Refused("Status")
    ELSE ReadBounded(response)

\* What a service that only wants the text makes of it: a 304 has none.
TextOf(response) == IF Get(response).is = "text" THEN Get(response).text ELSE None

-----------------------------------------------------------------------------
(* Commands.  A child is [starts, inTime, long, exit, stdout].              *)

\* The first thing that is wrong with it, or its output.
Run(child) ==
    IF child.starts /\ child.inTime /\ ~child.long /\ child.exit = 0
      THEN child.stdout
      ELSE None

-----------------------------------------------------------------------------
(* What a fetch asks, and what it makes of the answers.                     *)

ByCommand == {"agenda", "radar", "github", "health", "network"}

Integrations == ByCommand \cup {"transit", "claude", "codex", "forecast", "lake", "history"}

\* In the order in which the answers are looked at.  A part of the departures is
\* the index of a stop.
Parts(s, c) ==
    CASE s = "agenda"  -> c.accounts
      [] s = "radar"   -> c.repositories
      [] s = "github"  -> << "Inbox", "Reviews", "Prs", "Assigned" >>
      [] s = "transit" -> [i \in DOMAIN c.stops |-> i]
      [] s = "health"  -> << "pmset", "memory" >>
      [] s = "network" -> << "nwi", "vpns" >>
      [] OTHER         -> << "http" >>

\* What an answer says, or None for any failure.
Heard(s, answer) == IF s \in ByCommand THEN Run(answer) ELSE TextOf(answer)

\* Lists are lists, times and numbers are integers: what the parsers check of the
\* fields that they read.
WellFormed(s, part, said) ==
    CASE s = "agenda"  ->
            /\ IsList(said)
            /\ \A i \in DOMAIN said :
                /\ {said[i].start, said[i].end} \subseteq Int
                /\ \A link \in {said[i].hangout, said[i].video} \ {None} : link.path # None
      [] s = "radar"   -> IsList(said) /\ \A i \in DOMAIN said : said[i].updated \in Int
      [] s = "github"  ->
            part # "Inbox" => IsList(said) /\ \A i \in DOMAIN said : said[i].updated \in Int
      [] s = "transit" -> IsList(said) /\ \A i \in DOMAIN said : said[i].at \in Int
      [] s = "codex"   ->
            /\ said.limit_reached \in BOOLEAN
            /\ \A w \in {said.primary, said.secondary} \ {None} :
                /\ {"percent", "hours"} \subseteq DOMAIN w
                /\ w.percent \in Int \cup {None} /\ w.hours \in Int
                /\ \A n \in 0..100 : [w EXCEPT !.percent = n] # None
      [] s = "forecast" ->
            IsList(said) /\ \A i \in DOMAIN said : said[i].time \in Int
      [] s = "lake"    -> IsList(said) /\ \A i \in DOMAIN said : said[i].at \in Int
      [] s = "history" ->
            \A lake \in DOMAIN said :
                IsList(said[lake]) /\ \A i \in DOMAIN said[lake] : said[lake][i].at \in Int
      [] OTHER -> TRUE

ASSUME SubjectsAssumption ==
    \A s \in Subjects \cap Integrations : \A c \in Configs(s) :
        /\ IsList(Parts(s, c))
        /\ s = "transit" => IsList(c.stops) /\ None \notin ToSet(c.stops)
        /\ s = "github" => c.limit \in Nat
        /\ \A part \in ToSet(Parts(s, c)) : \A answer \in Answers(s, part) :
                Heard(s, answer) # None => WellFormed(s, part, Heard(s, answer))

Said(f, part) == Heard(subject, f.got[part])

AllSaid(f) == [part \in DOMAIN f.got |-> Said(f, part)]

\* What a fetch comes to.
Outcome(f) ==
    LET c == f.config
        said == AllSaid(f)
    IN  CASE subject = "agenda"   -> AgendaOf(c.accounts, said, f.at)
          [] subject = "radar"    -> RadarOf(c.repositories, said, f.order)
          [] subject = "github"   -> SummaryOf(c.limit, said)
          [] subject = "transit"  -> IF f.broken
                                       THEN Failed
                                       ELSE Ready([i \in DOMAIN c.stops |->
                                                StopBoard(c.stops[i], said[i], f.at)])
          [] subject = "claude"   -> ClaudeOf(said["http"])
          [] subject = "codex"    -> CodexOf(said["http"])
          [] subject = "health"   -> HealthOf(said)
          [] subject = "network"  -> NetworkOf(c.vpn, said)
          [] subject = "forecast" -> parse_forecast(c.place, said["http"])
          [] subject = "lake"     -> CurrentReading(c.lake, said["http"], f.at)
          [] subject = "history"  -> HistoryOf(c.lake, said["http"], f.at)

\* Only the forecast's service knows what a 304 is.
NotModified(f) == subject = "forecast" /\ ~f.broken /\ Get(f.got["http"]).is = "unchanged"

-----------------------------------------------------------------------------
(* The task of a fetch.                                                     *)

StartFetch ==
    /\ fetch = NoFetch
    /\ bounds.fetches < MaxFetches
    /\ fetch' = [config |-> config, at |-> now, conditional |-> modified,
                 got |-> << >>, order |-> << >>,
                 step |-> "token", retried |-> FALSE, fresh |-> FALSE,
                 broken |-> FALSE, excused |-> FALSE]
    /\ Counted("fetches")
    /\ UNCHANGED << subject, config, now, feed, token, modified, latest, origin >>

Pending == {part \in ToSet(Parts(subject, fetch.config)) : part \notin DOMAIN fetch.got}

\* Only the radar takes the answers as they come.
NextParts ==
    IF subject = "radar" THEN Pending
    ELSE LET parts == Parts(subject, fetch.config)
         IN  {parts[i] : i \in {Len(fetch.order) + 1} \cap DOMAIN parts}

Answered(part, answer) ==
    [fetch EXCEPT !.got = [p \in DOMAIN @ \cup {part} |-> IF p = part THEN answer ELSE @[p]],
                  !.order = Append(@, part),
                  !.step = "token", !.retried = FALSE, !.fresh = FALSE]

untouched == << subject, config, now, feed, modified, latest, origin >>

\* A 304 answers a conditional request.
AnswerComes ==
    /\ fetch # NoFetch /\ subject # "transit"
    /\ \E part \in NextParts : \E answer \in Answers(subject, part) :
        /\ subject \notin ByCommand /\ answer.status = 304 => fetch.conditional
        /\ fetch' = Answered(part, answer)
    /\ UNCHANGED << untouched, token, bounds >>

\* The value is unchanged, and current again.
Revalidated(f) == IF HasValue(f) THEN Ready(f.value) ELSE f

Stored(f, outcome) == IF outcome.is = "ready" THEN outcome ELSE Failing(f)

FetchEnds ==
    /\ fetch # NoFetch
    /\ fetch.broken \/ Pending = {}
    /\ LET outcome == IF NotModified(fetch) THEN Unchanged ELSE Outcome(fetch)
           told == [config |-> fetch.config, at |-> fetch.at, got |-> fetch.got,
                    order |-> fetch.order, step |-> "done", broken |-> fetch.broken,
                    excused |-> fetch.excused]
       IN  /\ feed' = IF NotModified(fetch) THEN Revalidated(feed) ELSE Stored(feed, outcome)
           /\ modified' = IF subject = "forecast" /\ outcome.is = "ready"
                            THEN fetch.got["http"].modified
                            ELSE modified
           /\ latest' = told
           /\ origin' = IF outcome.is = "ready" THEN told ELSE origin
    /\ fetch' = NoFetch
    /\ UNCHANGED << subject, config, now, token, bounds >>

-----------------------------------------------------------------------------
(* The departures: stop after stop, with a token.                           *)

Asking(step) ==
    fetch # NoFetch /\ subject = "transit" /\ ~fetch.broken /\ Pending # {} /\ fetch.step = step

UseToken ==
    /\ Asking("token")
    /\ Usable(token)
    /\ fetch' = [fetch EXCEPT !.step = "stop"]
    /\ UNCHANGED << untouched, token, bounds >>

\* A token that lasts no longer than a minute is refused.
AskToken ==
    /\ Asking("token")
    /\ ~Usable(token)
    /\ \E answer \in TokenAnswers :
        IF TextOf(answer) # None /\ TextOf(answer) > 60
          THEN /\ token' = Token
               /\ fetch' = [fetch EXCEPT !.step = "stop", !.fresh = TRUE]
          ELSE /\ fetch' = [fetch EXCEPT !.broken = TRUE, !.excused = TRUE]
               /\ UNCHANGED token
    /\ UNCHANGED << untouched, bounds >>

Rejection == [status |-> 401, arrives |-> "whole", body |-> None]

\* Mutant: the token that was refused is kept for the second attempt.
FaultyDropped == token

Dropped == None

\* A refusal, of the token or of anything else, is met with another token, once.
AskStop ==
    /\ Asking("stop")
    /\ \E part \in NextParts :
       \E answer \in IF token.accepted THEN Answers(subject, part) ELSE {Rejection} :
        LET got == Get(answer)
        IN  IF got.is = "error" /\ got.why = "Unauthorized" /\ ~fetch.retried
              THEN /\ token' = Dropped
                   /\ fetch' = [fetch EXCEPT !.step = "token", !.retried = TRUE,
                                             !.fresh = FALSE]
              ELSE /\ fetch' = IF TextOf(answer) # None
                                 THEN Answered(part, answer)
                                 ELSE [fetch EXCEPT !.broken = TRUE,
                                                    !.excused = fetch.fresh \/ token.accepted]
                   /\ UNCHANGED token
    /\ UNCHANGED << untouched, bounds >>

\* A token runs out, or the API refuses it from now on.
TokenAges ==
    /\ token # None
    /\ bounds.revoked < MaxRevoked
    /\ token' \in {[token EXCEPT !.lasting = FALSE], [token EXCEPT !.accepted = FALSE]} \ {token}
    /\ Counted("revoked")
    /\ UNCHANGED << untouched, fetch >>

-----------------------------------------------------------------------------
(* Meanwhile.                                                               *)

ClockTicks ==
    /\ \E t \in Instants(subject) : t > now
    /\ now' = Min({t \in Instants(subject) : t > now})
    /\ UNCHANGED << subject, config, feed, fetch, token, modified, latest, origin, bounds >>

\* `apply_config` changes no cached value.
ConfigReloads ==
    /\ bounds.reloads < MaxReloads
    /\ config' \in Configs(subject) \ {config}
    /\ Counted("reloads")
    /\ UNCHANGED << subject, now, feed, fetch, token, modified, latest, origin >>

GlancesNext ==
    \/ StartFetch
    \/ AnswerComes
    \/ FetchEnds
    \/ UseToken
    \/ AskToken
    \/ AskStop
    \/ TokenAges
    \/ ClockTicks
    \/ ConfigReloads

-----------------------------------------------------------------------------
(* Properties.  What a fetch was told is in `latest` and in `origin`.       *)

\* The runs are those of the repository that was asked for, as far as they are read.
Own(repository, runs) ==
    \A i \in DOMAIN runs : i <= 10 => runs[i].url[1] = repository

\* A fetch was told what it needs: of several accounts or repositories one is
\* enough, of anything else everything is needed.
ToldWell(f) ==
    LET said(part) == Said(f, part) # None
    IN  CASE subject = "agenda"  -> \E a \in DOMAIN f.got : said(a)
          [] subject = "radar"   ->
                DOMAIN f.got = {} \/ \E r \in DOMAIN f.got : said(r) /\ Own(r, Said(f, r))
          [] subject = "transit" -> ~f.broken
          [] OTHER -> \A part \in DOMAIN f.got : said(part)

\* A mark on a tile is honest.  Without one, the fetch that ended last brought the
\* value, or a word that it has not changed; with one, that fetch failed for want
\* of an answer, and never because a token had run out that could be had anew.
MarksAreHonest ==
    /\ feed.is = "loading" <=> latest = NoFetch
    /\ feed.is = "ready" => ToldWell(latest) \/ NotModified(latest)
    /\ feed.is = "ready" /\ ~NotModified(latest) => origin = latest
    /\ feed.is \in {"stale", "failed"} /\ subject \in ByCommand \ {"health"} => ~ToldWell(latest)
    /\ feed.is \in {"stale", "failed"} =>
            /\ ~NotModified(latest)
            /\ subject = "transit" => latest.broken /\ latest.excused

-----------------------------------------------------------------------------
(* What a tile shows, said without the code that puts it together.          *)

\* The meetings with a link of the accounts that answered, which had not ended when
\* they were asked for: each link once, with its first start, in the order of
\* these.
AgendaIsRight ==
    LET list == feed.value
        candidates == UNION {{e \in ToSet(Said(origin, a)) :
                                /\ ~e.cancelled /\ ~e.allDay
                                /\ e.start < e.end /\ origin.at < e.end
                                /\ \E link \in {e.hangout, e.video} \ {None} :
                                        link.host = "meet" /\ link.path # ""} :
                             a \in {a \in DOMAIN origin.got : Said(origin, a) # None}}
    IN  /\ {list[i].url : i \in DOMAIN list} = {find_meet_url(e) : e \in candidates}
        /\ \A i, j \in DOMAIN list :
                i < j => list[i].start <= list[j].start /\ list[i].url # list[j].url
        /\ \A i \in DOMAIN list : \A e \in candidates :
                find_meet_url(e) = list[i].url => list[i].start <= e.start

\* The colour of the radar says whether any run of a repository that answered came
\* to nothing.
RadarIsRight ==
    LET runs == UNION {{Said(origin, r)[i] : i \in {i \in DOMAIN Said(origin, r) : i <= 10}} :
                       r \in {r \in DOMAIN origin.got :
                                Said(origin, r) # None /\ Own(r, Said(origin, r))}}
        broken == {run \in runs : /\ run.status = "completed"
                                  /\ run.conclusion \in {"failure", "timed_out", "action_required"}}
    IN  /\ RadarFace(feed).tone = "error" <=> broken # {}
        /\ RadarFace(feed).tone = "warning" <=>
                broken = {} /\ \E run \in runs : run.status # "completed"

\* The numbers are those of GitHub, up to the limit; the pull requests on the keys
\* are the ones that changed last.
GitHubIsRight ==
    LET whole(metric) == {i \in DOMAIN Said(origin, metric) :
                            Said(origin, metric)[i].whole /\ Said(origin, metric)[i].site = "github"}
        mine == {Said(origin, "Prs")[i] : i \in whole("Prs")}
        shown == feed.value.Prs
    IN  /\ \A metric \in {"Reviews", "Prs", "Assigned"} :
                Count(feed.value, metric) = Least(origin.config.limit, Cardinality(whole(metric)))
        /\ ToSet(shown) \subseteq mine
        /\ \A i \in DOMAIN shown : \A item \in mine \ ToSet(shown) :
                item.updated <= shown[i].updated

\* A board shows what leaves on the route, in its order; all of it, but for what is
\* not among the first eight departures of the stop.
BoardsAreRight ==
    \A i \in DOMAIN feed.value :
        LET stop == origin.config.stops[i]
            board == feed.value[i]
            said == Said(origin, i)
            ahead == {d \in DOMAIN said : said[d].at >= origin.at - 2}
            onRoute == Only(said, {d \in ahead : OnRoute(said[d], stop)})
        IN  /\ board.gid = stop.gid
            /\ stop.line # "" => IsPrefix(board.departures, onRoute)
            /\ stop.line # "" /\ Cardinality(ahead) <= 8 => board.departures = onRoute

\* The percentages are percentages; the five hours are found by their length, and
\* the Codex tile shows the window that is closest to its limit.
LimitsAreRight ==
    LET said == Said(origin, "http")
        windows == {w \in {said.primary, said.secondary} : w # None /\ w.percent # None}
        Percentage(w) == Clamp(w.percent, 0, 100)
        face == CodexFace(feed, config.limits, now)
        short == CodexFiveHourFace(feed, config.limits, now)
    IN  /\ \E w \in windows : face.shows[1] = Percentage(w)
        /\ \A w \in windows : Percentage(w) <= face.shows[1]
        /\ face.status = "Alert" <=> said.limit_reached
        /\ IF \E w \in windows : w.hours < 24
             THEN \E w \in windows : w.hours < 24 /\ short.shows[1] = Percentage(w)
             ELSE short.status = "Disabled"

\* Without a network the tile is red, whatever a VPN says; it is lit up by the VPN of
\* the configuration and no other.
NetworkIsRight ==
    LET vpns == Said(origin, "vpns")
        connected == {v \in DOMAIN vpns : vpns[v] = "Connected"}
    IN  NetworkFace(feed).tone =
            IF ~Said(origin, "nwi").reachable THEN "error"
            ELSE IF origin.config.vpn \in connected THEN "live" ELSE "network"

\* A day is what its hours are: their extremes, and the weather of the hour next to
\* noon; and a tile further on is a later day.
ForecastIsRight ==
    LET points == {p \in ToSet(Said(origin, "http")) : Plausible(p)}
        days == feed.value.days
    IN  /\ feed.value.current \in points
        /\ \A p \in points : feed.value.current.time <= p.time
        /\ {days[i].date : i \in DOMAIN days} = {DateOf(p.time) : p \in points}
        /\ \A i \in DOMAIN days :
            LET hours == {p \in points : DateOf(p.time) = days[i].date}
            IN  /\ \A p \in hours : p.temperature \in days[i].low..days[i].high
                /\ {days[i].low, days[i].high} \subseteq {p.temperature : p \in hours}
                /\ \E p \in hours : /\ p.symbol = days[i].symbol
                                    /\ \A q \in hours : FromNoon(p.time) <= FromNoon(q.time)
                /\ i > 1 => days[i - 1].date < days[i].date

\* The lake's readings are its own; the trend runs from the oldest that is kept to
\* the newest, and no reading that is left out is newer than one that is kept.
LakeIsRight ==
    LET good(e) == e.temperature # None /\ e.temperature \in -5..50 /\ e.at \in 0..origin.at + 1
    IN  IF subject = "lake"
          THEN feed.value.lake = origin.config.lake /\ good(feed.value)
          ELSE LET all == {e \in ToSet(Said(origin, "http")[origin.config.lake]) : good(e)}
                   kept == feed.value
               IN  /\ ToSet(kept) \subseteq all
                   /\ \A i \in DOMAIN kept : \A e \in all \ ToSet(kept) : e.at <= kept[i].at
                   /\ \A e \in ToSet(kept) : Head(kept).at >= e.at /\ e.at >= Last(kept).at

\* A tile's value is what the services answered to the fetch it came from.
GlancesAreRight ==
    HasValue(feed) =>
        CASE subject = "agenda"               -> AgendaIsRight
          [] subject = "radar"                -> RadarIsRight
          [] subject = "github"               -> GitHubIsRight
          [] subject = "transit"              -> BoardsAreRight
          [] subject = "codex"                -> LimitsAreRight
          [] subject = "network"              -> NetworkIsRight
          [] subject = "forecast"             -> ForecastIsRight
          [] subject \in {"lake", "history"}  -> LakeIsRight
          [] OTHER                            -> TRUE

-----------------------------------------------------------------------------
\* A press opens what its tile shows: the meeting on it, the run that gave the
\* radar its colour, the pull request on it, and the board of its stop - except
\* that a board is opened for the stop that the configuration has there by now.
OpensWhatIsShown ==
    CASE subject = "agenda" ->
            \A i \in 0..1 :
                LET face == MeetingFace(feed, i, now)
                    list == IF HasValue(feed) THEN feed.value ELSE << >>
                IN  IF face.status \in {"Ok", "Stale"}
                      THEN \E m \in ToSet(list) :
                            /\ OpenMeeting(feed, i) = m.url
                            /\ face.shows[1] = m.title /\ face.shows[2] = m.start
                      ELSE OpenMeeting(feed, i) = None
      [] subject = "radar" ->
            HasValue(feed) /\ feed.value # << >> =>
                LET opened == {r \in ToSet(feed.value) : r.url = OpenCiRun(feed)}
                    colour == RadarFace(feed).tone
                IN  /\ colour = "error"   => \E r \in opened : r.state = "Failure"
                    /\ colour = "warning" => \E r \in opened : r.state = "Running"
                    /\ \E r \in opened : \A q \in ToSet(feed.value) :
                            q.state = r.state => q.updated <= r.updated
      [] subject = "github" ->
            \A i \in 0..1 :
                LET face == ItemFace(feed, i)
                IN  OpenGitHubItem(feed, i) =
                        IF face.status \in {"Ok", "Stale"} THEN face.shows[1] ELSE None
      [] subject = "transit" ->
            \A i \in 0..1 :
                LET face == BoardFace(feed, i, now)
                IN  face.status \in {"Ok", "Stale"} /\ config = origin.config =>
                        \E stop \in ToSet(config.stops) :
                            face.shows[1] = stop.label /\ OpenDepartureBoard(config.stops, i) = stop.gid
      [] OTHER -> TRUE

=============================================================================
