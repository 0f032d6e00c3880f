---------------------------- MODULE Repositories -----------------------------
(***************************************************************************)
(* GitHub on the deck: the latest runs of the configured repositories (the *)
(* CI radar) and the searches for pull requests and issues.                *)
(* crates/streamdeck-core/src/integrations/ci.rs and github.rs, the        *)
(* services of the same names, their tiles and what a press opens.         *)
(***************************************************************************)
EXTENDS Tiles

(* The radar.                                                               *)

CiState(run) ==
    IF run.status # "completed" THEN "Running"
    ELSE CASE run.conclusion = "success"                                      -> "Success"
           [] run.conclusion \in {"failure", "timed_out", "action_required"}  -> "Failure"
           [] run.conclusion \in {"cancelled", "skipped"}                     -> "Cancelled"
           [] OTHER                                                           -> "Neutral"

\* A run whose address is not one of this repository's spoils the whole answer.
Spoiled(repository, runs) == \E i \in DOMAIN Take(runs, 10) : runs[i].url[1] # repository

parse_runs(runs) ==
    [i \in DOMAIN Take(runs, 10) |->
        [state |-> CiState(runs[i]), updated |-> runs[i].updated, url |-> runs[i].url]]

\* Newest first.  Equal times keep the order in which the repositories answered.
MergeRuns(runs) == SortedBy(runs, [i \in DOMAIN runs |-> -runs[i].updated])

\* `order` is the order in which the answers came.
RadarOf(repositories, got, order) ==
    LET good == Only(order, {i \in DOMAIN order :
                                got[order[i]] # None /\ ~Spoiled(order[i], got[order[i]])})
    IN  IF good = << >> /\ repositories # << >>
          THEN Failed
          ELSE Ready(MergeRuns(FlattenSeq([i \in DOMAIN good |-> parse_runs(got[good[i]])])))

RunsIn(runs, state) == Cardinality({i \in DOMAIN runs : runs[i].state = state})

\* Mutant: the newest run, whatever it came to.
Faultyactionable(runs) == runs[1]

\* A failure, else one that runs, else any; the newest of these.
actionable(runs) ==
    LET In(state) == {i \in DOMAIN runs : runs[i].state = state}
    IN  runs[Min(IF In("Failure") # {} THEN In("Failure")
                 ELSE IF In("Running") # {} THEN In("Running")
                 ELSE DOMAIN runs)]

RadarFace(feed) ==
    IF ~HasValue(feed) THEN offline_or_loading(feed)
    ELSE LET N(state) == RunsIn(feed.value, state)
         IN  Face(IF N("Failure") > 0 THEN "error"
                  ELSE IF N("Running") > 0 THEN "warning" ELSE "live",
                  << N("Failure"), N("Running"), N("Success") >>,
                  StatusOf(feed))

OpenCiRun(feed) ==
    IF HasValue(feed) /\ feed.value # << >> THEN actionable(feed.value).url ELSE None

-----------------------------------------------------------------------------
(* Pull requests, issues and the inbox.                                     *)

Metrics == {"Reviews", "Prs", "Assigned", "Inbox"}

\* An entry without its fields, or with an address elsewhere, is dropped; the
\* rest is sorted again and cut off.
parse_search(items, limit) ==
    LET whole == Only(items, {i \in DOMAIN items : items[i].whole /\ items[i].site = "github"})
    IN  Take(SortedBy(whole, [i \in DOMAIN whole |-> -whole[i].updated]), limit)

InboxCap == 100

\* All four queries, or nothing.
SummaryOf(limit, got) ==
    IF \E m \in Metrics : got[m] = None
      THEN Failed
      ELSE Ready([Reviews  |-> parse_search(got["Reviews"], limit),
                  Prs      |-> parse_search(got["Prs"], limit),
                  Assigned |-> parse_search(got["Assigned"], limit),
                  Inbox    |-> got["Inbox"],
                  overflow |-> got["Inbox"] >= InboxCap])

Count(summary, metric) ==
    IF metric = "Inbox" THEN summary.Inbox ELSE Len(summary[metric])

SummaryFace(feed) ==
    IF ~HasValue(feed) THEN offline_or_loading(feed)
    ELSE Face(IF Count(feed.value, "Reviews") > 0 THEN "active" ELSE "raised",
              << Count(feed.value, "Reviews"), Count(feed.value, "Prs"),
                 Count(feed.value, "Assigned") >>,
              StatusOf(feed))

\* The inbox says 99+ where the query could not count further.
count_label(summary, metric) ==
    [count |-> Count(summary, metric), more |-> metric = "Inbox" /\ summary.overflow]

MetricFace(feed, metric) ==
    IF ~HasValue(feed) THEN offline_or_loading(feed)
    ELSE Face(IF metric = "Reviews" /\ Count(feed.value, metric) > 0 THEN "active" ELSE "github",
              << count_label(feed.value, metric) >>,
              StatusOf(feed))

ItemFace(feed, index) ==
    IF ~HasValue(feed) THEN offline_or_loading(feed)
    ELSE LET item == At(feed.value.Prs, index)
         IN  IF item = None
               THEN Disabled("sunken", << >>)
               ELSE Face("item", << item.number >>, StatusOf(feed))

OpenGitHubItem(feed, index) ==
    IF HasValue(feed) /\ At(feed.value.Prs, index) # None
      THEN At(feed.value.Prs, index).number
      ELSE None

\* The search that the tile's number came from.
OpenGitHubMetric(feed, metric) == IF HasValue(feed) THEN metric ELSE None

=============================================================================
