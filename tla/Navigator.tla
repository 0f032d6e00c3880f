------------------------------ MODULE Navigator ------------------------------
(***************************************************************************)
(* Navigator (crates/streamdeck-core/src/nav.rs): the page of the deck,    *)
(* and a panel that is shown over it for a while.  Every operator maps the *)
(* navigator to the one after the call; `left` is the time until the panel *)
(* expires.                                                                *)
(***************************************************************************)
EXTENDS DeckTypes

CONSTANT Durations  \* the panel durations, before and after a reload

ASSUME NavigatorAssumption == Durations \subseteq Nat \ {0}

Panels ==
    [page : Pages, return_to : Pages,
     left : UNION {0..duration : duration \in Durations}]

\* None is a value of its own.
ASSUME PanelAssumption == None \notin Panels

Navigators == [page : Pages, panel : Panels \cup {None}]

VisiblePage(nav) == IF nav.panel = None THEN nav.page ELSE nav.panel.page

PanelLeft(nav) == IF nav.panel = None THEN None ELSE nav.panel.left

GoTo(nav, page) == [page |-> page, panel |-> None]

GoToChanges(nav, page) == VisiblePage(nav) # page \/ nav.panel # None

OpenPanel(nav, page, duration) ==
    [nav EXCEPT !.panel =
        [page |-> page,
         return_to |-> IF nav.panel = None THEN nav.page ELSE nav.panel.return_to,
         left |-> duration]]

TouchPanel(nav, duration) ==
    IF nav.panel = None THEN nav ELSE [nav EXCEPT !.panel.left = duration]

DismissPanel(nav) ==
    IF nav.panel = None THEN nav ELSE GoTo(nav, nav.panel.return_to)

\* `poll_panel` closes the panel only then.
Expired(nav) == nav.panel # None /\ nav.panel.left = 0

\* One tick of the clock.
PanelOlder(nav) ==
    IF nav.panel = None \/ nav.panel.left = 0 THEN nav
    ELSE [nav EXCEPT !.panel.left = @ - 1]

=============================================================================
