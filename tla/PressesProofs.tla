----------------------------- MODULE PressesProofs ---------------------------
(***************************************************************************)
(* Proofs about Presses: a press fires at most one action, on the page it  *)
(* went down on, and no deadline of a press or of a panel is lost, for     *)
(* every set of keys, pages, bindings, thresholds and durations, whatever  *)
(* the finger, the device, the control socket, the lock, a wake and a      *)
(* reload do in between.                                                   *)
(***************************************************************************)
EXTENDS Presses, WellFoundedInduction, TLAPS

-----------------------------------------------------------------------------
(* The inductive invariant.                                                *)

\* Whatever takes the page, the connection or the screen away from a press
\* also forgets that the key is held.  A held key that has not armed has not
\* acted, and only a long press arms: what a release takes for a short press
\* has not acted yet.
HeldInv(h, shown, count) ==
    \A k \in Keys : h[k] # None =>
        /\ k \in shown
        /\ ~h[k].armed => count[k] = 0
        /\ h[k].armed => h[k].long

\* The panel and its deadline agree, and a panel that is due has lost its own.
PanelSet == dismissIn = PanelLeft(nav)
PanelDrained == dismissIn = None /\ Expired(nav)

\* The keys that wait for their turn in a pass are armed and have not acted;
\* until the first of them acts, nothing has taken the page from them.  The
\* panel that is due with the pass has no deadline until the pass polls it,
\* unless an action of the pass restarted it.
PassInv ==
    pass # None =>
        /\ \A k \in pass.keys :
               acts[k] = 0 /\ (held[k] # None => held[k].armed)
        /\ pass.first => pass.keys \subseteq fresh
        /\ pass.panelDue =>
               /\ hold = None
               /\ PanelSet \/ PanelDrained

PressesInv ==
    /\ PressesTypeOK
    /\ HeldInv(held, fresh, acts)
    /\ PassInv
    /\ FiresWhereItWentDown
    /\ OneActionPerPress
    /\ ArmIsScheduled
    /\ PanelIsScheduled

-----------------------------------------------------------------------------
(* Numbers.                                                                *)

LEMMA LeastExists ==
    ASSUME NEW S \in SUBSET Nat, S # {}
    PROVE  \E x \in S : \A y \in S : x <= y
<1>1. PICK x \in S : \A y \in S : << y, x >> \notin OpToRel(<, Nat)
  BY NatLessThanWellFounded, WFMin
<1>2. \A y \in S : ~(y < x)
  BY <1>1 DEF OpToRel
<1>3. \A y \in S : y \in Nat
  OBVIOUS
<1>4. \A y \in S : x <= y
  BY <1>2, <1>3
<1> QED BY <1>4

LEMMA MinIsLeast ==
    ASSUME NEW S \in SUBSET Nat, S # {}
    PROVE  Min(S) \in S /\ \A y \in S : Min(S) <= y
BY LeastExists DEF Min

LEMMA MaxIsGreatest ==
    ASSUME NEW n \in Nat, NEW S \in SUBSET (0..n), S # {}
    PROVE  Max(S) \in S /\ \A y \in S : Max(S) >= y
<1> DEFINE T == {n - x : x \in S}
<1>1. T # {}
  <2>1. PICK x \in S : TRUE
    OBVIOUS
  <2> QED BY <2>1
<1>2. T \in SUBSET Nat
  OBVIOUS
<1>3. \E t \in T : \A u \in T : t <= u
  <2> HIDE DEF T
  <2> QED BY <1>1, <1>2, LeastExists
<1>4. PICK x \in S : \A y \in S : n - x <= n - y
  BY <1>3
<1>5. \A y \in S : y \in 0..n
  OBVIOUS
<1>6. \A y \in S : x >= y
  BY <1>4, <1>5
<1> QED BY <1>6 DEF Max

LEMMA MinOfTwo ==
    ASSUME NEW a \in Int, NEW b \in Int
    PROVE  Min({a, b}) = IF a <= b THEN a ELSE b
BY DEF Min

LEMMA MaxOfTwo ==
    ASSUME NEW a \in Int, NEW b \in Int
    PROVE  Max({a, b}) = IF a >= b THEN a ELSE b
BY DEF Max

-----------------------------------------------------------------------------
(* The press tracker.                                                      *)

LEMMA LongestType == Longest \in Nat \ {0} /\ Thresholds \subseteq 1..Longest
BY PressAssumption, PressesAssumption

\* As long as a key may still arm there is a time at which the first does.
LEMMA NextArmType ==
    ASSUME NEW h \in Held, NEW t \in Thresholds
    PROVE  /\ NextArm(h, t) \in 0..Longest \cup {None}
           /\ Waiting(h) # {} => NextArm(h, t) # None
<1>1. CASE Waiting(h) = {}
  BY <1>1 DEF NextArm
<1>2. CASE Waiting(h) # {}
  <2> DEFINE ages == {h[k].age : k \in Waiting(h)}
  <2>1. \A k \in Waiting(h) : h[k].age \in 0..Longest
    BY DEF Waiting, Held, Press
  <2>2. PICK k \in Waiting(h) : TRUE
    BY <1>2
  <2>3. ages \in SUBSET (0..Longest) /\ ages # {}
    BY <2>1, <2>2
  <2>4. Max(ages) \in 0..Longest
    <3> HIDE DEF ages
    <3>1. Max(ages) \in ages
      BY <2>3, LongestType, MaxIsGreatest
    <3> QED BY <2>3, <3>1
  <2>5. t \in 1..Longest
    BY LongestType
  <2>6. t - Max(ages) \in Int /\ t - Max(ages) <= Longest
    <3> HIDE DEF ages
    <3> QED BY <2>4, <2>5, LongestType
  <2>7. Max({0, t - Max(ages)}) \in 0..Longest
    <3> HIDE DEF ages
    <3> DEFINE left == t - Max(ages)
    <3>1. Max({0, left}) = IF 0 >= left THEN 0 ELSE left
      <4>1. left \in Int
        BY <2>6
      <4> HIDE DEF left
      <4> QED BY <4>1, MaxOfTwo
    <3> QED BY <2>6, <3>1, LongestType
  <2>8. NextArm(h, t) = Max({0, t - Max(ages)})
    BY <1>2 DEF NextArm
  <2> HIDE DEF ages
  <2>9. NextArm(h, t) \in 0..Longest
    BY <2>7, <2>8
  <2> QED BY <2>9, DeckAssumption, LongestType
<1> QED BY <1>1, <1>2

LEMMA NothingHeldType ==
    NothingHeld \in Held /\ \A k \in Keys : NothingHeld[k] = None
BY DEF NothingHeld, Held

LEMMA PressedDownType ==
    ASSUME NEW h \in Held, NEW k \in Keys, NEW long \in BOOLEAN
    PROVE  /\ PressedDown(h, k, long) \in Held
           /\ PressedDown(h, k, long)[k] = [age |-> 0, armed |-> FALSE, long |-> long]
           /\ \A j \in Keys \ {k} : PressedDown(h, k, long)[j] = h[j]
<1>1. [age |-> 0, armed |-> FALSE, long |-> long] \in Press
  BY LongestType DEF Press
<1> QED BY <1>1 DEF PressedDown, Held

LEMMA ReleasedType ==
    ASSUME NEW h \in Held, NEW k \in Keys
    PROVE  /\ Released(h, k) \in Held
           /\ Released(h, k)[k] = None
           /\ \A j \in Keys \ {k} : Released(h, k)[j] = h[j]
BY DEF Released, Held

\* Arming changes nothing but `armed`, and only of the keys that arm.
LEMMA ArmedType ==
    ASSUME NEW h \in Held, NEW ripe \in SUBSET Waiting(h)
    PROVE  /\ Armed(h, ripe) \in Held
           /\ \A k \in ripe : Armed(h, ripe)[k].armed /\ Armed(h, ripe)[k].long
           /\ \A k \in Keys \ ripe : Armed(h, ripe)[k] = h[k]
<1> DEFINE e(k) == [h[k] EXCEPT !.armed = TRUE]
<1>1. ASSUME NEW k \in ripe
      PROVE  e(k) \in Press /\ e(k).armed /\ e(k).long
  <2>1. k \in Keys /\ h[k] \in Press /\ h[k].long
    BY DEF Waiting, Held
  <2> QED BY <2>1 DEF Press
<1>2. \A k \in Keys : Armed(h, ripe)[k] = IF k \in ripe THEN e(k) ELSE h[k]
  BY DEF Armed
<1>3. ripe \subseteq Keys
  BY DEF Waiting
<1>4. Armed(h, ripe) = [k \in Keys |-> IF k \in ripe THEN e(k) ELSE h[k]]
  BY DEF Armed
<1> HIDE DEF e
<1>5. Armed(h, ripe) \in Held
  BY <1>1, <1>4 DEF Held
<1> QED BY <1>1, <1>2, <1>3, <1>5

\* Time makes presses older, and nothing else.
LEMMA OlderType ==
    ASSUME NEW h \in Held
    PROVE  /\ Older(h) \in Held
           /\ \A k \in Keys : Older(h)[k] # None =>
                  /\ h[k] # None
                  /\ Older(h)[k].armed = h[k].armed
                  /\ Older(h)[k].long = h[k].long
<1> DEFINE e(k) == [h[k] EXCEPT !.age = Min({@ + 1, Longest})]
<1>1. ASSUME NEW k \in Keys, h[k] # None
      PROVE  e(k) \in Press /\ e(k).armed = h[k].armed /\ e(k).long = h[k].long
  <2>1. h[k] \in Press
    BY <1>1 DEF Held
  <2>2. h[k].age \in 0..Longest
    BY <2>1 DEF Press
  <2>3. Min({h[k].age + 1, Longest})
            = IF h[k].age + 1 <= Longest THEN h[k].age + 1 ELSE Longest
    <3>1. h[k].age + 1 \in Int /\ Longest \in Int
      BY <2>2, LongestType
    <3> QED BY <3>1, MinOfTwo
  <2>4. Min({h[k].age + 1, Longest}) \in 0..Longest
    BY <2>2, <2>3, LongestType
  <2> QED BY <2>1, <2>4 DEF Press
<1>2. Older(h) = [k \in Keys |-> IF h[k] = None THEN None ELSE e(k)]
  BY DEF Older
<1> HIDE DEF e
<1>3. Older(h) \in Held
  BY <1>1, <1>2 DEF Held
<1> QED BY <1>1, <1>2, <1>3

-----------------------------------------------------------------------------
(* The navigator.                                                          *)

LEMMA PanelTime ==
    /\ \A d \in Durations : d \in Nat \ {0} /\ 0..d \subseteq LongestPanel
    /\ \A t \in LongestPanel : t \in Nat /\ 0..t \subseteq LongestPanel
<1>1. \A d \in Durations : d \in Nat \ {0}
  BY NavigatorAssumption
<1>2. \A d \in Durations : 0..d \subseteq LongestPanel
  BY DEF LongestPanel
<1>3. ASSUME NEW t \in LongestPanel
      PROVE  t \in Nat /\ 0..t \subseteq LongestPanel
  <2>1. PICK d \in Durations : t \in 0..d
    BY <1>3 DEF LongestPanel
  <2>2. 0..t \subseteq 0..d
    BY <1>1, <2>1
  <2> QED BY <1>2, <2>1, <2>2, <1>1
<1> QED BY <1>1, <1>2, <1>3

LEMMA PanelType ==
    /\ Panels = [page : Pages, return_to : Pages, left : LongestPanel]
    /\ \A n \in Navigators : n.page \in Pages /\ n.panel \in Panels \cup {None}
BY DEF Panels, LongestPanel, Navigators

LEMMA GoToType ==
    ASSUME NEW page \in Pages, NEW n
    PROVE  GoTo(n, page) \in Navigators /\ PanelLeft(GoTo(n, page)) = None
BY DEF GoTo, Navigators, PanelLeft

LEMMA OpenPanelType ==
    ASSUME NEW n \in Navigators, NEW page \in Pages, NEW d \in Durations
    PROVE  OpenPanel(n, page, d) \in Navigators
<1> DEFINE back == IF n.panel = None THEN n.page ELSE n.panel.return_to
           panel == [page |-> page, return_to |-> back, left |-> d]
<1>1. back \in Pages
  BY PanelType
<1>2. d \in LongestPanel
  BY PanelTime
<1>3. panel \in Panels
  BY <1>1, <1>2, PanelType
<1>4. OpenPanel(n, page, d) = [n EXCEPT !.panel = panel]
  BY DEF OpenPanel
<1> HIDE DEF panel
<1> QED BY <1>3, <1>4 DEF Navigators

LEMMA TouchPanelType ==
    ASSUME NEW n \in Navigators, NEW d \in Durations
    PROVE  /\ TouchPanel(n, d) \in Navigators
           /\ PanelLeft(TouchPanel(n, d)) = IF n.panel = None THEN None ELSE d
           /\ (TouchPanel(n, d).panel = None) <=> (n.panel = None)
<1>1. CASE n.panel = None
  BY <1>1 DEF TouchPanel, PanelLeft
<1>2. CASE n.panel # None
  <2> DEFINE panel == [n.panel EXCEPT !.left = d]
  <2>1. n.panel \in Panels
    BY <1>2, PanelType
  <2>2. panel \in Panels /\ panel.left = d
    BY <2>1, PanelTime, PanelType
  <2>3. TouchPanel(n, d) = [n EXCEPT !.panel = panel]
    BY <1>2 DEF TouchPanel
  <2> HIDE DEF panel
  <2>4. TouchPanel(n, d) \in Navigators /\ TouchPanel(n, d).panel = panel
    BY <2>2, <2>3 DEF Navigators
  <2>5. panel # None
    BY <2>2, PanelAssumption
  <2> QED BY <1>2, <2>2, <2>4, <2>5 DEF PanelLeft
<1> QED BY <1>1, <1>2

LEMMA DismissPanelType ==
    ASSUME NEW n \in Navigators
    PROVE  DismissPanel(n) \in Navigators /\ PanelLeft(DismissPanel(n)) = None
<1>1. CASE n.panel = None
  BY <1>1 DEF DismissPanel, PanelLeft
<1>2. CASE n.panel # None
  <2>1. n.panel.return_to \in Pages
    BY <1>2, PanelType
  <2> QED BY <1>2, <2>1, GoToType DEF DismissPanel
<1> QED BY <1>1, <1>2

\* The panel and its deadline run down together.
LEMMA PanelOlderType ==
    ASSUME NEW n \in Navigators
    PROVE  /\ PanelOlder(n) \in Navigators
           /\ PanelLeft(PanelOlder(n)) = Sooner(PanelLeft(n))
           /\ PanelLeft(n) \in LongestPanel \cup {None}
<1>1. CASE n.panel = None
  BY <1>1 DEF PanelOlder, PanelLeft, Sooner
<1>2. CASE n.panel # None
  <2>1. n.panel \in Panels
    BY <1>2, PanelType
  <2>2. n.panel.left \in LongestPanel /\ n.panel.left \in Nat
    BY <2>1, PanelType, PanelTime
  <2>3. PanelLeft(n) = n.panel.left /\ n.panel.left # None
    BY <1>2, <2>2, DeckAssumption DEF PanelLeft
  <2>4. CASE n.panel.left = 0
    BY <2>2, <2>3, <2>4 DEF PanelOlder, Sooner
  <2>5. CASE n.panel.left # 0
    <3> DEFINE left == n.panel.left - 1
               panel == [n.panel EXCEPT !.left = left]
    <3>1. left \in LongestPanel
      <4>1. left \in 0..n.panel.left
        BY <2>2, <2>5
      <4> QED BY <2>2, <4>1, PanelTime
    <3>2. panel \in Panels /\ panel.left = left
      BY <2>1, <3>1, PanelType
    <3>3. PanelOlder(n) = [n EXCEPT !.panel = panel]
      BY <1>2, <2>5 DEF PanelOlder
    <3>4. Sooner(PanelLeft(n)) = left
      BY <2>3, <2>5 DEF Sooner
    <3> HIDE DEF panel, left
    <3>5. PanelOlder(n) \in Navigators /\ PanelOlder(n).panel = panel
      BY <3>2, <3>3 DEF Navigators
    <3>6. panel # None
      BY <3>2, PanelAssumption
    <3> QED BY <2>2, <2>3, <3>2, <3>4, <3>5, <3>6 DEF PanelLeft
  <2> QED BY <2>4, <2>5
<1> QED BY <1>1, <1>2

-----------------------------------------------------------------------------
(* What an action does.                                                    *)

LEMMA BindingType ==
    ASSUME NEW k \in Keys, nav \in Navigators
    PROVE  /\ ShortOf(k) \in Action
           /\ HasLong(k) \in BOOLEAN
           /\ HasLong(k) => Bound(k).long \in Action
<1>1. VisiblePage(nav) \in Pages
  BY PanelType DEF VisiblePage
<1>2. Bound(k) \in [short : Action, long : Action \cup {None}] \cup {None}
  BY <1>1, PressesAssumption DEF Bound
<1>3. HasLong(k) = (Bound(k) # None /\ Bound(k).long # None)
  BY DEF HasLong
<1>4. [kind |-> "none"] \in Action
  BY DEF Action
<1> HIDE DEF Bound
<1>5. ShortOf(k) \in Action
  BY <1>2, <1>4 DEF ShortOf
<1> QED BY <1>2, <1>3, <1>5

\* The pages that an action can lead to, and that it changes nothing if it
\* does not change the page.
LEMMA ActedType ==
    ASSUME NEW action \in Action, NEW n \in Navigators, duration \in Durations
    PROVE  /\ Acted(action, n) \in Navigators
           /\ PageChanged(action, n) \in BOOLEAN
           /\ ~PageChanged(action, n) => Acted(action, n) = n
<1>0. action.kind \in {"none", "dismiss", "go", "panel"}
  BY DEF Action
<1>1. CASE action.kind = "go"
  <2>1. action.page \in Pages
    BY <1>1 DEF Action
  <2>2. Acted(action, n) = GoTo(n, action.page)
    BY <1>1 DEF Acted
  <2>3. PageChanged(action, n) = GoToChanges(n, action.page)
    BY <1>1 DEF PageChanged, GoToChanges
  <2>4. ASSUME ~GoToChanges(n, action.page)
        PROVE  GoTo(n, action.page) = n
    <3>1. n.panel = None /\ n.page = action.page
      BY <2>4 DEF GoToChanges, VisiblePage
    <3> QED BY <3>1 DEF GoTo, Navigators
  <2> QED BY <2>1, <2>2, <2>3, <2>4, GoToType DEF GoToChanges
<1>2. CASE action.kind = "panel"
  <2>1. action.page \in Pages
    BY <1>2 DEF Action
  <2> QED BY <1>2, <2>1, OpenPanelType DEF Acted, PageChanged
<1>3. CASE action.kind = "dismiss"
  BY <1>3, DismissPanelType DEF Acted, PageChanged, DismissPanel
<1>4. CASE action.kind = "none"
  BY <1>4 DEF Acted, PageChanged
<1> QED BY <1>0, <1>1, <1>2, <1>3, <1>4

\* An action leaves the panel with its deadline, and what is held as it was or
\* forgotten; the page that is shown changes only if it is forgotten.
LEMMA ExecuteType ==
    ASSUME PressesTypeOK,
           NEW action \in Action, NEW h \in Held,
           Execute(action, h)
    PROVE  /\ nav' \in Navigators
           /\ dismissIn' \in LongestPanel \cup {None}
           /\ held' \in Held
           /\ fresh' \subseteq Keys
           /\ (held' = h /\ fresh' = fresh) \/ held' = NothingHeld
           /\ PanelSet \/ PanelDrained => PanelSet'
<1> DEFINE touched == TouchPanel(nav, duration)
           result == Acted(action, touched)
<1>1. /\ nav \in Navigators
      /\ duration \in Durations
      /\ dismissIn \in LongestPanel \cup {None}
      /\ fresh \subseteq Keys
  BY DEF PressesTypeOK
<1>2. /\ touched \in Navigators
      /\ PanelLeft(touched) = IF nav.panel = None THEN None ELSE duration
  BY <1>1, TouchPanelType
<1>3. /\ result \in Navigators
      /\ ~PageChanged(action, touched) => result = touched
  <2> HIDE DEF touched
  <2> QED BY <1>1, <1>2, ActedType
<1>4. fresh' = IF result = touched THEN fresh ELSE {}
  BY DEF Execute
<1>5. CASE PageChanged(action, touched)
  <2>1. AfterPageChange(result)
    BY <1>5 DEF Execute
  <2>2. nav' = result /\ held' = NothingHeld /\ dismissIn' = PanelLeft(result)
    BY <2>1 DEF AfterPageChange
  <2> HIDE DEF result, touched
  <2>3. dismissIn' \in LongestPanel \cup {None}
    BY <1>3, <2>2, PanelOlderType
  <2>4. PanelSet'
    BY <2>2 DEF PanelSet
  <2>5. fresh' \subseteq Keys
    BY <1>1, <1>4
  <2> QED BY <1>3, <2>2, <2>3, <2>4, <2>5, NothingHeldType
<1>6. CASE ~PageChanged(action, touched)
  <2>1. /\ nav' = touched
        /\ dismissIn' = IF nav.panel # None THEN duration ELSE dismissIn
        /\ held' = h
    BY <1>6 DEF Execute
  <2> HIDE DEF result, touched
  <2>2. dismissIn' \in LongestPanel \cup {None}
    <3>1. duration \in 0..duration
      BY <1>1, PanelTime
    <3>2. duration \in LongestPanel
      BY <1>1, <3>1, PanelTime
    <3> QED BY <1>1, <2>1, <3>2
  <2>3. PanelSet \/ PanelDrained => PanelSet'
    <3>1. CASE nav.panel = None
      BY <1>2, <2>1, <3>1 DEF PanelSet, PanelDrained, Expired, PanelLeft
    <3>2. CASE nav.panel # None
      BY <1>2, <2>1, <3>2 DEF PanelSet
    <3> QED BY <3>1, <3>2
  <2> QED BY <1>1, <1>2, <1>3, <1>4, <1>6, <2>1, <2>2, <2>3
<1> QED BY <1>5, <1>6

-----------------------------------------------------------------------------
(* What becomes of a press.                                                *)

\* What a handler that may run the action of k leaves behind, if h was held
\* before the action.
Handled(k, h) ==
    /\ nav' \in Navigators
    /\ dismissIn' \in LongestPanel \cup {None}
    /\ held' \in {h, NothingHeld}
    /\ held' \in Held
    /\ fresh' \subseteq Keys
    /\ fired' \in [fresh : BOOLEAN, first : BOOLEAN]
    /\ acts' \in [Keys -> 0..2]
    /\ \A j \in Keys \ {k} : acts'[j] = acts[j]
    /\ HeldInv(held', fresh', acts')
    /\ FiresWhereItWentDown'
    /\ OneActionPerPress'
    /\ PanelSet => PanelSet'
    /\ PanelDrained => PanelSet' \/ PanelDrained'

LEMMA FireHandles ==
    ASSUME PressesTypeOK, OneActionPerPress,
           NEW k \in Keys, NEW action \in Action, NEW h \in Held,
           NEW first \in BOOLEAN,
           HeldInv(h, fresh, acts),
           acts[k] = 0,
           h[k] # None => h[k].armed,
           first => k \in fresh,
           Fire(k, action, h, first)
    PROVE  Handled(k, h)
<1>1. /\ nav' \in Navigators
      /\ dismissIn' \in LongestPanel \cup {None}
      /\ held' \in Held
      /\ fresh' \subseteq Keys
      /\ (held' = h /\ fresh' = fresh) \/ held' = NothingHeld
      /\ PanelSet \/ PanelDrained => PanelSet'
  BY ExecuteType DEF Fire
<1>2. fired' = [fresh |-> k \in fresh, first |-> first]
  BY DEF Fire
<1>3. acts' = [acts EXCEPT ![k] = 1]
  <2>1. Min({acts[k] + 1, 2}) = 1
    BY MinOfTwo
  <2> QED BY <2>1 DEF Fire
<1>4. acts \in [Keys -> 0..2]
  BY DEF PressesTypeOK
<1>5. acts' \in [Keys -> 0..2] /\ acts'[k] = 1
  BY <1>3, <1>4
<1>6. \A j \in Keys \ {k} : acts'[j] = acts[j]
  BY <1>3, <1>4
<1>7. HeldInv(held', fresh', acts')
  <2>1. CASE held' = NothingHeld
    BY <2>1, NothingHeldType DEF HeldInv
  <2>2. CASE held' = h /\ fresh' = fresh
    BY <2>2, <1>6 DEF HeldInv
  <2> QED BY <1>1, <2>1, <2>2
<1>8. fired' \in [fresh : BOOLEAN, first : BOOLEAN]
  BY <1>2
<1>9. FiresWhereItWentDown'
  <2>1. fired'.fresh = (k \in fresh) /\ fired'.first = first
    BY <1>2
  <2> QED BY <2>1 DEF FiresWhereItWentDown
<1>10. OneActionPerPress'
  BY <1>5, <1>6 DEF OneActionPerPress
<1> QED BY <1>1, <1>5, <1>6, <1>7, <1>8, <1>9, <1>10 DEF Handled

LEMMA FireNothingHandles ==
    ASSUME PressesTypeOK, OneActionPerPress, FiresWhereItWentDown,
           NEW k \in Keys, NEW h \in Held,
           HeldInv(h, fresh, acts),
           FireNothing(h)
    PROVE  Handled(k, h)
<1>1. held' = h /\ nav' = nav /\ dismissIn' = dismissIn /\ fresh' = fresh
      /\ fired' = fired /\ acts' = acts
  BY DEF FireNothing
<1>2. FiresWhereItWentDown' /\ OneActionPerPress'
  BY <1>1 DEF FiresWhereItWentDown, OneActionPerPress
<1>3. (PanelSet => PanelSet') /\ (PanelDrained => PanelDrained')
  BY <1>1 DEF PanelSet, PanelDrained
<1> QED BY <1>1, <1>2, <1>3 DEF PressesTypeOK, Handled

\* A release ends the press, and acts only if nothing has acted for it.
LEMMA ReleaseHandles ==
    ASSUME PressesInv, NEW k \in Keys, Release(k, held)
    PROVE  /\ Handled(k, Released(held, k))
           /\ armIn' = NextArm(Released(held, k), threshold)
<1> DEFINE h == Released(held, k)
<1>1. PressesTypeOK /\ OneActionPerPress /\ FiresWhereItWentDown
      /\ HeldInv(held, fresh, acts)
  BY DEF PressesInv
<1>2. held \in Held /\ nav \in Navigators
  BY <1>1 DEF PressesTypeOK
<1>3. h \in Held /\ h[k] = None /\ \A j \in Keys \ {k} : h[j] = held[j]
  BY <1>2, ReleasedType
<1>4. armIn' = NextArm(h, threshold)
  BY DEF Release, Rearm
<1>5. HeldInv(h, fresh, acts)
  <2> HIDE DEF h
  <2> QED BY <1>1, <1>3 DEF HeldInv
<1>6. CASE KeyUp(held[k], threshold) = "ShortPress"
  <2>1. Fire(k, ShortOf(k), h, TRUE)
    BY <1>6 DEF Release
  <2>2. held[k] # None /\ ~(held[k].long /\ held[k].armed)
    BY <1>6 DEF KeyUp
  <2>3. held[k].armed \in BOOLEAN /\ held[k].long \in BOOLEAN
    BY <1>2, <2>2 DEF Held, Press
  <2>4. acts[k] = 0 /\ k \in fresh
    BY <1>1, <2>2, <2>3 DEF HeldInv
  <2>5. ShortOf(k) \in Action
    BY <1>2, BindingType
  <2>6. Handled(k, h)
    <3> HIDE DEF h
    <3> QED BY <1>1, <1>3, <1>5, <2>1, <2>4, <2>5, FireHandles
  <2> QED BY <1>4, <2>6
<1>7. CASE KeyUp(held[k], threshold) # "ShortPress"
  <2>1. FireNothing(h)
    BY <1>7 DEF Release
  <2>2. Handled(k, h)
    <3> HIDE DEF h
    <3> QED BY <1>1, <1>3, <1>5, <2>1, FireNothingHandles
  <2> QED BY <1>4, <2>2
<1> QED BY <1>6, <1>7

-----------------------------------------------------------------------------
(* Steps that leave the presses and the page alone.                        *)

LEMMA SameRuntime ==
    ASSUME PressesInv, PressesTypeOK',
           UNCHANGED << held, nav, armIn, dismissIn, hold, pass, fresh, fired, acts >>
    PROVE  PressesInv'
<1>1. HeldInv(held', fresh', acts')
  BY DEF PressesInv
<1>2. PanelSet' = PanelSet /\ PanelDrained' = PanelDrained
  BY DEF PanelSet, PanelDrained
<1>3. PassInv'
  BY <1>2 DEF PressesInv, PassInv
<1>4. FiresWhereItWentDown' /\ OneActionPerPress'
  BY DEF PressesInv, FiresWhereItWentDown, OneActionPerPress
<1>5. ArmIsScheduled' /\ PanelIsScheduled'
  BY DEF PressesInv, ArmIsScheduled, PanelIsScheduled
<1> QED BY <1>1, <1>3, <1>4, <1>5 DEF PressesInv

\* A step that leaves no pass behind.
LEMMA NoPass ==
    ASSUME PressesTypeOK', pass' = None,
           HeldInv(held', fresh', acts'),
           FiresWhereItWentDown', OneActionPerPress',
           Waiting(held') # {} => armIn' # None,
           PanelSet'
    PROVE  PressesInv'
<1>1. PassInv'
  BY DEF PassInv
<1>2. ArmIsScheduled'
  BY DEF ArmIsScheduled
<1>3. PanelIsScheduled'
  BY DEF PanelIsScheduled, PanelSet
<1> QED BY <1>1, <1>2, <1>3 DEF PressesInv

LEMMA QueueType ==
    ASSUME NEW q \in Seq(Events)
    PROVE  /\ \A e \in Events : Append(q, e) \in Seq(Events)
           /\ q # << >> => Head(q) \in Events /\ Tail(q) \in Seq(Events)
OBVIOUS

LEMMA TouchKeeps ==
    ASSUME PressesInv, NEW k \in Keys, Touch(k)
    PROVE  PressesInv'
<1>1. PressesTypeOK
  BY DEF PressesInv
<1>2. UNCHANGED << held, nav, armIn, dismissIn, hold, pass, fresh, fired, acts >>
  BY DEF Touch, runtimeVars, config, control
<1>3. PressesTypeOK'
  BY <1>1 DEF PressesTypeOK, Touch, runtimeVars, config, control
<1> QED BY <1>2, <1>3, SameRuntime

LEMMA ReportKeeps ==
    ASSUME PressesInv, Report
    PROVE  PressesInv'
<1> DEFINE changed == SymDiff(down, seen)
           k == Forwarded(changed)
           event == [kind |-> IF k \in down THEN "Down" ELSE "Up", key |-> k]
<1>1. PressesTypeOK
  BY DEF PressesInv
<1>2. UNCHANGED << held, nav, armIn, dismissIn, hold, pass, fresh, fired, acts >>
  BY DEF Report, runtimeVars, config, control
<1>3. changed \subseteq Keys /\ changed # {}
  BY <1>1 DEF Report, SymDiff, PressesTypeOK
<1>4. k \in Keys
  <2> HIDE DEF changed
  <2>1. Min(changed) \in changed
    BY <1>3, DeckAssumption, MinIsLeast
  <2> QED BY <1>3, <2>1 DEF Forwarded
<1>5. event \in Events
  <2> HIDE DEF k
  <2> QED BY <1>4 DEF Events
<1>6. queue' = Append(queue, event) /\ seen' = down
  BY DEF Report
<1>7. queue' \in Seq(Events)
  <2> HIDE DEF event
  <2>1. queue \in Seq(Events)
    BY <1>1 DEF PressesTypeOK
  <2> QED BY <1>5, <1>6, <2>1, QueueType
<1>8. PressesTypeOK'
  BY <1>1, <1>6, <1>7 DEF PressesTypeOK, Report, runtimeVars, config, control
<1> QED BY <1>2, <1>8, SameRuntime

LEMMA UnplugKeeps ==
    ASSUME PressesInv, Unplug \/ Replug
    PROVE  PressesInv'
<1>1. PressesTypeOK
  BY DEF PressesInv
<1>2. UNCHANGED << held, nav, armIn, dismissIn, hold, pass, fresh, fired, acts >>
  BY DEF Unplug, Replug, runtimeVars, config, control
<1>3. queue \in Seq(Events)
  BY <1>1 DEF PressesTypeOK
<1>4. queue' \in Seq(Events)
  <2>1. /\ [kind |-> "DeviceDisconnected"] \in Events
        /\ [kind |-> "DeviceReconnected"] \in Events
    BY DEF Events
  <2> QED BY <1>3, <2>1, QueueType DEF Unplug, Replug
<1>5. unplugs' \in 0..MaxUnplugs
  BY <1>1, PressesAssumption DEF PressesTypeOK, Unplug, Replug
<1>6. PressesTypeOK'
  BY <1>1, <1>4, <1>5 DEF PressesTypeOK, Unplug, Replug, runtimeVars, config, control
<1> QED BY <1>2, <1>6, SameRuntime

-----------------------------------------------------------------------------
(* The events.                                                             *)

LEMMA TakeType ==
    ASSUME PressesTypeOK, NEW kinds, Take(kinds)
    PROVE  /\ pass = None /\ hold = None
           /\ queue' \in Seq(Events)
           /\ Head(queue) \in Events /\ Head(queue).kind \in kinds
           /\ kinds \subseteq {"Down", "Up"} => Head(queue).key \in Keys
<1>1. queue \in Seq(Events) /\ queue # << >> /\ queue' = Tail(queue)
  BY DEF PressesTypeOK, Take
<1>2. queue' \in Seq(Events) /\ Head(queue) \in Events
  BY <1>1, QueueType
<1>3. Head(queue).kind \in kinds
  BY DEF Take
<1>4. kinds \subseteq {"Down", "Up"} => Head(queue).key \in Keys
  BY <1>2, <1>3 DEF Events
<1> QED BY <1>2, <1>3, <1>4 DEF Take, Idle

LEMMA IgnoreKeyKeeps ==
    ASSUME PressesInv, IgnoreKey
    PROVE  PressesInv'
<1>1. PressesTypeOK
  BY DEF PressesInv
<1>2. queue' \in Seq(Events)
  BY <1>1, TakeType DEF IgnoreKey
<1>3. UNCHANGED << held, nav, armIn, dismissIn, hold, pass, fresh, fired, acts >>
  BY DEF IgnoreKey, control, aux
<1>4. PressesTypeOK'
  BY <1>1, <1>2 DEF PressesTypeOK, IgnoreKey, device, config, control, aux
<1> QED BY <1>3, <1>4, SameRuntime

LEMMA PanelIsSet ==
    ASSUME PressesInv, pass = None
    PROVE  PanelSet
BY DEF PressesInv, PanelIsScheduled, PanelSet

\* A press that begins: from the device, or a Hold from the control socket.
LEMMA PressBegins ==
    ASSUME PressesInv, NEW k \in Keys,
           held' = PressedDown(held, k, HasLong(k)),
           Rearm(held'),
           fresh' = fresh \cup {k},
           acts' = [acts EXCEPT ![k] = 0]
    PROVE  /\ held' \in Held
           /\ armIn' \in 0..Longest \cup {None}
           /\ Waiting(held') # {} => armIn' # None
           /\ fresh' \subseteq Keys
           /\ acts' \in [Keys -> 0..2]
           /\ HeldInv(held', fresh', acts')
           /\ OneActionPerPress'
<1>1. /\ held \in Held /\ nav \in Navigators /\ fresh \subseteq Keys
      /\ acts \in [Keys -> 0..2] /\ threshold \in Thresholds
  BY DEF PressesInv, PressesTypeOK
<1>2. HeldInv(held, fresh, acts) /\ OneActionPerPress
  BY DEF PressesInv
<1>3. HasLong(k) \in BOOLEAN
  BY <1>1, BindingType
<1>4. /\ held' \in Held
      /\ held'[k] = [age |-> 0, armed |-> FALSE, long |-> HasLong(k)]
      /\ \A j \in Keys \ {k} : held'[j] = held[j]
  BY <1>1, <1>3, PressedDownType
<1>5. /\ armIn' \in 0..Longest \cup {None}
      /\ Waiting(held') # {} => armIn' # None
  BY <1>1, <1>4, NextArmType DEF Rearm
<1>6. acts' \in [Keys -> 0..2] /\ acts'[k] = 0 /\ \A j \in Keys \ {k} : acts'[j] = acts[j]
  BY <1>1
<1>7. HeldInv(held', fresh', acts')
  <2> SUFFICES ASSUME NEW j \in Keys, held'[j] # None
               PROVE  /\ j \in fresh'
                      /\ ~held'[j].armed => acts'[j] = 0
                      /\ held'[j].armed => held'[j].long
    BY DEF HeldInv
  <2>1. CASE j = k
    BY <1>4, <1>6, <2>1
  <2>2. CASE j # k
    BY <1>2, <1>4, <1>6, <2>2 DEF HeldInv
  <2> QED BY <2>1, <2>2
<1>8. OneActionPerPress'
  BY <1>2, <1>6 DEF OneActionPerPress
<1> QED BY <1>1, <1>4, <1>5, <1>6, <1>7, <1>8

LEMMA KeyDownKeeps ==
    ASSUME PressesInv, KeyDown
    PROVE  PressesInv'
<1> DEFINE k == Head(queue).key
<1>1. PressesTypeOK
  BY DEF PressesInv
<1>2. queue' \in Seq(Events) /\ pass = None /\ hold = None /\ k \in Keys
  BY <1>1, TakeType DEF KeyDown
<1>3. /\ held' = PressedDown(held, k, HasLong(k))
      /\ Rearm(held')
      /\ fresh' = fresh \cup {k}
      /\ acts' = [acts EXCEPT ![k] = 0]
      /\ UNCHANGED << device, config, nav, dismissIn, locked, control, unplugs, fired >>
  BY DEF KeyDown
<1> HIDE DEF k
<1>4. /\ held' \in Held
      /\ armIn' \in 0..Longest \cup {None}
      /\ Waiting(held') # {} => armIn' # None
      /\ fresh' \subseteq Keys
      /\ acts' \in [Keys -> 0..2]
      /\ HeldInv(held', fresh', acts')
      /\ OneActionPerPress'
  BY <1>2, <1>3, PressBegins
<1>5. PressesTypeOK'
  BY <1>1, <1>2, <1>3, <1>4 DEF PressesTypeOK, device, config, control
<1>6. FiresWhereItWentDown'
  BY <1>3 DEF PressesInv, FiresWhereItWentDown
<1>7. PanelSet'
  BY <1>2, <1>3, PanelIsSet DEF PanelSet
<1> QED BY <1>2, <1>3, <1>4, <1>5, <1>6, <1>7, NoPass DEF control

LEMMA NothingWaits == Waiting(NothingHeld) = {}
BY NothingHeldType DEF Waiting

\* The release of a key, from the device or at the end of a Hold.
LEMMA PressEnds ==
    ASSUME PressesInv, NEW k \in Keys, Release(k, held),
           pass = None \/ ~pass.panelDue
    PROVE  /\ nav' \in Navigators
           /\ armIn' \in 0..Longest \cup {None}
           /\ dismissIn' \in LongestPanel \cup {None}
           /\ held' \in Held
           /\ fresh' \subseteq Keys
           /\ fired' \in [fresh : BOOLEAN, first : BOOLEAN]
           /\ acts' \in [Keys -> 0..2]
           /\ HeldInv(held', fresh', acts')
           /\ FiresWhereItWentDown'
           /\ OneActionPerPress'
           /\ Waiting(held') # {} => armIn' # None
           /\ PanelSet'
<1> DEFINE h == Released(held, k)
<1>1. Handled(k, h) /\ armIn' = NextArm(h, threshold)
  BY ReleaseHandles
<1>2. h \in Held /\ threshold \in Thresholds
  BY ReleasedType DEF PressesInv, PressesTypeOK
<1> HIDE DEF h
<1>3. armIn' \in 0..Longest \cup {None} /\ (Waiting(h) # {} => armIn' # None)
  BY <1>1, <1>2, NextArmType
<1>4. Waiting(held') # {} => armIn' # None
  BY <1>1, <1>3, NothingWaits DEF Handled
<1>5. PanelSet
  BY DEF PressesInv, PanelIsScheduled, PanelSet
<1> QED BY <1>1, <1>3, <1>4, <1>5 DEF Handled

LEMMA HandleKeyUpKeeps ==
    ASSUME PressesInv, HandleKeyUp
    PROVE  PressesInv'
<1> DEFINE k == Head(queue).key
<1>1. PressesTypeOK
  BY DEF PressesInv
<1>2. queue' \in Seq(Events) /\ pass = None /\ hold = None /\ k \in Keys
  BY <1>1, TakeType DEF HandleKeyUp
<1>3. /\ Release(k, held)
      /\ UNCHANGED << device, config, locked, control, unplugs >>
  BY DEF HandleKeyUp
<1> HIDE DEF k
<1>4. /\ nav' \in Navigators
      /\ armIn' \in 0..Longest \cup {None}
      /\ dismissIn' \in LongestPanel \cup {None}
      /\ held' \in Held
      /\ fresh' \subseteq Keys
      /\ fired' \in [fresh : BOOLEAN, first : BOOLEAN]
      /\ acts' \in [Keys -> 0..2]
      /\ HeldInv(held', fresh', acts')
      /\ FiresWhereItWentDown'
      /\ OneActionPerPress'
      /\ Waiting(held') # {} => armIn' # None
      /\ PanelSet'
  BY <1>2, <1>3, PressEnds
<1>5. PressesTypeOK'
  BY <1>1, <1>2, <1>3, <1>4 DEF PressesTypeOK, device, config, control
<1> QED BY <1>2, <1>3, <1>4, <1>5, NoPass DEF control

\* What is forgotten needs no deadline.
LEMMA Forgotten ==
    ASSUME PressesInv, PressesTypeOK', pass' = None,
           held' = NothingHeld, UNCHANGED << fired, acts >>, PanelSet'
    PROVE  PressesInv'
<1>1. HeldInv(held', fresh', acts')
  BY NothingHeldType DEF HeldInv
<1>2. FiresWhereItWentDown' /\ OneActionPerPress'
  BY DEF PressesInv, FiresWhereItWentDown, OneActionPerPress
<1>3. Waiting(held') = {}
  BY NothingWaits
<1> QED BY <1>1, <1>2, <1>3, NoPass

LEMMA DeviceChangesKeeps ==
    ASSUME PressesInv, DeviceChanges
    PROVE  PressesInv'
<1>1. PressesTypeOK
  BY DEF PressesInv
<1>2. queue' \in Seq(Events) /\ pass = None
  BY <1>1, TakeType DEF DeviceChanges
<1>3. PressesTypeOK'
  BY <1>1, <1>2, NothingHeldType
  DEF PressesTypeOK, DeviceChanges, device, config, control
<1>4. PanelSet'
  BY <1>2, PanelIsSet DEF DeviceChanges, PanelSet
<1> QED BY <1>2, <1>3, <1>4, Forgotten DEF DeviceChanges, control

LEMMA LockKeeps ==
    ASSUME PressesInv, Lock
    PROVE  PressesInv'
<1>1. PressesTypeOK
  BY DEF PressesInv
<1>2. pass = None
  BY DEF Lock, Idle
<1>3. PressesTypeOK'
  BY <1>1, NothingHeldType DEF PressesTypeOK, Lock, device, config, control
<1>4. PanelSet'
  BY <1>2, PanelIsSet DEF Lock, PanelSet
<1> QED BY <1>2, <1>3, <1>4, Forgotten DEF Lock, control

LEMMA UnlockKeeps ==
    ASSUME PressesInv, Unlock
    PROVE  PressesInv'
<1>1. UNCHANGED << held, nav, armIn, dismissIn, hold, pass, fresh, fired, acts >>
  BY DEF Unlock, control, aux
<1>2. PressesTypeOK'
  BY DEF PressesInv, PressesTypeOK, Unlock, device, config, control, aux
<1> QED BY <1>1, <1>2, SameRuntime

LEMMA ReloadKeeps ==
    ASSUME PressesInv, Reload
    PROVE  PressesInv'
<1>1. UNCHANGED << held, nav, armIn, dismissIn, hold, pass, fresh, fired, acts >>
  BY DEF Reload, control, aux
<1>2. PressesTypeOK'
  BY DEF PressesInv, PressesTypeOK, Reload, device, control, aux
<1> QED BY <1>1, <1>2, SameRuntime

-----------------------------------------------------------------------------
(* The panel.                                                              *)

\* What closes a panel sets the deadline anew and forgets what is held.
LEMMA PageChangesType ==
    ASSUME NEW n \in Navigators, AfterPageChange(DismissPanel(n))
    PROVE  /\ nav' \in Navigators
           /\ held' = NothingHeld
           /\ held' \in Held
           /\ dismissIn' = None
           /\ PanelSet'
BY DismissPanelType, NothingHeldType DEF AfterPageChange, PanelSet

LEMMA DismissDueKeeps ==
    ASSUME PressesInv, DismissDue
    PROVE  PressesInv'
<1>1. PressesTypeOK
  BY DEF PressesInv
<1>2. pass = None /\ dismissIn = 0 /\ pass' = None
  BY DEF DismissDue, Idle, PanelDue, control
<1>3. PanelSet
  BY <1>2, PanelIsSet
<1>4. nav \in Navigators
  BY <1>1 DEF PressesTypeOK
<1>5. Expired(nav)
  BY <1>2, <1>3, DeckAssumption DEF PanelSet, PanelLeft, Expired
<1>6. AfterPageChange(DismissPanel(nav)) /\ fresh' = {}
  BY <1>5 DEF DismissDue
<1>7. /\ nav' \in Navigators
      /\ held' = NothingHeld
      /\ held' \in Held
      /\ dismissIn' = None
      /\ PanelSet'
  BY <1>4, <1>6, PageChangesType
<1>8. PressesTypeOK'
  BY <1>1, <1>6, <1>7 DEF PressesTypeOK, DismissDue, device, config, control
<1> QED BY <1>2, <1>7, <1>8, Forgotten DEF DismissDue

LEMMA WakeKeeps ==
    ASSUME PressesInv, Wake
    PROVE  PressesInv'
<1>1. PressesTypeOK
  BY DEF PressesInv
<1>2. nav \in Navigators
  BY <1>1 DEF PressesTypeOK
<1>3. pass' = None
  BY DEF Wake, Idle, control
<1>4. /\ nav' \in Navigators
      /\ held' = NothingHeld
      /\ dismissIn' \in LongestPanel \cup {None}
      /\ PanelSet'
  <2>1. CASE Expired(nav)
    BY <1>2, <2>1, PageChangesType DEF Wake
  <2>2. CASE ~Expired(nav)
    <3>1. nav' = nav /\ held' = NothingHeld /\ dismissIn' = PanelLeft(nav)
      BY <2>2 DEF Wake
    <3> QED BY <1>2, <3>1, PanelOlderType DEF PanelSet
  <2> QED BY <2>1, <2>2
<1>5. PressesTypeOK'
  BY <1>1, <1>4, NothingHeldType DEF PressesTypeOK, Wake, device, config, control
<1> QED BY <1>3, <1>4, <1>5, Forgotten DEF Wake

-----------------------------------------------------------------------------
(* The passes.                                                             *)

\* A pass begins with every ripe key armed, and none of them has acted.
LEMMA PassBegins ==
    ASSUME PressesInv, NEW panelDue \in BOOLEAN, StartPass(panelDue)
    PROVE  /\ held' \in Held
           /\ pass' \in Passes /\ pass' # None
           /\ pass'.panelDue = panelDue
           /\ \A k \in pass'.keys : acts[k] = 0 /\ held'[k].armed
           /\ pass'.keys \subseteq fresh
           /\ HeldInv(held', fresh, acts)
<1> DEFINE ripe == Ripe(held, threshold)
<1>1. held \in Held /\ acts \in [Keys -> 0..2] /\ HeldInv(held, fresh, acts)
  BY DEF PressesInv, PressesTypeOK
<1>2. held' = Armed(held, ripe)
      /\ pass' = [keys |-> ripe, panelDue |-> panelDue, first |-> TRUE]
  BY DEF StartPass
<1>3. ripe \subseteq Waiting(held) /\ Waiting(held) \subseteq Keys
  BY DEF Ripe, Waiting
<1>4. \A k \in ripe : held[k] # None /\ ~held[k].armed
  BY DEF Ripe, Waiting
<1> HIDE DEF ripe
<1>5. /\ held' \in Held
      /\ \A k \in ripe : held'[k].armed /\ held'[k].long
      /\ \A k \in Keys \ ripe : held'[k] = held[k]
  BY <1>1, <1>2, <1>3, ArmedType
<1>6. pass' \in Passes /\ pass' # None
  <2>1. ripe \in SUBSET Keys
    BY <1>3
  <2>2. pass' \in Passes
    BY <1>2, <2>1 DEF Passes
  <2> QED BY <2>2, PassAssumption
<1>7. pass'.keys = ripe /\ pass'.panelDue = panelDue
  BY <1>2
<1>8. \A k \in ripe : acts[k] = 0 /\ k \in fresh
  BY <1>1, <1>3, <1>4 DEF HeldInv
<1>9. HeldInv(held', fresh, acts)
  BY <1>1, <1>3, <1>5, <1>8 DEF HeldInv
<1> QED BY <1>5, <1>6, <1>7, <1>8, <1>9

LEMMA ArmingDueKeeps ==
    ASSUME PressesInv, ArmingDue
    PROVE  PressesInv'
<1>1. PressesTypeOK
  BY DEF PressesInv
<1>2. /\ pass = None /\ hold = None
      /\ StartPass(PanelDue)
      /\ armIn' = None
      /\ dismissIn' = IF PanelDue THEN None ELSE dismissIn
      /\ UNCHANGED << device, queue, config, nav, locked, hold, aux >>
  BY DEF ArmingDue, Idle
<1>3. UNCHANGED << fresh, fired, acts, unplugs >>
  BY <1>2 DEF aux
<1>4. /\ held' \in Held
      /\ pass' \in Passes /\ pass' # None
      /\ pass'.panelDue = PanelDue
      /\ \A k \in pass'.keys : acts[k] = 0 /\ held'[k].armed
      /\ pass'.keys \subseteq fresh
      /\ HeldInv(held', fresh, acts)
  <2>1. PanelDue \in BOOLEAN
    BY DEF PanelDue
  <2> QED BY <1>2, <2>1, PassBegins
<1>5. PressesTypeOK'
  BY <1>1, <1>2, <1>3, <1>4 DEF PressesTypeOK, device, config
<1>6. PanelSet
  BY <1>2, PanelIsSet
<1>7. CASE PanelDue
  <2>1. dismissIn = 0 /\ PanelLeft(nav) = 0
    BY <1>6, <1>7 DEF PanelDue, PanelSet
  <2>2. Expired(nav)
    BY <2>1, DeckAssumption DEF PanelLeft, Expired
  <2>3. PanelDrained'
    BY <1>2, <1>7, <2>2 DEF PanelDrained
  <2>4. PassInv'
    BY <1>2, <1>3, <1>4, <2>3 DEF PassInv
  <2>5. PanelIsScheduled'
    BY <1>4, <1>7 DEF PanelIsScheduled
  <2> QED BY <1>3, <1>4, <1>5, <2>4, <2>5
      DEF PressesInv, FiresWhereItWentDown, OneActionPerPress, ArmIsScheduled
<1>8. CASE ~PanelDue
  <2>1. PassInv'
    BY <1>2, <1>3, <1>4, <1>8 DEF PassInv
  <2>2. PanelIsScheduled'
    BY <1>2, <1>6, <1>8 DEF PanelIsScheduled, PanelSet
  <2> QED BY <1>3, <1>4, <1>5, <2>1, <2>2
      DEF PressesInv, FiresWhereItWentDown, OneActionPerPress, ArmIsScheduled
<1> QED BY <1>7, <1>8

LEMMA HoldArmsKeeps ==
    ASSUME PressesInv, HoldArms
    PROVE  PressesInv'
<1>1. PressesTypeOK
  BY DEF PressesInv
<1>2. /\ pass = None
      /\ StartPass(FALSE)
      /\ UNCHANGED << device, queue, config, nav, armIn, dismissIn, locked, hold, aux >>
  BY DEF HoldArms
<1>3. UNCHANGED << fresh, fired, acts, unplugs >>
  BY <1>2 DEF aux
<1>4. /\ held' \in Held
      /\ pass' \in Passes /\ pass' # None
      /\ pass'.panelDue = FALSE
      /\ \A k \in pass'.keys : acts[k] = 0 /\ held'[k].armed
      /\ pass'.keys \subseteq fresh
      /\ HeldInv(held', fresh, acts)
  BY <1>2, PassBegins
<1>5. PressesTypeOK'
  BY <1>1, <1>2, <1>3, <1>4 DEF PressesTypeOK, device, config
<1>6. PassInv'
  BY <1>3, <1>4 DEF PassInv
<1>7. PanelIsScheduled'
  BY <1>2, PanelIsSet DEF PanelIsScheduled, PanelSet
<1> QED BY <1>3, <1>4, <1>5, <1>6, <1>7
    DEF PressesInv, FiresWhereItWentDown, OneActionPerPress, ArmIsScheduled

\* Each key of a pass acts in its turn, and at most once.
LEMMA ArmNextKeeps ==
    ASSUME PressesInv, ArmNext
    PROVE  PressesInv'
<1> DEFINE k == Min(pass.keys)
<1>1. PressesTypeOK /\ HeldInv(held, fresh, acts) /\ PassInv
      /\ OneActionPerPress /\ FiresWhereItWentDown /\ PanelIsScheduled
  BY DEF PressesInv
<1>2. /\ pass # None /\ pass.keys # {}
      /\ IF HasLong(k)
           THEN Fire(k, Bound(k).long, held, pass.first)
           ELSE FireNothing(held)
      /\ pass' = [pass EXCEPT !.keys = @ \ {k}, !.first = FALSE]
      /\ UNCHANGED << device, queue, config, armIn, locked, hold, unplugs >>
  BY DEF ArmNext
<1>3. pass \in Passes /\ held \in Held /\ nav \in Navigators
  BY <1>1, <1>2 DEF PressesTypeOK
<1>4. k \in pass.keys /\ k \in Keys
  <2>1. pass.keys \in SUBSET Nat
    BY <1>3, DeckAssumption DEF Passes
  <2>2. k \in pass.keys
    BY <1>2, <2>1, MinIsLeast
  <2> QED BY <1>3, <2>2 DEF Passes
<1> HIDE DEF k
<1>5. /\ pass' \in Passes
      /\ pass'.keys = pass.keys \ {k}
      /\ pass'.first = FALSE
      /\ pass'.panelDue = pass.panelDue
  BY <1>2, <1>3 DEF Passes
<1>6. pass' # None
  BY <1>5, PassAssumption
<1>7. /\ acts[k] = 0
      /\ held[k] # None => held[k].armed
      /\ pass.first => k \in fresh
  BY <1>1, <1>2, <1>4 DEF PassInv
<1>8. Handled(k, held)
  <2>1. CASE HasLong(k)
    <3>1. Fire(k, Bound(k).long, held, pass.first)
      BY <1>2, <2>1
    <3>2. Bound(k).long \in Action
      BY <1>3, <1>4, <2>1, BindingType
    <3>3. pass.first \in BOOLEAN
      BY <1>3 DEF Passes
    <3> QED BY <1>1, <1>3, <1>4, <1>7, <3>1, <3>2, <3>3, FireHandles
  <2>2. CASE ~HasLong(k)
    BY <1>1, <1>2, <1>3, <1>4, <2>2, FireNothingHandles
  <2> QED BY <2>1, <2>2
<1>9. PressesTypeOK'
  BY <1>1, <1>2, <1>5, <1>8 DEF PressesTypeOK, Handled, device, config
<1>10. \A j \in pass'.keys : acts'[j] = 0 /\ (held'[j] # None => held'[j].armed)
  <2> SUFFICES ASSUME NEW j \in pass'.keys
               PROVE  acts'[j] = 0 /\ (held'[j] # None => held'[j].armed)
    OBVIOUS
  <2>1. j \in pass.keys /\ j \in Keys \ {k}
    BY <1>3, <1>5 DEF Passes
  <2>2. acts[j] = 0 /\ (held[j] # None => held[j].armed)
    BY <1>1, <1>2, <2>1 DEF PassInv
  <2> QED BY <1>8, <2>1, <2>2, NothingHeldType DEF Handled
<1>11. pass'.panelDue => hold' = None /\ (PanelSet' \/ PanelDrained')
  <2> SUFFICES ASSUME pass.panelDue
               PROVE  hold' = None /\ (PanelSet' \/ PanelDrained')
    BY <1>5
  <2>1. hold = None /\ (PanelSet \/ PanelDrained)
    BY <1>1, <1>2 DEF PassInv
  <2> QED BY <1>2, <1>8, <2>1 DEF Handled
<1>12. PassInv'
  BY <1>5, <1>10, <1>11 DEF PassInv
<1>13. ~pass'.panelDue => PanelSet'
  <2>1. ~pass.panelDue => PanelSet
    BY <1>1 DEF PanelIsScheduled, PanelSet
  <2> QED BY <1>5, <1>8, <2>1 DEF Handled
<1>14. PanelIsScheduled' /\ ArmIsScheduled'
  BY <1>6, <1>13 DEF PanelIsScheduled, PanelSet, ArmIsScheduled
<1> QED BY <1>8, <1>9, <1>12, <1>14 DEF PressesInv, Handled

LEMMA EndPassKeeps ==
    ASSUME PressesInv, EndPass
    PROVE  PressesInv'
<1>1. PressesTypeOK /\ HeldInv(held, fresh, acts) /\ PassInv
      /\ OneActionPerPress /\ FiresWhereItWentDown /\ PanelIsScheduled
  BY DEF PressesInv
<1>2. /\ pass # None
      /\ pass' = None
      /\ armIn' = NextArm(held, threshold)
      /\ IF pass.panelDue
           THEN PollPanel
           ELSE UNCHANGED << nav, held, dismissIn, fresh >>
      /\ UNCHANGED << device, queue, config, locked, hold, unplugs, fired, acts >>
  BY DEF EndPass, Rearm
<1>3. held \in Held /\ threshold \in Thresholds /\ nav \in Navigators
  BY <1>1 DEF PressesTypeOK
<1>4. /\ armIn' \in 0..Longest \cup {None}
      /\ Waiting(held) # {} => armIn' # None
  BY <1>2, <1>3, NextArmType
<1>5. CASE pass.panelDue /\ Expired(nav)
  <2>1. AfterPageChange(DismissPanel(nav)) /\ fresh' = {}
    BY <1>2, <1>5 DEF PollPanel
  <2>2. /\ nav' \in Navigators
        /\ held' = NothingHeld
        /\ held' \in Held
        /\ dismissIn' = None
        /\ PanelSet'
    BY <1>3, <2>1, PageChangesType
  <2>3. PressesTypeOK'
    BY <1>1, <1>2, <1>4, <2>1, <2>2 DEF PressesTypeOK, device, config
  <2> QED BY <1>2, <2>2, <2>3, Forgotten
<1>6. CASE ~(pass.panelDue /\ Expired(nav))
  <2>1. UNCHANGED << nav, held, dismissIn, fresh >>
    BY <1>2, <1>6 DEF PollPanel
  <2>2. PanelSet
    BY <1>1, <1>2, <1>6 DEF PassInv, PanelIsScheduled, PanelSet, PanelDrained
  <2>3. PanelSet'
    BY <2>1, <2>2 DEF PanelSet
  <2>4. PressesTypeOK'
    BY <1>1, <1>2, <1>4, <2>1 DEF PressesTypeOK, device, config
  <2>5. HeldInv(held', fresh', acts') /\ FiresWhereItWentDown' /\ OneActionPerPress'
    BY <1>1, <1>2, <2>1 DEF FiresWhereItWentDown, OneActionPerPress
  <2> QED BY <1>2, <1>4, <2>1, <2>3, <2>4, <2>5, NoPass
<1> QED BY <1>5, <1>6

LEMMA HoldEndsKeeps ==
    ASSUME PressesInv, HoldEnds
    PROVE  PressesInv'
<1>1. PressesTypeOK /\ PassInv
  BY DEF PressesInv
<1>2. /\ hold # None /\ pass # None
      /\ Release(hold.key, held)
      /\ hold' = None /\ pass' = None
      /\ UNCHANGED << device, queue, config, locked, unplugs >>
  BY DEF HoldEnds
<1>3. hold.key \in Keys
  BY <1>1, <1>2 DEF PressesTypeOK
<1>4. ~pass.panelDue
  BY <1>1, <1>2 DEF PassInv
<1>5. /\ nav' \in Navigators
      /\ armIn' \in 0..Longest \cup {None}
      /\ dismissIn' \in LongestPanel \cup {None}
      /\ held' \in Held
      /\ fresh' \subseteq Keys
      /\ fired' \in [fresh : BOOLEAN, first : BOOLEAN]
      /\ acts' \in [Keys -> 0..2]
      /\ HeldInv(held', fresh', acts')
      /\ FiresWhereItWentDown'
      /\ OneActionPerPress'
      /\ Waiting(held') # {} => armIn' # None
      /\ PanelSet'
  BY <1>2, <1>3, <1>4, PressEnds
<1>6. PressesTypeOK'
  BY <1>1, <1>2, <1>5 DEF PressesTypeOK, device, config
<1> QED BY <1>2, <1>5, <1>6, NoPass

-----------------------------------------------------------------------------
(* The control socket and the clock.                                       *)

LEMMA ControlPageKeeps ==
    ASSUME PressesInv, NEW page \in Pages, ControlPage(page)
    PROVE  PressesInv'
<1> DEFINE action == [kind |-> "go", page |-> page]
<1>1. PressesTypeOK /\ HeldInv(held, fresh, acts) /\ ArmIsScheduled
      /\ OneActionPerPress /\ FiresWhereItWentDown
  BY DEF PressesInv
<1>2. /\ pass = None /\ pass' = None
      /\ Execute(action, held)
      /\ UNCHANGED << device, queue, config, armIn, locked, hold, unplugs, fired, acts >>
  BY DEF ControlPage, Idle, control
<1>3. action \in Action /\ held \in Held
  BY <1>1 DEF Action, PressesTypeOK
<1> HIDE DEF action
<1>4. /\ nav' \in Navigators
      /\ dismissIn' \in LongestPanel \cup {None}
      /\ held' \in Held
      /\ fresh' \subseteq Keys
      /\ (held' = held /\ fresh' = fresh) \/ held' = NothingHeld
      /\ PanelSet \/ PanelDrained => PanelSet'
  BY <1>1, <1>2, <1>3, ExecuteType
<1>5. PanelSet'
  BY <1>2, <1>4, PanelIsSet
<1>6. PressesTypeOK'
  BY <1>1, <1>2, <1>4 DEF PressesTypeOK, device, config
<1>7. CASE held' = NothingHeld
  BY <1>2, <1>5, <1>6, <1>7, Forgotten
<1>8. CASE held' = held /\ fresh' = fresh
  <2>1. HeldInv(held', fresh', acts') /\ FiresWhereItWentDown' /\ OneActionPerPress'
    BY <1>1, <1>2, <1>8 DEF FiresWhereItWentDown, OneActionPerPress
  <2>2. Waiting(held') # {} => armIn' # None
    BY <1>1, <1>2, <1>8 DEF ArmIsScheduled
  <2> QED BY <1>2, <1>5, <1>6, <2>1, <2>2, NoPass
<1> QED BY <1>4, <1>7, <1>8

\* A press from the control socket leaves its key released.
LEMMA ControlPressKeeps ==
    ASSUME PressesInv, NEW k \in Keys, ControlPress(k)
    PROVE  PressesInv'
<1> DEFINE pressed == PressedDown(held, k, HasLong(k))
           h == Released(pressed, k)
<1>1. PressesTypeOK /\ HeldInv(held, fresh, acts)
      /\ OneActionPerPress /\ FiresWhereItWentDown
  BY DEF PressesInv
<1>2. /\ pass = None /\ pass' = None
      /\ armIn' = NextArm(h, threshold)
      /\ Execute(ShortOf(k), h)
      /\ UNCHANGED << device, queue, config, locked, hold, unplugs, fired, acts >>
  BY DEF ControlPress, Idle, control, Rearm
<1>3. held \in Held /\ nav \in Navigators /\ threshold \in Thresholds
  BY <1>1 DEF PressesTypeOK
<1>4. HasLong(k) \in BOOLEAN /\ ShortOf(k) \in Action
  BY <1>3, BindingType
<1>5. pressed \in Held /\ \A j \in Keys \ {k} : pressed[j] = held[j]
  BY <1>3, <1>4, PressedDownType
<1>6. h \in Held /\ h[k] = None /\ \A j \in Keys \ {k} : h[j] = held[j]
  <2> HIDE DEF pressed
  <2> QED BY <1>5, ReleasedType
<1> HIDE DEF h, pressed
<1>7. /\ nav' \in Navigators
      /\ dismissIn' \in LongestPanel \cup {None}
      /\ held' \in Held
      /\ fresh' \subseteq Keys
      /\ (held' = h /\ fresh' = fresh) \/ held' = NothingHeld
      /\ PanelSet \/ PanelDrained => PanelSet'
  BY <1>1, <1>2, <1>4, <1>6, ExecuteType
<1>8. PanelSet'
  BY <1>2, <1>7, PanelIsSet
<1>9. armIn' \in 0..Longest \cup {None} /\ (Waiting(h) # {} => armIn' # None)
  BY <1>2, <1>3, <1>6, NextArmType
<1>10. PressesTypeOK'
  BY <1>1, <1>2, <1>7, <1>9 DEF PressesTypeOK, device, config
<1>11. CASE held' = NothingHeld
  BY <1>2, <1>8, <1>10, <1>11, Forgotten
<1>12. CASE held' = h /\ fresh' = fresh
  <2>1. HeldInv(held', fresh', acts')
    BY <1>1, <1>2, <1>6, <1>12 DEF HeldInv
  <2>2. FiresWhereItWentDown' /\ OneActionPerPress'
    BY <1>1, <1>2 DEF FiresWhereItWentDown, OneActionPerPress
  <2>3. Waiting(held') # {} => armIn' # None
    BY <1>9, <1>12
  <2> QED BY <1>2, <1>8, <1>10, <2>1, <2>2, <2>3, NoPass
<1> QED BY <1>7, <1>11, <1>12

LEMMA HoldType ==
    /\ \A time \in HoldTimes : time \in UNION {0..t : t \in HoldTimes}
    /\ \A left \in UNION {0..t : t \in HoldTimes} :
           /\ left \in Nat
           /\ left > 0 => left - 1 \in UNION {0..t : t \in HoldTimes}
<1>1. \A t \in HoldTimes : t \in Nat
  BY PressesAssumption
<1>2. ASSUME NEW left \in UNION {0..t : t \in HoldTimes}
      PROVE  /\ left \in Nat
             /\ left > 0 => left - 1 \in UNION {0..t : t \in HoldTimes}
  <2>1. PICK t \in HoldTimes : left \in 0..t
    BY <1>2
  <2>2. left > 0 => left - 1 \in 0..t
    BY <1>1, <2>1
  <2> QED BY <1>1, <2>1, <2>2
<1>3. \A time \in HoldTimes : time \in 0..time
  BY <1>1
<1> QED BY <1>2, <1>3

LEMMA ControlHoldKeeps ==
    ASSUME PressesInv, NEW k \in Keys, NEW time \in HoldTimes, ControlHold(k, time)
    PROVE  PressesInv'
<1>1. PressesTypeOK
  BY DEF PressesInv
<1>2. /\ pass = None /\ pass' = None
      /\ held' = PressedDown(held, k, HasLong(k))
      /\ Rearm(held')
      /\ hold' = [key |-> k, left |-> time]
      /\ fresh' = fresh \cup {k}
      /\ acts' = [acts EXCEPT ![k] = 0]
      /\ UNCHANGED << device, queue, config, nav, dismissIn, locked, unplugs, fired >>
  BY DEF ControlHold, Idle
<1>3. /\ held' \in Held
      /\ armIn' \in 0..Longest \cup {None}
      /\ Waiting(held') # {} => armIn' # None
      /\ fresh' \subseteq Keys
      /\ acts' \in [Keys -> 0..2]
      /\ HeldInv(held', fresh', acts')
      /\ OneActionPerPress'
  BY <1>2, PressBegins
<1>4. hold' \in [key : Keys, left : UNION {0..t : t \in HoldTimes}]
  BY <1>2, HoldType
<1>5. PressesTypeOK'
  BY <1>1, <1>2, <1>3, <1>4 DEF PressesTypeOK, device, config
<1>6. FiresWhereItWentDown'
  BY <1>2 DEF PressesInv, FiresWhereItWentDown
<1>7. PanelSet'
  BY <1>2, PanelIsSet DEF PanelSet
<1> QED BY <1>2, <1>3, <1>5, <1>6, <1>7, NoPass

LEMMA SoonerType ==
    /\ \A time \in 0..Longest \cup {None} :
           /\ Sooner(time) \in 0..Longest \cup {None}
           /\ time # None => Sooner(time) # None
    /\ \A time \in LongestPanel \cup {None} :
           Sooner(time) \in LongestPanel \cup {None}
<1>1. ASSUME NEW time \in 0..Longest
      PROVE  Sooner(time) \in 0..Longest /\ Sooner(time) # None
  <2>1. time \in Nat /\ time # None
    BY DeckAssumption
  <2>2. Sooner(time) \in 0..Longest
    BY <2>1, LongestType DEF Sooner
  <2> QED BY <2>2, DeckAssumption
<1>2. ASSUME NEW time \in LongestPanel
      PROVE  Sooner(time) \in LongestPanel
  <2>1. time \in Nat /\ 0..time \subseteq LongestPanel
    BY PanelTime
  <2>2. Sooner(time) \in 0..time
    BY <2>1, DeckAssumption DEF Sooner
  <2> QED BY <2>1, <2>2
<1>3. Sooner(None) = None
  BY DEF Sooner
<1> QED BY <1>1, <1>2, <1>3

LEMMA TickKeeps ==
    ASSUME PressesInv, Tick
    PROVE  PressesInv'
<1>1. PressesTypeOK /\ HeldInv(held, fresh, acts) /\ ArmIsScheduled
      /\ OneActionPerPress /\ FiresWhereItWentDown
  BY DEF PressesInv
<1>2. /\ pass = None /\ pass' = None
      /\ held' = Older(held)
      /\ nav' = PanelOlder(nav)
      /\ armIn' = Sooner(armIn)
      /\ dismissIn' = Sooner(dismissIn)
      /\ UNCHANGED << device, queue, config, locked, aux >>
  BY DEF Tick
<1>3. held \in Held /\ nav \in Navigators
      /\ armIn \in 0..Longest \cup {None}
      /\ dismissIn \in LongestPanel \cup {None}
  BY <1>1 DEF PressesTypeOK
<1>4. /\ held' \in Held
      /\ \A k \in Keys : held'[k] # None =>
             /\ held[k] # None
             /\ held'[k].armed = held[k].armed
             /\ held'[k].long = held[k].long
  BY <1>2, <1>3, OlderType
<1>5. nav' \in Navigators /\ PanelLeft(nav') = Sooner(PanelLeft(nav))
  BY <1>2, <1>3, PanelOlderType
<1>6. PanelSet'
  BY <1>2, <1>5, PanelIsSet DEF PanelSet
<1>7. UNCHANGED << fresh, fired, acts, unplugs >>
  BY <1>2 DEF aux
<1>8. hold' \in [key : Keys, left : UNION {0..t : t \in HoldTimes}] \cup {None}
  <2> DEFINE Holds == [key : Keys, left : UNION {0..t : t \in HoldTimes}]
  <2>1. CASE hold = None
    BY <2>1 DEF Tick
  <2>2. CASE hold # None
    <3>1. hold \in Holds /\ hold.left > 0 /\ hold' = [hold EXCEPT !.left = @ - 1]
      BY <1>1, <2>2 DEF Tick, PressesTypeOK
    <3>2. hold.left - 1 \in UNION {0..t : t \in HoldTimes}
      BY <3>1, HoldType
    <3> QED BY <3>1, <3>2
  <2> QED BY <2>1, <2>2
<1>9. /\ armIn' \in 0..Longest \cup {None}
      /\ armIn # None => armIn' # None
      /\ dismissIn' \in LongestPanel \cup {None}
  BY <1>2, <1>3, SoonerType
<1>10. PressesTypeOK'
  BY <1>1, <1>2, <1>4, <1>5, <1>7, <1>8, <1>9 DEF PressesTypeOK, device, config
<1>11. HeldInv(held', fresh', acts')
  BY <1>1, <1>4, <1>7 DEF HeldInv
<1>12. Waiting(held') \subseteq Waiting(held)
  BY <1>4 DEF Waiting
<1>13. Waiting(held') # {} => armIn' # None
  BY <1>1, <1>2, <1>9, <1>12 DEF ArmIsScheduled
<1>14. FiresWhereItWentDown' /\ OneActionPerPress'
  BY <1>1, <1>7 DEF FiresWhereItWentDown, OneActionPerPress
<1> QED BY <1>2, <1>6, <1>10, <1>11, <1>13, <1>14, NoPass

-----------------------------------------------------------------------------
(* The theorems.                                                           *)

LEMMA PressesInvInit == PressesInit => PressesInv
<1> SUFFICES ASSUME PressesInit PROVE PressesInv
  OBVIOUS
<1>1. nav \in Navigators /\ nav.panel = None
  BY PressesAssumption DEF PressesInit, Navigators
<1>2. held = NothingHeld /\ acts = [k \in Keys |-> 0] /\ pass = None
  BY DEF PressesInit
<1>3. PressesTypeOK
  <2>1. nav \in Navigators /\ held \in Held /\ acts \in [Keys -> 0..2]
    BY <1>1, <1>2, NothingHeldType
  <2>2. queue = << >> /\ queue \in Seq(Events)
    BY DEF PressesInit
  <2>3. unplugs \in 0..MaxUnplugs
    BY PressesAssumption DEF PressesInit
  <2>4. fired \in [fresh : BOOLEAN, first : BOOLEAN]
    BY DEF PressesInit
  <2> QED BY <2>1, <2>2, <2>3, <2>4 DEF PressesInit, PressesTypeOK
<1>4. HeldInv(held, fresh, acts)
  BY <1>2, NothingHeldType DEF HeldInv
<1>5. FiresWhereItWentDown
  <2>1. fired = [fresh |-> TRUE, first |-> TRUE]
    BY DEF PressesInit
  <2>2. fired.fresh
    BY <2>1
  <2> QED BY <2>2 DEF FiresWhereItWentDown
<1>6. OneActionPerPress
  <2>1. ASSUME NEW k \in Keys
        PROVE  acts[k] <= 1
    <3>1. acts[k] = 0
      BY <1>2
    <3> QED BY <3>1
  <2> QED BY <2>1 DEF OneActionPerPress
<1>7. Waiting(held) = {}
  BY <1>2, NothingWaits
<1>8. PanelIsScheduled
  BY <1>1 DEF PressesInit, PanelIsScheduled, PanelLeft
<1> QED BY <1>2, <1>3, <1>4, <1>5, <1>6, <1>7, <1>8
    DEF PressesInv, PassInv, ArmIsScheduled

LEMMA PressesInvStep == PressesInv /\ [PressesNext]_vars => PressesInv'
<1> SUFFICES ASSUME PressesInv, [PressesNext]_vars
             PROVE  PressesInv'
  OBVIOUS
<1>1. CASE UNCHANGED vars
  <2>1. UNCHANGED << held, nav, armIn, dismissIn, hold, pass, fresh, fired, acts >>
    BY <1>1 DEF vars, control, aux
  <2>2. PressesTypeOK'
    BY <1>1 DEF PressesInv, PressesTypeOK, vars, device, config, control, aux
  <2> QED BY <2>1, <2>2, SameRuntime
<1>2. ASSUME NEW k \in Keys, Touch(k)
      PROVE  PressesInv'
  BY <1>2, TouchKeeps
<1>3. ASSUME NEW page \in Pages, ControlPage(page)
      PROVE  PressesInv'
  BY <1>3, ControlPageKeeps
<1>4. ASSUME NEW k \in Keys, ControlPress(k)
      PROVE  PressesInv'
  BY <1>4, ControlPressKeeps
<1>5. ASSUME NEW k \in Keys, NEW time \in HoldTimes, ControlHold(k, time)
      PROVE  PressesInv'
  BY <1>5, ControlHoldKeeps
<1>6. CASE Report \/ Unplug \/ Replug
  BY <1>6, ReportKeeps, UnplugKeeps
<1>7. CASE IgnoreKey \/ KeyDown \/ HandleKeyUp \/ DeviceChanges
  BY <1>7, IgnoreKeyKeeps, KeyDownKeeps, HandleKeyUpKeeps, DeviceChangesKeeps
<1>8. CASE DismissDue \/ ArmingDue \/ ArmNext \/ EndPass
  BY <1>8, DismissDueKeeps, ArmingDueKeeps, ArmNextKeeps, EndPassKeeps
<1>9. CASE HoldArms \/ HoldEnds
  BY <1>9, HoldArmsKeeps, HoldEndsKeeps
<1>10. CASE Lock \/ Unlock \/ Wake \/ Reload \/ Tick
  BY <1>10, LockKeeps, UnlockKeeps, WakeKeeps, ReloadKeeps, TickKeeps
<1> QED BY <1>1, <1>2, <1>3, <1>4, <1>5, <1>6, <1>7, <1>8, <1>9, <1>10
    DEF PressesNext

LEMMA PressesInvAlways == PressesSpec => []PressesInv
BY PressesInvInit, PressesInvStep, PTL DEF PressesSpec

\* Every variable keeps its type, whatever reaches the runtime in which order.
THEOREM PressesTypeCorrect == PressesSpec => []PressesTypeOK
<1>1. PressesInv => PressesTypeOK
  BY DEF PressesInv
<1> QED BY <1>1, PressesInvAlways, PTL

\* An action of the press tracker runs on the page, the connection and the
\* unlocked screen its key went down on, unless it is a later key of one pass.
THEOREM PressesFireWhereTheyBegan == PressesSpec => []FiresWhereItWentDown
<1>1. PressesInv => FiresWhereItWentDown
  BY DEF PressesInv
<1> QED BY <1>1, PressesInvAlways, PTL

\* A press acts at most once, and neither `rearm_long_press` nor
\* `after_page_change`, `wake` or `apply_config` loses the deadline of a key
\* that may arm or of a panel that is open.
THEOREM PressesAlwaysEndOnce == PressesSpec => []PressesEndOnce
<1>1. PressesInv => PressesEndOnce
  BY DEF PressesInv, PressesEndOnce, DeadlinesAreSet
<1> QED BY <1>1, PressesInvAlways, PTL

=============================================================================
