------------------------------- MODULE MCPresses -----------------------------
(* Presses with two keys and two pages.  Key 1 of "home" opens the other     *)
(* page as a panel and, held, goes there; key 2 starts something, whether    *)
(* tapped or held.  On the other page key 1 leaves a panel, key 2 does       *)
(* something and, held, goes home.                                           *)
EXTENDS Presses, TLC

MCKeys == 1..2
MCPages == {"home", "other"}

Go(page) == [kind |-> "go", page |-> page]
Open(page) == [kind |-> "panel", page |-> page]
Nothing == [kind |-> "none"]
Dismiss == [kind |-> "dismiss"]
Keyed(short, long) == [short |-> short, long |-> long]

MCBinding ==
    "home" :> << Keyed(Open("other"), Go("other")), Keyed(Nothing, Nothing) >>
    @@ "other" :> << Keyed(Dismiss, None), Keyed(Nothing, Go("home")) >>

=============================================================================
