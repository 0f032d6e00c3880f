------------------------------- MODULE Tiles --------------------------------
(***************************************************************************)
(* What the tiles of crates/streamdeck-core/src/pages/views.rs have in     *)
(* common: a feed with its freshness (snapshot.rs), the face of a key      *)
(* (view.rs), and a stable sort, which the parsers use.                    *)
(*                                                                         *)
(* A face is what one reads off a key: its colour by meaning, its words    *)
(* and numbers, and its status.  Fonts, icons, lengths and upper case are  *)
(* left out.                                                               *)
(***************************************************************************)
EXTENDS Integers, Sequences, FiniteSets, SequencesExt

CONSTANT None

-----------------------------------------------------------------------------
(* Feeds.                                                                   *)

Loading == [is |-> "loading"]
Failed == [is |-> "failed"]
Ready(v) == [is |-> "ready", value |-> v]
Kept(v) == [is |-> "stale", value |-> v]

HasValue(feed) == feed.is \in {"ready", "stale"}

\* What `Cached` holds after an answer, and after a failure.
Failing(feed) == IF HasValue(feed) THEN Kept(feed.value) ELSE Failed

-----------------------------------------------------------------------------
(* Faces.                                                                   *)

Face(tone, shows, status) == [tone |-> tone, shows |-> shows, status |-> status]

StatusOf(feed) ==
    CASE feed.is = "loading" -> "Loading"
      [] feed.is = "ready"   -> "Ok"
      [] feed.is = "stale"   -> "Stale"
      [] feed.is = "failed"  -> "Error"

\* A tile whose feed has no value.
offline_or_loading(feed) == Face("plain", << >>, StatusOf(feed))

Disabled(tone, shows) == Face(tone, shows, "Disabled")

-----------------------------------------------------------------------------
(* Sequences.                                                               *)

IsList(s) == s \in Seq(ToSet(s))

\* What s has at the indices that `before` is about, which says of each of them which
\* ones come before it.
Arranged(s, before) ==
    [n \in 1..Cardinality(DOMAIN before) |->
        s[CHOOSE i \in DOMAIN before : Cardinality(before[i]) = n - 1]]

\* What s has at some of its indices, in its order.
Only(s, indices) == Arranged(s, [i \in indices |-> {j \in indices : j < i}])

\* s by the keys of its indices; where they are equal it keeps its order.
SortedBy(s, key) ==
    Arranged(s, [i \in DOMAIN s |->
                    {j \in DOMAIN s : key[j] < key[i] \/ (key[j] = key[i] /\ j < i)}])

Take(s, n) == SubSeq(s, 1, IF n < Len(s) THEN n ELSE Len(s))

\* The element at an index counted from 0, or None.
At(s, i) == IF i + 1 \in DOMAIN s THEN s[i + 1] ELSE None

\* The first element of s that satisfies Test, or None.
FirstOf(s, Test(_)) ==
    LET hits == {i \in DOMAIN s : Test(s[i])}
    IN  IF hits = {} THEN None ELSE s[Min(hits)]

=============================================================================
