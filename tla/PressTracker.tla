----------------------------- MODULE PressTracker ----------------------------
(***************************************************************************)
(* PressTracker (crates/streamdeck-core/src/press.rs): which keys are held *)
(* down, for how long, and what a release means.  A key that is not held   *)
(* maps to None.                                                           *)
(*                                                                         *)
(* Times are relative: `age` is the time since the key went down.  It      *)
(* stops at Longest, the longest threshold it is compared with.            *)
(***************************************************************************)
EXTENDS DeckTypes, FiniteSetsExt

CONSTANT Longest    \* bound: the longest threshold

ASSUME PressAssumption == IsFiniteSet(Keys) /\ Longest \in Nat \ {0}

Press == [age : 0..Longest, armed : BOOLEAN, long : BOOLEAN]
Held == [Keys -> Press \cup {None}]

NothingHeld == [k \in Keys |-> None]

PressedDown(held, k, hasLong) ==
    [held EXCEPT ![k] = [age |-> 0, armed |-> FALSE, long |-> hasLong]]

Released(held, k) == [held EXCEPT ![k] = None]

\* Keys that are held and may still arm.
Waiting(held) == {k \in Keys : held[k] # None /\ held[k].long /\ ~held[k].armed}

\* `next_arm_deadline_ms`, from now.
NextArm(held, threshold) ==
    IF Waiting(held) = {}
      THEN None
      ELSE Max({0, threshold - Max({held[k].age : k \in Waiting(held)})})

\* `poll_arm`: the keys that arm now, and what is held then.
Ripe(held, threshold) == {k \in Waiting(held) : held[k].age >= threshold}

Armed(held, ripe) ==
    [k \in Keys |-> IF k \in ripe THEN [held[k] EXCEPT !.armed = TRUE] ELSE held[k]]

FaultyKeyUp(press, threshold) ==
    IF press = None THEN "Release"
    ELSE IF press.long /\ press.age >= threshold
           THEN "LongPressReleased"
           ELSE "ShortPress"

\* `key_up`.  A hold past the threshold is long even if it never armed.
KeyUp(press, threshold) ==
    IF press = None THEN "Release"
    ELSE IF press.long /\ (press.armed \/ press.age >= threshold)
           THEN "LongPressReleased"
           ELSE "ShortPress"

\* One tick of the clock.
Older(held) ==
    [k \in Keys |-> IF held[k] = None THEN None
                    ELSE [held[k] EXCEPT !.age = Min({@ + 1, Longest})]]

=============================================================================
