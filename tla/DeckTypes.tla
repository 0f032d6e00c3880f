------------------------------ MODULE DeckTypes ------------------------------
(* What the modules about the deck share.                                    *)
EXTENDS Integers

CONSTANTS
    Keys,       \* the keys of the deck, in the order of their positions
    Pages,      \* the pages of the deck
    None

ASSUME DeckAssumption == Keys \subseteq Nat /\ None \notin Nat

=============================================================================
