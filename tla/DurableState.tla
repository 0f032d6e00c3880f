----------------------------- MODULE DurableState ----------------------------
(***************************************************************************)
(* What a state file promises, whatever program keeps it: there is always  *)
(* one whole state under its name; a state takes the place of the one      *)
(* before at once, and only the state that was handed over last does; a    *)
(* power loss falls back to a state that was stored before; and once a     *)
(* state is promised there is none to fall back to.                        *)
(***************************************************************************)
CONSTANTS
    States,     \* what may be saved
    NoState     \* nothing has been saved yet

VARIABLES
    stored,     \* what a reader finds
    recoverable,\* what a reader may find after a power loss
    offered,    \* what was handed over last, or NoState
    promised    \* what is stored is what was promised last

durableVars == << stored, recoverable, offered, promised >>

Contents == States \cup {NoState}

DurableInit ==
    /\ stored \in Contents
    /\ recoverable = {stored}
    /\ offered = NoState
    /\ promised = FALSE

\* A state is handed over.
Offer(s) ==
    /\ offered' = s
    /\ UNCHANGED << stored, recoverable, promised >>

\* What was handed over is not going to be stored, or already is.
Withdraw ==
    /\ offered' = NoState
    /\ UNCHANGED << stored, recoverable, promised >>

\* The state that was handed over takes its place.
Replace ==
    /\ offered \in States
    /\ stored' = offered
    /\ recoverable' = recoverable \cup {offered}
    /\ offered' \in {offered, NoState}
    /\ promised' = FALSE

\* The state that was handed over, and is stored, will not be lost.
Promise ==
    /\ stored = offered
    /\ recoverable' = {stored}
    /\ offered' = NoState
    /\ promised' = TRUE
    /\ UNCHANGED stored

PowerLoss ==
    /\ \E s \in recoverable : stored' = s /\ recoverable' = {s}
    /\ offered' = NoState
    /\ UNCHANGED promised

DurableNext ==
    \/ \E s \in States : Offer(s)
    \/ Withdraw
    \/ Replace
    \/ Promise
    \/ PowerLoss

DurableSpec == DurableInit /\ [][DurableNext]_durableVars

=============================================================================
