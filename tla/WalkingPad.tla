----------------------------- MODULE WalkingPad ------------------------------
(***************************************************************************)
(* The deck and the WalkingPad controller task together: the runtime turns *)
(* presses into requests on the task's channels (runtime/actions.rs apply, *)
(* runtime/mod.rs after_effects) and applies the updates it reads from its *)
(* event queue (walkingpad_update), in the order they were published.      *)
(* The composition is the daemon while it runs; the shutdown handshake is  *)
(* WalkingPadService's.                                                    *)
(***************************************************************************)
EXTENDS WalkingPadService, WalkingPadState, Functions

CONSTANTS
    Commands,       \* the commands that keys are bound to
    FeedbackTime    \* WALKINGPAD_FEEDBACK_MS, in ticks

ASSUME SystemAssumption ==
    /\ Commands \subseteq Command
    /\ FeedbackTime \in Nat

VARIABLES
    deck,        \* RuntimeState.walkingpad
    feedbackIn   \* time to the WalkingPadFeedback deadline, None when not armed

deckVars == <<deck, feedbackIn>>
vars == <<serviceVars, deckVars>>

-----------------------------------------------------------------------------
(* A key press on the WalkingPad pages.                                     *)

\* prepare returned a request: after_effects sends it.
PressAccepted(c) ==
    /\ ~NothingToStop(deck, c)
    /\ Requested(deck, c) # None
    /\ Send(Requested(deck, c))
    /\ deck' = AwaitAnswer(deck, c, Requested(deck, c))
    /\ UNCHANGED feedbackIn

\* prepare returned an error: it is shown for a while.
PressRefused(c) ==
    /\ ~NothingToStop(deck, c)
    /\ Requested(deck, c) = None
    /\ deck' = Reject(deck, c)
    /\ feedbackIn' = FeedbackTime
    /\ UNCHANGED serviceVars

-----------------------------------------------------------------------------
(* walkingpad_update.                                                       *)

Applied(s, u) ==
    CASE u.type = "Connection" -> ConnectionChanged(s, u.state)
      [] u.type = "Status"     -> ApplyStatus(s, u.telemetry, u.age)
      [] u.type = "Succeeded"  -> CommandSucceeded(s, u.request)
      [] u.type = "Failed"     -> CommandFailed(s, u.request)

\* The feedback deadline is set anew whenever a feedback is on show.
WalkingPadUpdate ==
    /\ ReadsEvent
    /\ deck' = Applied(deck, Head(events))
    /\ feedbackIn' = IF deck'.feedback # None THEN FeedbackTime ELSE feedbackIn

\* handle_deadlines, DeadlineId::WalkingPadFeedback.
FeedbackExpires ==
    /\ feedbackIn = 0
    /\ deck' = [deck EXCEPT !.feedback = None]
    /\ feedbackIn' = None
    /\ UNCHANGED serviceVars

\* wake: every deadline is drained, and this one is not set again.
SystemWakes ==
    /\ feedbackIn # None
    /\ feedbackIn' = None
    /\ UNCHANGED <<serviceVars, deck>>

-----------------------------------------------------------------------------
Older(u) == IF u.type = "Status" THEN [u EXCEPT !.age = @ + 1] ELSE u

\* The runtime is never further behind than MaxLag.
Tick ==
    /\ \A i \in DOMAIN events : events[i].type = "Status" => events[i].age < MaxLag
    /\ events' = [i \in DOMAIN events |-> Older(events[i])]
    /\ deck' = AgedDeck(deck)
    /\ feedbackIn' = IF feedbackIn \in Nat \ {0} THEN feedbackIn - 1 ELSE feedbackIn
    /\ TickService

SystemInit ==
    /\ Init
    /\ deck = NewDeck
    /\ feedbackIn = None

SystemNext ==
    \/ ServiceStep /\ UNCHANGED deckVars
    \/ \E c \in Commands : PressAccepted(c) \/ PressRefused(c)
    \/ WalkingPadUpdate
    \/ FeedbackExpires
    \/ SystemWakes
    \/ Tick

System == SystemInit /\ [][SystemNext]_vars

\* The task and the runtime are scheduled, and the clock runs.  FeedbackExpires is
\* strongly fair: the event loop picks at random between a due deadline and a
\* waiting event, so a deadline that keeps coming due is handled in the end.
FairSystem ==
    /\ System
    /\ WF_vars(ServiceStep /\ UNCHANGED deckVars)
    /\ WF_vars(WalkingPadUpdate)
    /\ SF_vars(FeedbackExpires)
    /\ WF_vars(Tick)

-----------------------------------------------------------------------------
(* Properties.                                                              *)

\* The shape of the runtime's half of the state.
DeckTypeOK ==
    /\ deck \in DeckState
    /\ feedbackIn \in 0..FeedbackTime \cup {None}

\* What the task last said of the connection, by where it is suspended.
Announced ==
    CASE phase = "connecting" -> {"Connecting"}
      [] phase = "closing"    -> {"Disconnected"}
      [] phase = "waiting"    -> {"Disconnected", "Locked"}
      [] OTHER                -> IF motionFault THEN {"Faulted"} ELSE {"Connected"}

\* Once the runtime has read every update, the deck shows the connection the
\* task is in.  It is no mere copy: apply_status sets the connection too, and a
\* status must never undo a disconnect or a fault that was published later.
DeckFollowsTask == events = <<>> => deck.connection \in Announced

\* Something that ends the wait of a pending command that has no answer yet.
AnswerComing(r) ==
    \/ r \in Range(normal) \/ inHand = r
    \/ r = StopRequest /\ (phase = "stopping" \/ urgent # <<>>)
    \/ \E u \in Range(events) :
          \/ u.type = "Succeeded" /\ u.request = r
          \/ u.type = "Failed"
          \/ u.type = "Connection" /\ u.state # "Connected"

\* A pending command has no timeout of its own until it was carried out, and
\* blocks every other press but Stop (COMMAND BUSY): so as long as it waits for
\* its answer, the answer, or a loss of the connection, is on its way.
PendingIsAnswered ==
    deck.pending # None /\ ~deck.pending.awaiting
        => AnswerComing(deck.pending.request)

\* In a fault the deck waits for a Stop or for nothing, whatever was pending
\* when the fault arrived and whatever is pressed after it.
FaultHoldsControls ==
    deck.connection = "Faulted" =>
        deck.pending = None \/ deck.pending.request = StopRequest

\* A wait ends visibly: by a status that confirms the command, or with a
\* feedback on show.
PendingEndsVisibly ==
    [][deck.pending # None /\ deck'.pending = None =>
          \/ deck'.feedback # None
          \/ /\ deck.pending.awaiting
             /\ Confirms(deck.pending.request, deck'.status.telemetry)]_vars

\* The controls come back: no command is pending for good.
PendingResolves == deck.pending # None ~> deck.pending = None

\* README.md:50, "Stop preempts a poll or another command": no motion command
\* that was sent before a Stop is carried out after it.
StopOvertakesNothing == [][ExecutesMotion => older = 0]_vars

\* deadline.rs:35, "Clear a command error after it has been visible long enough
\* to read": a feedback does not stay for good.
FeedbackIsCleared == deck.feedback # None ~> deck.feedback = None

=============================================================================
