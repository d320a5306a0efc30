-------------------------------- MODULE Turn --------------------------------
(***************************************************************************)
(* The record of one agent turn and what its TurnLifecycleCoordinator does *)
(* to it. Every method of the coordinator is synchronous, so each is an    *)
(* operator from the record before the call to the record after it; a call *)
(* that the coordinator ignores returns the record it was given.           *)
(*                                                                         *)
(* The texts, timestamps, titles and outputs of the work items are left    *)
(* out. A work item is known by its identifier, and an item of text by its *)
(* kind: at most one block of each kind streams at a time.                 *)
(***************************************************************************)
EXTENDS FiniteSets

CONSTANTS
  Tool,           \* the tool invocations a turn may make
  Interaction,    \* the questions a turn may put to the user
  NoInteraction   \* null

ASSUME TurnAssumption == NoInteraction \notin Interaction

\* 'active' is split by its detail: "processing" (and "startup") or
\* "tool_execution".
Active == {"processing", "tool_execution"}
TurnStatus == Active \cup {"requiresAttention", "cancelling", "unknown", "terminal"}
TerminalOutcome == {"completed", "failed", "cancelled", "interrupted"}
ToolStatus == {"none", "active"} \cup TerminalOutcome
InteractionStatus == {"none", "pending", "resolved", "denied", "cancelled"}
FinalAnswerStatus == {"none", "streaming", "completed", "interrupted", "absent"}

TurnRecord ==
  [status : TurnStatus,
   outcome : TerminalOutcome \cup {"none"},
   timeoutRequested : BOOLEAN,
   cancellationRequested : BOOLEAN,
   tool : [Tool -> ToolStatus],
   openTools : SUBSET Tool,
   interaction : [Interaction -> InteractionStatus],
   pending : Interaction \cup {NoInteraction},
   streaming : SUBSET {"commentary", "reasoning"},
   finalAnswer : FinalAnswerStatus]

\* createCanonicalTurn.
NewTurn ==
  [status |-> "processing",
   outcome |-> "none",
   timeoutRequested |-> FALSE,
   cancellationRequested |-> FALSE,
   tool |-> [x \in Tool |-> "none"],
   openTools |-> {},
   interaction |-> [i \in Interaction |-> "none"],
   pending |-> NoInteraction,
   streaming |-> {},
   finalAnswer |-> "none"]

IsTerminal(t) == t.status = "terminal"
IsCancelling(t) == t.cancellationRequested \/ t.status = "cancelling"
IsWaiting(t) == t.status = "requiresAttention" \/ t.pending # NoInteraction

\* What most methods ask before they record anything.
Records(t) == ~IsTerminal(t) /\ ~IsCancelling(t)

-----------------------------------------------------------------------------
(***************************************************************************)
(* What the provider reports.                                              *)
(***************************************************************************)

\* Commentary closes a reasoning block and opens a block, or adds to its own.
CommentaryDelta(t) ==
  IF Records(t) THEN [t EXCEPT !.streaming = {"commentary"}] ELSE t

ReasoningDelta(t) ==
  IF Records(t) THEN [t EXCEPT !.streaming = {"reasoning"}] ELSE t

\* A delta makes the answer stream again, whatever it was before.
FinalAnswerDelta(t) ==
  IF Records(t) THEN [t EXCEPT !.streaming = {}, !.finalAnswer = "streaming"] ELSE t

\* The answer as a whole, with the status the provider gives it.
SetFinalAnswer(t, status) ==
  IF Records(t) THEN [t EXCEPT !.finalAnswer = status] ELSE t

\* Mutant: the status tells of the tool although a question is open.
ToolStartedOverQuestion(t, x) ==
  IF Records(t)
    THEN [t EXCEPT !.streaming = {},
                   !.tool[x] = "active",
                   !.openTools = @ \cup {x},
                   !.status = "tool_execution"]
    ELSE t

\* A started tool brings a turn back to 'active' from anything but a question,
\* from 'unknown' too.
ToolStarted(t, x) ==
  IF Records(t)
    THEN [t EXCEPT !.streaming = {},
                   !.tool[x] = "active",
                   !.openTools = @ \cup {x},
                   !.status = IF IsWaiting(t) THEN @ ELSE "tool_execution"]
    ELSE t

\* A tool may end while the turn is being cancelled.
ToolCompleted(t, x, status) ==
  IF IsTerminal(t)
    THEN t
    ELSE [t EXCEPT !.tool[x] = status,
                   !.openTools = @ \ {x},
                   !.status = IF t.openTools \subseteq {x} /\ t.status \in Active
                                THEN "processing" ELSE @]

\* The question asked last is the one that is pending.
InteractionRequested(t, i) ==
  IF Records(t)
    THEN [t EXCEPT !.streaming = {},
                   !.interaction[i] = "pending",
                   !.pending = i,
                   !.status = "requiresAttention"]
    ELSE t

InteractionResolved(t, i) ==
  IF Records(t)
    THEN [t EXCEPT !.interaction[i] = "resolved",
                   !.pending = IF @ = i THEN NoInteraction ELSE @,
                   !.status = "processing"]
    ELSE t

-----------------------------------------------------------------------------
(***************************************************************************)
(* Intents and the end.                                                    *)
(***************************************************************************)

\* requestCancellation: accepted once, over a timeout that was requested too.
CancellationAccepted(t) == ~IsTerminal(t) /\ ~IsCancelling(t)

CancellationRequested(t) ==
  [t EXCEPT !.cancellationRequested = TRUE, !.status = "cancelling"]

\* checkProtocolSilence: whether silence is allowed to end the turn.
SilenceCounts(t) ==
  /\ t.status \notin {"unknown", "terminal"}
  /\ ~IsCancelling(t)
  /\ ~t.timeoutRequested
  /\ ~IsWaiting(t)

TimeoutRequested(t) == [t EXCEPT !.timeoutRequested = TRUE]

\* The handle of the operation is lost: an intent to time out is dropped, a
\* cancellation is not.
OperationLost(t) ==
  IF IsTerminal(t) THEN t ELSE [t EXCEPT !.timeoutRequested = FALSE, !.status = "unknown"]

\* Mutant: a cancellation prevails over a completion only.
ArbitrateCompleted(t, outcome) ==
  CASE t.timeoutRequested -> "failed"
    [] ~t.timeoutRequested /\ IsCancelling(t) /\ outcome = "completed" -> "cancelled"
    [] OTHER -> outcome

\* A timeout prevails over everything, a cancellation over what the provider says.
Arbitrate(t, outcome) ==
  CASE t.timeoutRequested -> "failed"
    [] ~t.timeoutRequested /\ IsCancelling(t) /\ outcome \in {"completed", "failed"} -> "cancelled"
    [] OTHER -> outcome

\* closeDanglingTools.
ToolEnd(outcome) == IF outcome = "completed" THEN "failed" ELSE outcome

\* Mutant: the answer takes the outcome of the turn.
SealedAnswerAsOutcome(t, outcome) ==
  IF t.finalAnswer # "streaming" THEN t.finalAnswer ELSE outcome

\* An answer that had been streaming has text: the runtime refuses an empty delta.
SealedAnswer(t, outcome) ==
  CASE t.finalAnswer # "streaming" -> t.finalAnswer
    [] t.finalAnswer = "streaming" /\ outcome = "completed" -> "completed"
    [] OTHER -> "interrupted"

\* settleTerminal: what is open is closed, once.
SettleTerminal(t, outcome) ==
  LET end == Arbitrate(t, outcome) IN
  IF IsTerminal(t)
    THEN t
    ELSE [t EXCEPT
            !.status = "terminal",
            !.outcome = end,
            !.tool = [x \in Tool |-> IF x \in t.openTools THEN ToolEnd(end) ELSE t.tool[x]],
            !.openTools = {},
            !.interaction =
               [i \in Interaction |->
                  IF i = t.pending
                    THEN IF end = "cancelled" THEN "cancelled" ELSE "denied"
                    ELSE t.interaction[i]],
            !.pending = NoInteraction,
            !.streaming = {},
            !.finalAnswer = SealedAnswer(t, end)]
=============================================================================
